----------------------- MODULE GuardrailStreamsProofs -----------------------
(***************************************************************************)
(* Theorems about the guardrail streams.                                   *)
(*                                                                         *)
(* The inductive invariant is the properties themselves and what the code  *)
(* takes for granted about its threads: what a handler knows at each of    *)
(* its steps (CallsTyped), that the profile and the tenant a handler found *)
(* for its stream stay the stream's (StreamsNamed), and that a stream still*)
(* open has not evaluated its end (OpenUnended).                           *)
(***************************************************************************)
EXTENDS GuardrailStreams, FiniteSetTheorems, TLAPS

Pointers == Profiles \cup {None}

ProfilesTyped ==
    /\ profiles \in [Keys -> [active: Pointers, last_known_good: Pointers,
                              revoked: SUBSET Digests]]
    /\ \A key \in Keys :
          {profiles[key].active, profiles[key].last_known_good}
             \subseteq {p \in Profiles : <<p.org, p.id>> = key} \cup {None}

\* ss is what the registry may hold once n streams have been created.
SessionsTyped(ss, n) ==
    /\ ss = [i \in DOMAIN ss |-> ss[i]]
    /\ DOMAIN ss \subseteq 1..n
    /\ \A i \in DOMAIN ss :
          /\ ss[i] \in Session
          /\ IsOpen(ss[i]) = (ss[i].closed = None)
          /\ ~IsOpen(ss[i]) => ss[i].buffered = 0

\* What a caller may be refused with.
Refusals ==
    {"STREAM_NOT_FOUND", "STREAM_CLOSED", "STREAM_CLEAR_FAILED", "STREAM_ROUTE_REQUIRED",
     "STREAM_PROFILE_REQUIRED", "STREAM_PROFILE_CHANGED", "STREAM_CAPACITY_EXCEEDED",
     "STREAM_SEQUENCE_INVALID", "PROFILE_UNAVAILABLE", "PROFILE_REVOKED",
     "PROFILE_NOT_YET_EFFECTIVE", "PROFILE_EXPIRED", "SDK_ERROR", "RAISED",
     "AUDIT_COMMIT_FAILED"}

CallRecord ==
    [pc: Running \cup {"idle", "done"},
     op: {"evaluate", "create", "push", "finish", None},
     org: Orgs \cup {None}, id: ProfileIds \cup {None}, stream: Nat \cup {None},
     sequence: Nat \cup {None}, now: Times \cup {None}, verified: Pointers,
     outcome: Outcomes \cup {None},
     answer: Refusals \cup {"CREATED", "EVALUATED", None}]

\* What a handler knows at each of its steps.
CallTyped(call, n) ==
    /\ call \in CallRecord
    /\ call.pc \in Running => call.org \in Orgs /\ call.now \in Times
    /\ call.pc = "profile_for" => call.op \in {"push", "finish"}
    /\ call.pc = "active" => /\ call.op \in {"evaluate", "create", "push", "finish"}
                             /\ call.id \in ProfileIds
    /\ call.pc \in {"evaluate", "create", "push", "finish"} =>
          /\ call.op = call.pc
          /\ call.id \in ProfileIds
          /\ call.verified \in Profiles
    /\ call.pc # "idle" /\ call.op \in {"push", "finish"} =>
          call.stream \in 1..n /\ call.sequence \in Nat \ {0}
    /\ call.pc \notin {"record", "done"} => call.outcome = None
    /\ call.pc # "done" => call.answer = None

CallsTyped == /\ calls = [c \in Calls |-> calls[c]]
              /\ \A c \in Calls : CallTyped(calls[c], created)

\* A handler that found its stream has the stream's tenant and profile.
StreamNamed(ss, call) ==
    call.pc \in {"active", "push", "finish"} /\ call.op \in {"push", "finish"}
    /\ call.stream \in DOMAIN ss =>
        ss[call.stream].org = call.org /\ ss[call.stream].profile = call.id

StreamsNamed == \A c \in Calls : StreamNamed(sessions, calls[c])

\* A stream that is still open has evaluated neither a finish nor a denied chunk.
OpenUnended ==
    \A i \in DOMAIN sessions : IsOpen(sessions[i]) =>
        \A c \in EvaluatedOn(i) :
            calls[c].op # "finish" /\ calls[c].outcome \notin Stopping

GuardrailInv ==
    /\ created \in Nat
    /\ ProfilesTyped
    /\ SessionsTyped(sessions, created)
    /\ CallsTyped
    /\ StreamsNamed
    /\ OpenCapacity
    /\ SequenceExact
    /\ OpenUnended
    /\ NothingAfterTheEnd

\* The profile a push read is the active one for as long as its stream is open:
\* what changes it closes the stream.
VerifiedActive ==
    \A c \in Calls :
        calls[c].pc \in {"push", "finish"} /\ calls[c].stream \in DOMAIN sessions
        /\ IsOpen(sessions[calls[c].stream]) =>
            profiles[<<calls[c].org, calls[c].id>>].active = calls[c].verified
-----------------------------------------------------------------------------
(***************************************************************************)
(* Sweeps: expire_profile, and _expire_and_prune with or without a failure *)
(* to clear, only close open sessions and drop closed ones.                *)
(***************************************************************************)
Reduced(ss) ==
    /\ ss = [i \in DOMAIN ss |-> ss[i]]
    /\ DOMAIN ss \subseteq DOMAIN sessions
    /\ \A i \in DOMAIN ss :
          \/ ss[i] = sessions[i]
          \/ /\ IsOpen(sessions[i])
             /\ \E at \in Times : ss[i] = Closed(sessions[i], "EXPIRED", at)

\* Closing a session leaves a session that is not open, whose tenant, profile
\* and sequence number are what they were.
LEMMA ClosedSession ==
    ASSUME NEW s \in Session, NEW at \in Times,
           NEW state \in {"TERMINATED", "FINISHED", "EXPIRED"}
    PROVE  LET t == Closed(s, state, at) IN
           /\ t \in Session
           /\ ~IsOpen(t)
           /\ t.closed = at /\ t.buffered = 0 /\ t.state = state
           /\ t.org = s.org /\ t.profile = s.profile /\ t.digest = s.digest
           /\ t.next_sequence = s.next_sequence /\ t.last_seen = s.last_seen
  BY DEF Closed, Session, IsOpen

\* What a sweep expires are sessions it was asked to expire.
LEMMA ExpiredOf ==
    ASSUME NEW S, NEW sweep \in ExpiryOutcomes(S)
    PROVE  /\ sweep.expired \subseteq S
           /\ ~sweep.failed => sweep.expired = S
           /\ ~ClearMayFail => ~sweep.failed
<1>1. CASE sweep = [expired |-> S, failed |-> FALSE]
  BY <1>1
<1>2. CASE ClearMayFail /\ \E f \in S :
              sweep = [expired |-> {i \in S : i < f}, failed |-> TRUE]
  BY <1>2
<1> QED  BY <1>1, <1>2 DEF ExpiryOutcomes

\* expire_profile only closes open sessions of the profile.
LEMMA ExpireProfileReduces ==
    ASSUME SessionsTyped(sessions, created), NEW key,
           NEW sweep \in ExpiryOutcomes(OpenOn(key))
    PROVE  Reduced(AfterExpireProfile(sweep.expired))
<1> DEFINE ss == AfterExpireProfile(sweep.expired)
<1>1. sweep.expired \subseteq OpenOn(key)
  BY ExpiredOf
<1>2. ss = [i \in DOMAIN ss |-> ss[i]] /\ DOMAIN ss = DOMAIN sessions
  BY DEF AfterExpireProfile
<1>3. ASSUME NEW i \in DOMAIN ss
      PROVE  \/ ss[i] = sessions[i]
             \/ /\ IsOpen(sessions[i])
                /\ \E at \in Times : ss[i] = Closed(sessions[i], "EXPIRED", at)
  <2>1. CASE i \in sweep.expired
    <3>1. IsOpen(sessions[i])
      BY <1>1, <2>1 DEF OpenOn
    <3>2. sessions[i].last_seen \in Times
      BY <1>2, <1>3 DEF SessionsTyped, Session
    <3>3. ss[i] = Closed(sessions[i], "EXPIRED", sessions[i].last_seen)
      BY <1>2, <1>3, <2>1 DEF AfterExpireProfile
    <3> QED  BY <3>1, <3>2, <3>3
  <2>2. CASE i \notin sweep.expired
    BY <1>2, <1>3, <2>2 DEF AfterExpireProfile
  <2> QED  BY <2>1, <2>2
<1> QED  BY <1>2, <1>3 DEF Reduced

\* So does _expire_and_prune, which also drops closed ones.
LEMMA SweepReduces ==
    ASSUME SessionsTyped(sessions, created), NEW now \in Times,
           NEW sweep \in ExpiryOutcomes(Idle(now))
    PROVE  Reduced(AfterSweep(sweep, now))
<1> DEFINE es == AfterExpiry(sweep.expired, now)
           ss == AfterSweep(sweep, now)
<1>1. sweep.expired \subseteq Idle(now)
  BY ExpiredOf
<1>2. DOMAIN es = DOMAIN sessions /\ es = [i \in DOMAIN es |-> es[i]]
  BY DEF AfterExpiry
<1>3. ASSUME NEW i \in DOMAIN es
      PROVE  \/ es[i] = sessions[i]
             \/ IsOpen(sessions[i]) /\ es[i] = Closed(sessions[i], "EXPIRED", now)
  BY <1>1 DEF AfterExpiry, Idle
<1>4. /\ ss = [i \in DOMAIN ss |-> ss[i]]
      /\ DOMAIN ss \subseteq DOMAIN es
      /\ \A i \in DOMAIN ss : ss[i] = es[i]
  <2> HIDE DEF es
  <2>1. ss = IF sweep.failed THEN es ELSE Pruned(es, now)
    BY DEF es, AfterSweep
  <2> HIDE DEF ss
  <2> QED  BY <1>2, <2>1 DEF Pruned
<1> HIDE DEF es, ss
<1>5. Reduced(ss)
  BY <1>2, <1>3, <1>4 DEF Reduced
<1> QED  BY <1>5 DEF ss

\* A sweep that clears everything leaves open exactly the sessions that are not
\* idle, as they were.
LEMMA SweepExact ==
    ASSUME SessionsTyped(sessions, created), NEW now \in Times,
           NEW sweep \in ExpiryOutcomes(Idle(now)), ~sweep.failed, NEW i
    PROVE  LET ss == AfterSweep(sweep, now) IN
           (i \in DOMAIN ss /\ IsOpen(ss[i])) <=>
               /\ i \in DOMAIN sessions /\ IsOpen(sessions[i])
               /\ now - sessions[i].last_seen < IdleTtl
<1> DEFINE es == AfterExpiry(sweep.expired, now)
           ss == AfterSweep(sweep, now)
<1>1. sweep.expired = Idle(now)
  BY ExpiredOf
<1>2. DOMAIN es = DOMAIN sessions
  BY DEF AfterExpiry
<1>3. CASE i \notin DOMAIN sessions
  BY <1>3 DEF AfterSweep, AfterExpiry, Pruned
<1>4. CASE i \in DOMAIN sessions
  <2>1. sessions[i] \in Session /\ (IsOpen(sessions[i]) <=> sessions[i].closed = None)
    BY <1>4 DEF SessionsTyped
  <2>2. now \in Nat /\ sessions[i].last_seen \in Nat /\ IdleTtl \in Nat
    BY <2>1, TimesAssumption, IdleTtlAssumption DEF Session
  <2>3. ss = Pruned(es, now)
    BY DEF AfterSweep
  <2>4. CASE i \in Idle(now)
    <3>1. es[i] = Closed(sessions[i], "EXPIRED", now)
      BY <1>1, <1>4, <2>4 DEF AfterExpiry
    <3>2. ~IsOpen(es[i])
      BY <2>1, <3>1, ClosedSession
    <3>3. ~(i \in DOMAIN ss /\ IsOpen(ss[i]))
      BY <2>3, <3>2 DEF Pruned
    <3>4. ~(now - sessions[i].last_seen < IdleTtl)
      BY <2>2, <2>4 DEF Idle
    <3> QED  BY <3>3, <3>4
  <2>5. CASE i \notin Idle(now)
    <3>1. es[i] = sessions[i]
      BY <1>1, <1>4, <2>5 DEF AfterExpiry
    <3>2. IsOpen(sessions[i]) => now - sessions[i].last_seen < IdleTtl
      BY <1>4, <2>2, <2>5 DEF Idle
    <3>3. IsOpen(sessions[i]) => i \in DOMAIN ss /\ ss[i] = sessions[i]
      <4> HIDE DEF es
      <4> QED  BY <1>2, <1>4, <2>1, <2>3, <3>1 DEF Pruned
    <3>4. i \in DOMAIN ss => ss[i] = sessions[i]
      <4> HIDE DEF es
      <4> QED  BY <2>3, <3>1 DEF Pruned
    <3> QED  BY <1>4, <3>2, <3>3, <3>4
  <2> QED  BY <2>4, <2>5
<1> QED  BY <1>3, <1>4

\* What a sweep leaves of a session: an open one is as it was, and a closed one
\* keeps its tenant, its profile and its place in the stream.
LEMMA ReducedSession ==
    ASSUME SessionsTyped(sessions, created), NEW ss, Reduced(ss), NEW i \in DOMAIN ss
    PROVE  /\ i \in DOMAIN sessions
           /\ ss[i] \in Session
           /\ IsOpen(ss[i]) => ss[i] = sessions[i]
           /\ IsOpen(ss[i]) = (ss[i].closed = None)
           /\ ~IsOpen(ss[i]) => ss[i].buffered = 0
           /\ ss[i].org = sessions[i].org /\ ss[i].profile = sessions[i].profile
           /\ ss[i].digest = sessions[i].digest
           /\ ss[i].next_sequence = sessions[i].next_sequence
           /\ ss[i].last_seen = sessions[i].last_seen
<1>1. i \in DOMAIN sessions
  BY DEF Reduced
<1>2. /\ sessions[i] \in Session
      /\ IsOpen(sessions[i]) = (sessions[i].closed = None)
      /\ ~IsOpen(sessions[i]) => sessions[i].buffered = 0
  BY <1>1 DEF SessionsTyped
<1>3. CASE ss[i] = sessions[i]
  BY <1>1, <1>2, <1>3
<1>4. CASE \E at \in Times : ss[i] = Closed(sessions[i], "EXPIRED", at)
  <2>1. PICK at \in Times : ss[i] = Closed(sessions[i], "EXPIRED", at)
    BY <1>4
  <2>2. /\ ss[i] \in Session /\ ~IsOpen(ss[i]) /\ ss[i].closed = at
        /\ ss[i].buffered = 0
        /\ ss[i].org = sessions[i].org /\ ss[i].profile = sessions[i].profile
        /\ ss[i].digest = sessions[i].digest
        /\ ss[i].next_sequence = sessions[i].next_sequence
        /\ ss[i].last_seen = sessions[i].last_seen
    BY <1>2, <2>1, ClosedSession
  <2>3. IsOpen(ss[i]) = (ss[i].closed = None)
    BY <2>2, NoneAssumption DEF IsOpen
  <2> QED  BY <1>1, <2>2, <2>3
<1> QED  BY <1>3, <1>4 DEF Reduced

LEMMA ReducedTyped ==
    ASSUME SessionsTyped(sessions, created), NEW ss, Reduced(ss)
    PROVE  SessionsTyped(ss, created)
<1>1. DOMAIN ss \subseteq 1..created
  BY DEF Reduced, SessionsTyped
<1>2. ASSUME NEW i \in DOMAIN ss
      PROVE  /\ ss[i] \in Session
             /\ IsOpen(ss[i]) = (ss[i].closed = None)
             /\ ~IsOpen(ss[i]) => ss[i].buffered = 0
  BY ReducedSession
<1> QED  BY <1>1, <1>2 DEF SessionsTyped, Reduced

\* The sessions as they are are reduced.
LEMMA UnchangedReduced ==
    ASSUME SessionsTyped(sessions, created)
    PROVE  Reduced(sessions)
  BY DEF SessionsTyped, Reduced

\* The open streams of a tenant, whom the capacity counts.
OpenIds(ss, o) == {i \in DOMAIN ss : ss[i].org = o /\ IsOpen(ss[i])}

LEMMA OpenIdsFinite ==
    ASSUME created \in Nat, NEW ss, SessionsTyped(ss, created), NEW o
    PROVE  IsFiniteSet(OpenIds(ss, o)) /\ OpenCount(ss, o) \in Nat
<1>1. OpenIds(ss, o) \subseteq 1..created
  BY DEF OpenIds, SessionsTyped
<1>2. IsFiniteSet(1..created)
  BY FS_Interval
<1>3. IsFiniteSet(OpenIds(ss, o))
  BY <1>1, <1>2, FS_Subset
<1>4. OpenCount(ss, o) = Cardinality(OpenIds(ss, o))
  BY DEF OpenCount, OpenIds
<1> QED  BY <1>3, <1>4, FS_CardinalityType

\* A sweep never adds to the streams a tenant has open.
LEMMA ReducedCount ==
    ASSUME created \in Nat, SessionsTyped(sessions, created), NEW ss, Reduced(ss), NEW o
    PROVE  OpenCount(ss, o) <= OpenCount(sessions, o)
<1>1. OpenIds(ss, o) \subseteq OpenIds(sessions, o)
  <2> SUFFICES ASSUME NEW i \in DOMAIN ss, ss[i].org = o, IsOpen(ss[i])
               PROVE  i \in OpenIds(sessions, o)
    BY DEF OpenIds
  <2> QED  BY ReducedSession DEF OpenIds
<1>2. IsFiniteSet(OpenIds(sessions, o))
  BY OpenIdsFinite
<1>3. Cardinality(OpenIds(ss, o)) <= Cardinality(OpenIds(sessions, o))
  BY <1>1, <1>2, FS_Subset
<1> QED  BY <1>3 DEF OpenCount, OpenIds
-----------------------------------------------------------------------------
(***************************************************************************)
(* Steps that evaluate nothing.                                            *)
(***************************************************************************)
Unevaluated(call) == call.op \notin {"push", "finish"} \/ call.outcome = None

\* As far as the streams are concerned, nothing was evaluated.
SameEvaluated ==
    \A c \in Calls :
        \/ /\ calls'[c].op = calls[c].op /\ calls'[c].stream = calls[c].stream
           /\ calls'[c].sequence = calls[c].sequence
           /\ calls'[c].outcome = calls[c].outcome
        \/ Unevaluated(calls[c]) /\ Unevaluated(calls'[c])

LEMMA SameEvaluatedOn ==
    ASSUME SameEvaluated, NEW i
    PROVE  /\ EvaluatedOn(i)' = EvaluatedOn(i)
           /\ \A c \in EvaluatedOn(i) :
                 /\ calls'[c].op = calls[c].op
                 /\ calls'[c].sequence = calls[c].sequence
                 /\ calls'[c].outcome = calls[c].outcome
  BY DEF SameEvaluated, EvaluatedOn, Unevaluated

\* The history of every stream survives a step that evaluates nothing and at most
\* sweeps.
LEMMA HistoryKept ==
    ASSUME GuardrailInv, Reduced(sessions'), created' = created, SameEvaluated
    PROVE  /\ SequenceExact' /\ OpenUnended' /\ NothingAfterTheEnd' /\ OpenCapacity'
           /\ SessionsTyped(sessions', created')
<1> USE DEF GuardrailInv
<1>1. SequenceExact'
  <2> SUFFICES ASSUME NEW i \in 1..created
               PROVE  /\ \A c, d \in EvaluatedOn(i)' :
                            calls'[c].sequence = calls'[d].sequence => c = d
                      /\ i \in DOMAIN sessions' =>
                            {calls'[c].sequence : c \in EvaluatedOn(i)'}
                                = 1..(sessions'[i].next_sequence - 1)
    BY DEF SequenceExact
  <2>1. /\ EvaluatedOn(i)' = EvaluatedOn(i)
        /\ \A c \in EvaluatedOn(i) : calls'[c].sequence = calls[c].sequence
    BY SameEvaluatedOn
  <2>2. {calls'[c].sequence : c \in EvaluatedOn(i)'}
           = {calls[c].sequence : c \in EvaluatedOn(i)}
    BY <2>1
  <2>3. i \in DOMAIN sessions' =>
           i \in DOMAIN sessions /\ sessions'[i].next_sequence = sessions[i].next_sequence
    BY ReducedSession
  <2> QED  BY <2>1, <2>2, <2>3 DEF SequenceExact
<1>2. OpenUnended'
  <2> SUFFICES ASSUME NEW i \in DOMAIN sessions', IsOpen(sessions'[i]),
                      NEW c \in EvaluatedOn(i)'
               PROVE  calls'[c].op # "finish" /\ calls'[c].outcome \notin Stopping
    BY DEF OpenUnended
  <2>1. i \in DOMAIN sessions /\ IsOpen(sessions[i])
    BY ReducedSession
  <2>2. /\ c \in EvaluatedOn(i)
        /\ calls'[c].op = calls[c].op /\ calls'[c].outcome = calls[c].outcome
    BY SameEvaluatedOn
  <2> QED  BY <2>1, <2>2 DEF OpenUnended
<1>3. NothingAfterTheEnd'
  <2> SUFFICES ASSUME NEW i \in 1..created, NEW c \in EvaluatedOn(i)',
                      NEW d \in EvaluatedOn(i)',
                      calls'[c].op = "finish" \/ calls'[c].outcome \in Stopping
               PROVE  calls'[d].sequence <= calls'[c].sequence
    BY DEF NothingAfterTheEnd
  <2>1. /\ EvaluatedOn(i)' = EvaluatedOn(i)
        /\ \A e \in EvaluatedOn(i) : /\ calls'[e].op = calls[e].op
                                     /\ calls'[e].sequence = calls[e].sequence
                                     /\ calls'[e].outcome = calls[e].outcome
    BY SameEvaluatedOn
  <2> QED  BY <2>1 DEF NothingAfterTheEnd
<1>4. OpenCapacity'
  <2> SUFFICES ASSUME NEW o \in Orgs
               PROVE  OpenCount(sessions', o) <= MaxOpen
    BY DEF OpenCapacity, OpenCount
  <2>0. SessionsTyped(sessions', created)
    BY ReducedTyped
  <2>1. OpenCount(sessions', o) <= OpenCount(sessions, o)
    BY ReducedCount
  <2>2. OpenCount(sessions', o) \in Nat /\ OpenCount(sessions, o) \in Nat
    BY <2>0, OpenIdsFinite
  <2>3. OpenCount(sessions, o) <= MaxOpen
    BY DEF OpenCapacity
  <2> QED  BY <2>1, <2>2, <2>3, MaxOpenAssumption
<1>5. SessionsTyped(sessions', created')
  BY ReducedTyped
<1> QED  BY <1>1, <1>2, <1>3, <1>4, <1>5
-----------------------------------------------------------------------------
(***************************************************************************)
(* Steps of a handler, by what its call becomes.                           *)
(***************************************************************************)
Becomes(c, call) == calls' = [d \in Calls |-> IF d = c THEN call ELSE calls[d]]

LEMMA BecomesTyped ==
    ASSUME created \in Nat, created' \in Nat, created <= created', CallsTyped,
           NEW c \in Calls, NEW call, Becomes(c, call), CallTyped(call, created')
    PROVE  CallsTyped'
<1>1. calls' = [d \in Calls |-> calls'[d]]
  BY DEF Becomes
<1>2. ASSUME NEW d \in Calls
      PROVE  CallTyped(calls'[d], created')
  <2>1. CASE d = c
    BY <2>1 DEF Becomes
  <2>2. CASE d # c
    <3>1. calls'[d] = calls[d]
      BY <2>2 DEF Becomes
    <3>2. CallTyped(calls[d], created)
      BY DEF CallsTyped
    <3>3. 1..created \subseteq 1..created'
      OBVIOUS
    <3>4. CallTyped(calls[d], created')
      BY <3>2, <3>3 DEF CallTyped
    <3> QED  BY <3>1, <3>4
  <2> QED  BY <2>1, <2>2
<1> QED  BY <1>1, <1>2 DEF CallsTyped

\* A handler that refuses its caller is done.
Refused(call, reason) == [call EXCEPT !.pc = "done", !.answer = reason]

LEMMA DeniedBecomes ==
    ASSUME CallsTyped, NEW c \in Calls, NEW reason, Denied(c, reason)
    PROVE  Becomes(c, Refused(calls[c], reason))
  BY DEF Denied, CallsTyped, CallTyped, CallRecord, Becomes, Refused

LEMMA RefusedTyped ==
    ASSUME NEW n, NEW call, CallTyped(call, n), call.pc # "idle", NEW reason \in Refusals
    PROVE  /\ CallTyped(Refused(call, reason), n)
           /\ Refused(call, reason).op = call.op
           /\ Refused(call, reason).stream = call.stream
           /\ Refused(call, reason).sequence = call.sequence
           /\ Refused(call, reason).outcome = call.outcome
           /\ Refused(call, reason).pc = "done"
           /\ Refused(call, reason).answer = reason
<1> DEFINE new == Refused(call, reason)
<1>1. call \in CallRecord
  BY DEF CallTyped
<1>2. new \in CallRecord
  BY <1>1 DEF CallRecord, Refused
<1>3. /\ new.op = call.op /\ new.stream = call.stream
      /\ new.sequence = call.sequence /\ new.outcome = call.outcome
      /\ new.pc = "done" /\ new.answer = reason
  BY <1>1 DEF CallRecord, Refused
<1> HIDE DEF new
<1>4. CallTyped(new, n)
  BY <1>2, <1>3 DEF CallTyped, Running
<1>5. /\ CallTyped(new, n)
      /\ new.op = call.op /\ new.stream = call.stream
      /\ new.sequence = call.sequence /\ new.outcome = call.outcome
      /\ new.pc = "done" /\ new.answer = reason
  BY <1>3, <1>4
<1> QED  BY <1>5 DEF new

\* A handler's step that evaluates nothing, and at most sweeps, keeps the
\* invariant.
LEMMA QuietStep ==
    ASSUME GuardrailInv, NEW c \in Calls, NEW call, Becomes(c, call),
           CallTyped(call, created), StreamNamed(sessions', call),
           \/ /\ call.op = calls[c].op /\ call.stream = calls[c].stream
              /\ call.sequence = calls[c].sequence /\ call.outcome = calls[c].outcome
           \/ Unevaluated(calls[c]) /\ Unevaluated(call),
           Reduced(sessions'), created' = created, profiles' = profiles
    PROVE  GuardrailInv'
<1> USE DEF GuardrailInv
<1>1. SameEvaluated
  BY DEF SameEvaluated, Becomes
<1>2. /\ SequenceExact' /\ OpenUnended' /\ NothingAfterTheEnd' /\ OpenCapacity'
      /\ SessionsTyped(sessions', created')
  BY <1>1, HistoryKept
<1>3. CallsTyped'
  BY BecomesTyped
<1>4. StreamsNamed'
  <2> SUFFICES ASSUME NEW d \in Calls
               PROVE  StreamNamed(sessions', calls'[d])
    BY DEF StreamsNamed
  <2>1. CASE d = c
    BY <2>1 DEF Becomes
  <2>2. CASE d # c
    <3>1. calls'[d] = calls[d] /\ StreamNamed(sessions, calls[d])
      BY <2>2 DEF Becomes, StreamsNamed
    <3>2. ASSUME calls[d].stream \in DOMAIN sessions'
          PROVE  /\ calls[d].stream \in DOMAIN sessions
                 /\ sessions'[calls[d].stream].org = sessions[calls[d].stream].org
                 /\ sessions'[calls[d].stream].profile = sessions[calls[d].stream].profile
      BY <3>2, ReducedSession
    <3> QED  BY <3>1, <3>2 DEF StreamNamed
  <2> QED  BY <2>1, <2>2
<1>5. ProfilesTyped'
  BY DEF ProfilesTyped
<1> QED  BY <1>2, <1>3, <1>4, <1>5

\* A refusal, with whatever the sweep before it closed.
LEMMA DeniedStep ==
    ASSUME GuardrailInv, NEW c \in Calls, calls[c].pc # "idle",
           NEW reason \in Refusals, Denied(c, reason),
           Reduced(sessions'), created' = created, profiles' = profiles
    PROVE  GuardrailInv'
<1> DEFINE new == Refused(calls[c], reason)
<1>1. Becomes(c, new)
  BY DeniedBecomes DEF GuardrailInv
<1>2. CallTyped(calls[c], created)
  BY DEF GuardrailInv, CallsTyped
<1>3. /\ CallTyped(new, created) /\ new.op = calls[c].op
      /\ new.stream = calls[c].stream /\ new.sequence = calls[c].sequence
      /\ new.outcome = calls[c].outcome /\ new.pc = "done"
  BY <1>2, RefusedTyped
<1> HIDE DEF new
<1>4. StreamNamed(sessions', new)
  BY <1>3 DEF StreamNamed
<1> QED  BY <1>1, <1>3, <1>4, QuietStep
-----------------------------------------------------------------------------
(***************************************************************************)
(* One lemma per action.                                                   *)
(***************************************************************************)
Own(key) == {p \in Profiles : <<p.org, p.id>> = key} \cup {None}

LEMMA SetProfileInv ==
    ASSUME GuardrailInv, NEW key \in Keys, NEW active \in Own(key), NEW lkg \in Own(key),
           NEW revoked \in SUBSET Digests, SetProfile(key, active, lkg, revoked)
    PROVE  GuardrailInv'
<1> USE DEF GuardrailInv
<1>1. ProfilesTyped'
  <2> DEFINE new == [active |-> active, last_known_good |-> lkg, revoked |-> revoked]
  <2>1. profiles' = [profiles EXCEPT ![key] = new]
    BY DEF SetProfile
  <2>2. new \in [active: Pointers, last_known_good: Pointers, revoked: SUBSET Digests]
    BY DEF Own, Pointers
  <2>3. {new.active, new.last_known_good} \subseteq Own(key)
    OBVIOUS
  <2> HIDE DEF new
  <2>4. ASSUME NEW k \in Keys
        PROVE  {profiles'[k].active, profiles'[k].last_known_good} \subseteq Own(k)
    BY <2>1, <2>3 DEF ProfilesTyped, Own
  <2> QED  BY <2>1, <2>2, <2>4 DEF ProfilesTyped, Own
<1>2. Reduced(sessions')
  BY ExpireProfileReduces DEF SetProfile
<1>3. created' = created /\ calls' = calls
  BY DEF SetProfile
<1>4. SameEvaluated
  BY <1>3 DEF SameEvaluated
<1>5. /\ SequenceExact' /\ OpenUnended' /\ NothingAfterTheEnd' /\ OpenCapacity'
      /\ SessionsTyped(sessions', created')
  BY <1>2, <1>3, <1>4, HistoryKept
<1>6. CallsTyped'
  BY <1>3 DEF CallsTyped
<1>7. StreamsNamed'
  <2> SUFFICES ASSUME NEW d \in Calls
               PROVE  StreamNamed(sessions', calls[d])
    BY <1>3 DEF StreamsNamed
  <2>1. ASSUME calls[d].stream \in DOMAIN sessions'
        PROVE  /\ calls[d].stream \in DOMAIN sessions
               /\ sessions'[calls[d].stream].org = sessions[calls[d].stream].org
               /\ sessions'[calls[d].stream].profile = sessions[calls[d].stream].profile
    BY <1>2, <2>1, ReducedSession
  <2> QED  BY <2>1 DEF StreamsNamed, StreamNamed
<1> QED  BY <1>1, <1>3, <1>5, <1>6, <1>7

\* What a pointer holds belongs to the pointer's key.
LEMMA PointersOwn ==
    ASSUME GuardrailInv, NEW key \in Keys
    PROVE  /\ profiles[key].active \in Own(key)
           /\ profiles[key].last_known_good \in Own(key)
           /\ profiles[key].revoked \subseteq Digests
  BY DEF GuardrailInv, ProfilesTyped, Own

LEMMA ActivateInv ==
    ASSUME GuardrailInv, NEW p \in Profiles, NEW now \in Times, Activate(p, now)
    PROVE  GuardrailInv'
<1> DEFINE key == <<p.org, p.id>>
<1>1. key \in Keys
  BY ProfilesAssumption DEF Profile, Keys
<1>2. p \in Own(key)
  BY DEF Own
<1>3. SetProfile(key, p, profiles[key].active, profiles[key].revoked)
  BY DEF Activate
<1> HIDE DEF key
<1>4. profiles[key].active \in Own(key) /\ profiles[key].revoked \in SUBSET Digests
  BY <1>1, PointersOwn
<1> QED  BY <1>1, <1>2, <1>3, <1>4, SetProfileInv

LEMMA RevokeInv ==
    ASSUME GuardrailInv, NEW key \in Keys, NEW digest \in Digests, Revoke(key, digest)
    PROVE  GuardrailInv'
<1> DEFINE active == UnlessRevoked(profiles[key].active, digest)
           lkg == UnlessRevoked(profiles[key].last_known_good, digest)
           revoked == profiles[key].revoked \cup {digest}
<1>1. active \in Own(key) /\ lkg \in Own(key)
  BY PointersOwn DEF UnlessRevoked, Own
<1>2. revoked \in SUBSET Digests
  BY PointersOwn
<1>3. SetProfile(key, active, lkg, revoked)
  BY DEF Revoke
<1> HIDE DEF active, lkg, revoked
<1> QED  BY <1>1, <1>2, <1>3, SetProfileInv

LEMMA RollbackInv ==
    ASSUME GuardrailInv, NEW key \in Keys, NEW now \in Times, Rollback(key, now)
    PROVE  GuardrailInv'
<1>1. SetProfile(key, profiles[key].last_known_good, None, profiles[key].revoked)
  BY DEF Rollback
<1>2. /\ profiles[key].last_known_good \in Own(key) /\ None \in Own(key)
      /\ profiles[key].revoked \in SUBSET Digests
  BY PointersOwn DEF Own
<1> QED  BY <1>1, <1>2, SetProfileInv

LEMMA BeginProfileInv ==
    ASSUME GuardrailInv, NEW c \in Calls, NEW op \in Operations, NEW o \in Orgs,
           NEW id \in ProfileIds, NEW now \in Times, BeginProfile(c, op, o, id, now)
    PROVE  GuardrailInv'
<1>1. PICK new : new = [NewCall EXCEPT !.pc = "active", !.op = op, !.org = o,
                                       !.id = id, !.now = now]
  OBVIOUS
<1>2. Becomes(c, new)
  BY <1>1 DEF BeginProfile, Becomes, GuardrailInv, CallsTyped
<1>3. /\ new.pc = "active" /\ new.op = op /\ new.org = o /\ new.id = id
      /\ new.stream = None /\ new.sequence = None /\ new.now = now
      /\ new.verified = None /\ new.outcome = None /\ new.answer = None
      /\ new \in CallRecord
  BY <1>1, OperationsAssumption DEF NewCall, CallRecord, Running, Pointers
<1>4. op \in {"evaluate", "create"}
  BY DEF BeginProfile
<1>5. CallTyped(new, created)
  BY <1>3, <1>4 DEF CallTyped
<1>6. StreamNamed(sessions', new)
  BY <1>3, <1>4 DEF StreamNamed
<1>7. Unevaluated(calls[c]) /\ Unevaluated(new)
  BY <1>3 DEF BeginProfile, GuardrailInv, CallsTyped, CallTyped, Unevaluated
<1>8. Reduced(sessions') /\ created' = created /\ profiles' = profiles
  BY UnchangedReduced DEF BeginProfile, GuardrailInv
<1> QED  BY <1>2, <1>5, <1>6, <1>7, <1>8, QuietStep

LEMMA BeginStreamInv ==
    ASSUME GuardrailInv, NEW c \in Calls, NEW op \in Operations, NEW o \in Orgs,
           NEW now \in Times, NEW stream \in 1..created,
           NEW sequence \in 1..Cardinality(Calls),
           BeginStream(c, op, o, stream, sequence, now)
    PROVE  GuardrailInv'
<1>1. PICK new : new = [NewCall EXCEPT !.pc = "profile_for", !.op = op, !.org = o,
                                       !.stream = stream, !.sequence = sequence,
                                       !.now = now]
  OBVIOUS
<1>2. Becomes(c, new)
  BY <1>1 DEF BeginStream, Becomes, GuardrailInv, CallsTyped
<1>3. created \in Nat /\ stream \in Nat /\ sequence \in Nat \ {0}
  BY CallsAssumption, FS_CardinalityType DEF GuardrailInv
<1>4. /\ new.pc = "profile_for" /\ new.op = op /\ new.org = o /\ new.id = None
      /\ new.stream = stream /\ new.sequence = sequence /\ new.now = now
      /\ new.verified = None /\ new.outcome = None /\ new.answer = None
      /\ new \in CallRecord
  BY <1>1, <1>3, OperationsAssumption DEF NewCall, CallRecord, Running, Pointers
<1>5. op \in {"push", "finish"}
  BY DEF BeginStream
<1>6. CallTyped(new, created)
  BY <1>3, <1>4, <1>5 DEF CallTyped
<1>7. StreamNamed(sessions', new)
  BY <1>4 DEF StreamNamed
<1>8. Unevaluated(calls[c]) /\ Unevaluated(new)
  BY <1>4 DEF BeginStream, GuardrailInv, CallsTyped, CallTyped, Unevaluated
<1>9. Reduced(sessions') /\ created' = created /\ profiles' = profiles
  BY UnchangedReduced DEF BeginStream, GuardrailInv
<1> QED  BY <1>2, <1>6, <1>7, <1>8, <1>9, QuietStep

LEMMA ProfileForInv ==
    ASSUME GuardrailInv, NEW c \in Calls, ProfileFor(c)
    PROVE  GuardrailInv'
<1> DEFINE call == calls[c]
<1>1. PICK sweep \in ExpiryOutcomes(Idle(call.now)) :
         LET ss == AfterSweep(sweep, call.now)
             refusal == IF sweep.failed THEN "STREAM_CLEAR_FAILED"
                        ELSE LookupRefusal(ss, call)
         IN  /\ sessions' = ss
             /\ IF refusal # "NONE" THEN Denied(c, refusal)
                ELSE calls' = [calls EXCEPT ![c].pc = "active",
                                            ![c].id = ss[call.stream].profile]
  BY DEF ProfileFor
<1>2. CallTyped(call, created) /\ call.pc = "profile_for"
  BY DEF ProfileFor, GuardrailInv, CallsTyped
<1>3. created \in Nat /\ SessionsTyped(sessions, created)
  BY DEF GuardrailInv
<1>4. call.now \in Times
  BY <1>2 DEF CallTyped, Running
<1>5. sessions' = AfterSweep(sweep, call.now)
  BY <1>1
<1>6. Reduced(sessions')
  BY <1>3, <1>4, <1>5, SweepReduces
<1>7. created' = created /\ profiles' = profiles
  BY DEF ProfileFor
<1>10. calls[c].pc # "idle"
  BY <1>2
<1> DEFINE refusal == IF sweep.failed THEN "STREAM_CLEAR_FAILED"
                      ELSE LookupRefusal(sessions', call)
<1>8. CASE refusal # "NONE"
  <2>1. Denied(c, refusal)
    BY <1>1, <1>8
  <2>2. refusal \in Refusals
    BY <1>8 DEF LookupRefusal, Refusals
  <2> HIDE DEF refusal, call
  <2> QED  BY <1>6, <1>7, <1>10, <2>1, <2>2, DeniedStep
<1>9. CASE refusal = "NONE"
  <2>1. calls' = [calls EXCEPT ![c].pc = "active", ![c].id = sessions'[call.stream].profile]
    BY <1>1, <1>9
  <2>2. LookupRefusal(sessions', call) = "NONE"
    BY <1>9
  <2>3. /\ call.stream \in DOMAIN sessions'
        /\ sessions'[call.stream].org = call.org
    BY <2>2 DEF LookupRefusal
  <2>4. sessions'[call.stream] \in Session
    BY <1>3, <1>6, <2>3, ReducedSession
  <2>5. PICK new : new = [call EXCEPT !.pc = "active",
                                      !.id = sessions'[call.stream].profile]
    OBVIOUS
  <2>6. call \in CallRecord
    BY <1>2 DEF CallTyped
  <2>7. Becomes(c, new)
    BY <2>1, <2>5, <2>6 DEF Becomes, GuardrailInv, CallsTyped, CallRecord
  <2>8. /\ new \in CallRecord
        /\ new.pc = "active" /\ new.id = sessions'[call.stream].profile
        /\ new.op = call.op /\ new.org = call.org /\ new.stream = call.stream
        /\ new.sequence = call.sequence /\ new.now = call.now
        /\ new.verified = call.verified /\ new.outcome = call.outcome
        /\ new.answer = call.answer
    BY <2>4, <2>5, <2>6 DEF CallRecord, Session, Running
  <2> HIDE DEF call
  <2>9. CallTyped(new, created)
    BY <1>2, <2>4, <2>8 DEF CallTyped, Session, Running
  <2>10. StreamNamed(sessions', new)
    BY <2>3, <2>8 DEF StreamNamed
  <2> QED  BY <1>6, <1>7, <2>7, <2>8, <2>9, <2>10, QuietStep DEF call
<1> QED  BY <1>8, <1>9

LEMMA ReadActiveInv ==
    ASSUME GuardrailInv, NEW c \in Calls, ReadActive(c)
    PROVE  GuardrailInv'
<1> DEFINE call == calls[c]
           key == <<call.org, call.id>>
           refusal == ActiveRefusal(key, call.now)
<1>1. CallTyped(call, created) /\ call.pc = "active"
  BY DEF ReadActive, GuardrailInv, CallsTyped
<1>2. created \in Nat /\ SessionsTyped(sessions, created)
  BY DEF GuardrailInv
<1>3. created' = created /\ profiles' = profiles
  BY DEF ReadActive
<1>4. Reduced(sessions)
  BY <1>2, UnchangedReduced
<1>5. key \in Keys
  BY <1>1 DEF CallTyped, Running, Keys
<1>8. calls[c].pc # "idle"
  BY <1>1
<1>6. CASE refusal = "NONE"
  <2>1. /\ calls' = [calls EXCEPT ![c].pc = call.op, ![c].verified = profiles[key].active]
        /\ sessions' = sessions
    BY <1>6 DEF ReadActive
  <2>2. profiles[key].active \in Profiles
    <3>1. profiles[key].active # None
      BY <1>6 DEF ActiveRefusal
    <3>2. profiles[key].active \in Own(key)
      BY <1>5, PointersOwn
    <3> QED  BY <3>1, <3>2 DEF Own
  <2>3. PICK active : active = profiles[key].active
    OBVIOUS
  <2>4. PICK new : new = [call EXCEPT !.pc = call.op, !.verified = active]
    OBVIOUS
  <2>5. call \in CallRecord
    BY <1>1 DEF CallTyped
  <2>6. Becomes(c, new)
    BY <2>1, <2>3, <2>4, <2>5 DEF Becomes, GuardrailInv, CallsTyped, CallRecord
  <2>7. call.op \in {"evaluate", "create", "push", "finish"}
    BY <1>1 DEF CallTyped
  <2>8. /\ new \in CallRecord
        /\ new.pc = call.op /\ new.verified = active /\ new.id = call.id
        /\ new.op = call.op /\ new.org = call.org /\ new.stream = call.stream
        /\ new.sequence = call.sequence /\ new.now = call.now
        /\ new.outcome = call.outcome /\ new.answer = call.answer
    <3>1. call.op \in Running \cup {"idle", "done"} /\ active \in Pointers
      BY <2>2, <2>3, <2>7 DEF Running, Pointers
    <3> HIDE DEF call, key, refusal
    <3> QED  BY <2>4, <2>5, <3>1 DEF CallRecord
  <2>9. StreamNamed(sessions, call)
    BY DEF GuardrailInv, StreamsNamed
  <2> HIDE DEF call, key, refusal
  <2>10. CallTyped(new, created)
    BY <1>1, <2>2, <2>3, <2>7, <2>8 DEF CallTyped, Running
  <2>11. StreamNamed(sessions', new)
    BY <1>1, <2>1, <2>8, <2>9 DEF StreamNamed
  <2>12. Reduced(sessions')
    BY <1>4, <2>1
  <2> QED  BY <1>3, <2>6, <2>8, <2>10, <2>11, <2>12, QuietStep DEF call
<1>7. CASE refusal # "NONE"
  <2>1. refusal \in Refusals
    BY <1>7 DEF ActiveRefusal, Refusals
  <2>2. CASE refusal = "PROFILE_EXPIRED"
    <3>1. PICK sweep \in ExpiryOutcomes(OpenOn(key)) :
             /\ sessions' = AfterExpireProfile(sweep.expired)
             /\ Denied(c, IF ~sweep.failed THEN refusal
                          ELSE IF call.op \in {"push", "finish"}
                          THEN "STREAM_CLEAR_FAILED" ELSE "RAISED")
      BY <2>2 DEF ReadActive
    <3>2. Reduced(sessions')
      BY <1>2, <3>1, ExpireProfileReduces
    <3>3. PICK reason \in Refusals : Denied(c, reason)
      BY <2>1, <3>1 DEF Refusals
    <3> HIDE DEF call, key, refusal
    <3> QED  BY <1>8, <1>3, <3>2, <3>3, DeniedStep
  <2>3. CASE refusal # "PROFILE_EXPIRED"
    <3>1. Denied(c, refusal) /\ sessions' = sessions
      BY <1>7, <2>3 DEF ReadActive
    <3> HIDE DEF call, key, refusal
    <3>2. Reduced(sessions')
      BY <1>4, <3>1
    <3> QED  BY <1>8, <1>3, <2>1, <3>1, <3>2, DeniedStep
  <2> QED  BY <2>2, <2>3
<1> QED  BY <1>6, <1>7

LEMMA EvaluateInv ==
    ASSUME GuardrailInv, NEW c \in Calls, NEW outcome \in Outcomes, Evaluate(c, outcome)
    PROVE  GuardrailInv'
<1> DEFINE call == calls[c]
<1>1. /\ Reduced(sessions') /\ created' = created /\ profiles' = profiles
      /\ calls[c].pc # "idle"
  BY UnchangedReduced DEF Evaluate, GuardrailInv
<1>2. CASE \E reason \in {"STREAM_ROUTE_REQUIRED", "SDK_ERROR", "RAISED"} : Denied(c, reason)
  <2>1. PICK reason \in Refusals : Denied(c, reason)
    BY <1>2 DEF Refusals
  <2> QED  BY <1>1, <1>1, <2>1, DeniedStep
<1>3. CASE calls' = [calls EXCEPT ![c].pc = "record", ![c].outcome = outcome]
  <2>1. CallTyped(call, created) /\ call.pc = "evaluate"
    BY DEF Evaluate, GuardrailInv, CallsTyped
  <2>2. PICK new : new = [call EXCEPT !.pc = "record", !.outcome = outcome]
    OBVIOUS
  <2>3. call \in CallRecord
    BY <2>1 DEF CallTyped
  <2>4. Becomes(c, new)
    BY <1>3, <2>2, <2>3 DEF Becomes, GuardrailInv, CallsTyped, CallRecord
  <2>5. /\ new \in CallRecord
        /\ new.pc = "record" /\ new.verified = call.verified /\ new.id = call.id
        /\ new.op = call.op /\ new.org = call.org /\ new.stream = call.stream
        /\ new.sequence = call.sequence /\ new.now = call.now
        /\ new.outcome = outcome /\ new.answer = call.answer
    BY <2>2, <2>3 DEF CallRecord, Running
  <2> HIDE DEF call
  <2>6. CallTyped(new, created) /\ call.op = "evaluate"
    BY <2>1, <2>5 DEF CallTyped, Running
  <2>7. StreamNamed(sessions', new) /\ Unevaluated(call) /\ Unevaluated(new)
    BY <2>5, <2>6 DEF StreamNamed, Unevaluated
  <2> QED  BY <1>1, <2>4, <2>6, <2>7, QuietStep DEF call
<1> QED  BY <1>2, <1>3 DEF Evaluate

LEMMA RecordInv ==
    ASSUME GuardrailInv, NEW c \in Calls, Record(c)
    PROVE  GuardrailInv'
<1> DEFINE call == calls[c]
<1>1. /\ Reduced(sessions') /\ created' = created /\ profiles' = profiles
  BY UnchangedReduced DEF Record, GuardrailInv
<1>2. CallTyped(call, created) /\ call.pc = "record"
  BY DEF GuardrailInv, CallsTyped, Record
<1>3. PICK new : new = [call EXCEPT !.pc = "done", !.answer = "EVALUATED"]
  OBVIOUS
<1>4. call \in CallRecord
  BY <1>2 DEF CallTyped
<1>5. Becomes(c, new)
  BY <1>3, <1>4 DEF Record, Becomes, GuardrailInv, CallsTyped, CallRecord
<1>6. /\ new \in CallRecord
      /\ new.pc = "done" /\ new.verified = call.verified /\ new.id = call.id
      /\ new.op = call.op /\ new.org = call.org /\ new.stream = call.stream
      /\ new.sequence = call.sequence /\ new.now = call.now
      /\ new.outcome = call.outcome /\ new.answer = "EVALUATED"
  BY <1>3, <1>4 DEF CallRecord, Running
<1> HIDE DEF call
<1>7. CallTyped(new, created)
  BY <1>2, <1>6 DEF CallTyped, Running
<1>8. StreamNamed(sessions', new)
  BY <1>6 DEF StreamNamed
<1> QED  BY <1>1, <1>5, <1>6, <1>7, <1>8, QuietStep DEF call

LEMMA RecordFailsInv ==
    ASSUME GuardrailInv, NEW c \in Calls, RecordFails(c)
    PROVE  GuardrailInv'
<1>1. /\ Reduced(sessions') /\ created' = created /\ profiles' = profiles
  BY UnchangedReduced DEF RecordFails, GuardrailInv
<1>2. "AUDIT_COMMIT_FAILED" \in Refusals
  BY DEF Refusals
<1> QED  BY <1>1, <1>2, DeniedStep DEF RecordFails
-----------------------------------------------------------------------------
(***************************************************************************)
(* The history of one stream, for the two steps that change it.            *)
(***************************************************************************)
Ends(c) == calls[c].op = "finish" \/ calls[c].outcome \in Stopping

StreamHistory(i) ==
    /\ \A c, d \in EvaluatedOn(i) : calls[c].sequence = calls[d].sequence => c = d
    /\ i \in DOMAIN sessions =>
          {calls[c].sequence : c \in EvaluatedOn(i)} = 1..(sessions[i].next_sequence - 1)
    /\ i \in DOMAIN sessions /\ IsOpen(sessions[i]) => \A c \in EvaluatedOn(i) : ~Ends(c)
    /\ \A c, d \in EvaluatedOn(i) : Ends(c) => calls[d].sequence <= calls[c].sequence

StreamHistories == \A i \in 1..created : StreamHistory(i)

\* The history of all streams is that of each.
LEMMA HistoryOfEach ==
    SessionsTyped(sessions, created) =>
        (SequenceExact /\ OpenUnended /\ NothingAfterTheEnd <=> StreamHistories)
<1> SUFFICES ASSUME SessionsTyped(sessions, created)
             PROVE  SequenceExact /\ OpenUnended /\ NothingAfterTheEnd
                       <=> \A i \in 1..created : StreamHistory(i)
  BY DEF StreamHistories
<1>1. DOMAIN sessions \subseteq 1..created
  BY DEF SessionsTyped
<1>2. ASSUME SequenceExact, OpenUnended, NothingAfterTheEnd, NEW i \in 1..created
      PROVE  StreamHistory(i)
  <2>1. /\ \A c, d \in EvaluatedOn(i) : calls[c].sequence = calls[d].sequence => c = d
        /\ i \in DOMAIN sessions =>
              {calls[c].sequence : c \in EvaluatedOn(i)}
                  = 1..(sessions[i].next_sequence - 1)
    BY <1>2 DEF SequenceExact
  <2>2. i \in DOMAIN sessions /\ IsOpen(sessions[i]) => \A c \in EvaluatedOn(i) : ~Ends(c)
    BY <1>2 DEF OpenUnended, Ends
  <2>3. \A c, d \in EvaluatedOn(i) : Ends(c) => calls[d].sequence <= calls[c].sequence
    BY <1>2 DEF NothingAfterTheEnd, Ends
  <2> QED  BY <2>1, <2>2, <2>3 DEF StreamHistory
<1>3. ASSUME \A i \in 1..created : StreamHistory(i)
      PROVE  SequenceExact
  BY <1>3 DEF StreamHistory, SequenceExact
<1>4. ASSUME \A i \in 1..created : StreamHistory(i)
      PROVE  OpenUnended
  BY <1>1, <1>4 DEF StreamHistory, OpenUnended, Ends
<1>5. ASSUME \A i \in 1..created : StreamHistory(i)
      PROVE  NothingAfterTheEnd
  BY <1>5 DEF StreamHistory, NothingAfterTheEnd, Ends
<1> QED  BY <1>2, <1>3, <1>4, <1>5

\* A step that does not evaluate on stream i keeps its history.
LEMMA OtherStreamKept ==
    ASSUME NEW i, StreamHistory(i), EvaluatedOn(i)' = EvaluatedOn(i),
           \A c \in EvaluatedOn(i) : calls'[c] = calls[c],
           i \in DOMAIN sessions' =>
              /\ i \in DOMAIN sessions
              /\ sessions'[i].next_sequence = sessions[i].next_sequence
              /\ IsOpen(sessions'[i]) => IsOpen(sessions[i])
    PROVE  StreamHistory(i)'
<1>1. \A c, d \in EvaluatedOn(i)' : calls'[c].sequence = calls'[d].sequence => c = d
  BY DEF StreamHistory
<1>2. i \in DOMAIN sessions' =>
         {calls'[c].sequence : c \in EvaluatedOn(i)'} = 1..(sessions'[i].next_sequence - 1)
  <2>1. {calls'[c].sequence : c \in EvaluatedOn(i)'}
           = {calls[c].sequence : c \in EvaluatedOn(i)}
    OBVIOUS
  <2> QED  BY <2>1 DEF StreamHistory
<1>3. ASSUME i \in DOMAIN sessions', IsOpen(sessions'[i]), NEW c \in EvaluatedOn(i)'
      PROVE  ~Ends(c)'
  BY <1>3 DEF StreamHistory, Ends
<1>4. ASSUME NEW c \in EvaluatedOn(i)', NEW d \in EvaluatedOn(i)', Ends(c)'
      PROVE  calls'[d].sequence <= calls'[c].sequence
  BY <1>4 DEF StreamHistory, Ends
<1> QED  BY <1>1, <1>2, <1>3, <1>4 DEF StreamHistory

\* Evaluating an open stream's next chunk extends its history.
LEMMA StreamExtended ==
    ASSUME NEW i, StreamHistory(i), i \in DOMAIN sessions, IsOpen(sessions[i]),
           NEW n \in Nat \ {0}, sessions[i].next_sequence = n,
           NEW c, c \notin EvaluatedOn(i), EvaluatedOn(i)' = EvaluatedOn(i) \cup {c},
           calls'[c].sequence = n, \A d \in EvaluatedOn(i) : calls'[d] = calls[d],
           i \in DOMAIN sessions', sessions'[i].next_sequence = n + 1,
           IsOpen(sessions'[i]) => ~Ends(c)'
    PROVE  StreamHistory(i)'
<1> DEFINE old == EvaluatedOn(i)
<1>1. {calls[d].sequence : d \in old} = 1..(n - 1)
  BY DEF StreamHistory
<1>2. \A d \in old : calls[d].sequence \in 1..(n - 1)
  BY <1>1
<1>3. \A d \in old : ~Ends(d)
  BY DEF StreamHistory
<1>4. \A d, e \in old : calls[d].sequence = calls[e].sequence => d = e
  BY DEF StreamHistory
<1>5. {calls'[d].sequence : d \in EvaluatedOn(i)'}
         = {calls[d].sequence : d \in old} \cup {n}
  OBVIOUS
<1>6. (1..(n - 1)) \cup {n} = 1..n /\ n = (n + 1) - 1
  OBVIOUS
<1>7. {calls'[d].sequence : d \in EvaluatedOn(i)'} = 1..(sessions'[i].next_sequence - 1)
  BY <1>1, <1>5, <1>6
<1>8. ASSUME NEW d \in EvaluatedOn(i)', NEW e \in EvaluatedOn(i)',
             calls'[d].sequence = calls'[e].sequence
      PROVE  d = e
  <2>1. n \notin 1..(n - 1)
    OBVIOUS
  <2> QED  BY <1>2, <1>4, <1>8, <2>1
<1>9. ASSUME NEW d \in old
      PROVE  ~Ends(d)'
  BY <1>3 DEF Ends
<1>10. ASSUME NEW d \in EvaluatedOn(i)', NEW e \in EvaluatedOn(i)', Ends(d)'
       PROVE  calls'[e].sequence <= calls'[d].sequence
  <2>1. d = c
    BY <1>9, <1>10
  <2>2. calls'[e].sequence \in 1..n
    BY <1>2, <1>6, <1>10
  <2> QED  BY <2>1, <2>2
<1>11. IsOpen(sessions'[i]) => \A d \in EvaluatedOn(i)' : ~Ends(d)'
  BY <1>9
<1> QED  BY <1>7, <1>8, <1>10, <1>11 DEF StreamHistory

\* The session a create opens.
LEMMA NewSessionTyped ==
    ASSUME NEW call, NEW n, CallTyped(call, n), call.pc = "create"
    PROVE  LET s == NewSession(call) IN
           /\ s \in Session /\ IsOpen(s) /\ s.closed = None
           /\ s.org = call.org /\ s.next_sequence = 1
<1>1. /\ call.org \in Orgs /\ call.id \in ProfileIds /\ call.now \in Times
      /\ call.verified \in Profiles
  BY DEF CallTyped, Running
<1>2. call.verified.digest \in Digests
  BY <1>1, ProfilesAssumption DEF Profile
<1> QED  BY <1>1, <1>2 DEF NewSession, Session, IsOpen

\* A create that is not refused: a session more, under a limit it was found below.
LEMMA CreatedInv ==
    ASSUME GuardrailInv, NEW c \in Calls, calls[c].pc = "create",
           NEW ss, Reduced(ss), ~AtCapacity(ss, calls[c].org),
           created' = created + 1, profiles' = profiles,
           sessions' = [i \in DOMAIN ss \cup {created + 1} |->
                           IF i = created + 1 THEN NewSession(calls[c]) ELSE ss[i]],
           calls' = [calls EXCEPT ![c].pc = "done", ![c].stream = created + 1,
                                  ![c].answer = "CREATED"]
    PROVE  GuardrailInv'
<1> DEFINE call == calls[c]
           fresh == NewSession(call)
<1>1. created \in Nat /\ SessionsTyped(sessions, created) /\ SessionsTyped(ss, created)
  BY ReducedTyped DEF GuardrailInv
<1>2. CallTyped(call, created)
  BY DEF GuardrailInv, CallsTyped
<1>3. /\ fresh \in Session /\ IsOpen(fresh) /\ fresh.closed = None
      /\ fresh.org = call.org /\ fresh.next_sequence = 1
  BY <1>2, NewSessionTyped
<1>4. DOMAIN ss \subseteq 1..created /\ created + 1 \notin DOMAIN ss
  BY <1>1 DEF SessionsTyped
<1>5. /\ DOMAIN sessions' = DOMAIN ss \cup {created + 1}
      /\ sessions'[created + 1] = fresh
      /\ \A i \in DOMAIN ss : sessions'[i] = ss[i]
      /\ sessions' = [i \in DOMAIN sessions' |-> sessions'[i]]
  BY <1>4
<1>6. call \in CallRecord
  BY <1>2 DEF CallTyped
<1>7. PICK new : new = [call EXCEPT !.pc = "done", !.stream = created + 1,
                                    !.answer = "CREATED"]
  OBVIOUS
<1>8. Becomes(c, new)
  BY <1>6, <1>7 DEF Becomes, GuardrailInv, CallsTyped, CallRecord
<1>9. /\ new \in CallRecord
      /\ new.pc = "done" /\ new.verified = call.verified /\ new.id = call.id
      /\ new.op = call.op /\ new.org = call.org /\ new.stream = created + 1
      /\ new.sequence = call.sequence /\ new.now = call.now
      /\ new.outcome = call.outcome /\ new.answer = "CREATED"
  <2>1. PICK next \in Nat : next = created + 1
    BY <1>1
  <2>2. new = [call EXCEPT !.pc = "done", !.stream = next, !.answer = "CREATED"]
    BY <1>7, <2>1
  <2> HIDE DEF call, fresh
  <2> QED  BY <1>6, <2>1, <2>2 DEF CallRecord
<1> HIDE DEF call, fresh
<1>10. call.pc = "create" /\ call.op = "create" /\ call.outcome = None
  BY <1>2 DEF CallTyped, call
<1>11. CallTyped(new, created')
  BY <1>2, <1>9, <1>10 DEF CallTyped, Running
<1>12. CallsTyped'
  BY <1>1, <1>8, <1>11, BecomesTyped DEF GuardrailInv
<1>13. SessionsTyped(sessions', created')
  <2>1. DOMAIN sessions' \subseteq 1..created'
    BY <1>1, <1>4, <1>5
  <2>2. ASSUME NEW i \in DOMAIN sessions'
        PROVE  /\ sessions'[i] \in Session
               /\ IsOpen(sessions'[i]) = (sessions'[i].closed = None)
               /\ ~IsOpen(sessions'[i]) => sessions'[i].buffered = 0
    <3>1. CASE i = created + 1
      BY <1>3, <1>5, <3>1
    <3>2. CASE i # created + 1
      BY <1>1, <1>5, <2>2, <3>2 DEF SessionsTyped
    <3> QED  BY <3>1, <3>2
  <2> QED  BY <1>5, <2>1, <2>2 DEF SessionsTyped
<1>14. StreamsNamed'
  <2> SUFFICES ASSUME NEW d \in Calls
               PROVE  StreamNamed(sessions', calls'[d])
    BY DEF StreamsNamed
  <2>1. CASE d = c
    BY <1>8, <1>9, <2>1 DEF Becomes, StreamNamed
  <2>2. CASE d # c
    <3>1. /\ calls'[d] = calls[d] /\ StreamNamed(sessions, calls[d])
          /\ CallTyped(calls[d], created)
      BY <1>8, <2>2 DEF Becomes, GuardrailInv, StreamsNamed, CallsTyped
    <3>2. ASSUME calls[d].pc \in {"active", "push", "finish"},
                 calls[d].op \in {"push", "finish"}, calls[d].stream \in DOMAIN sessions'
          PROVE  /\ calls[d].stream \in DOMAIN sessions
                 /\ sessions'[calls[d].stream].org = sessions[calls[d].stream].org
                 /\ sessions'[calls[d].stream].profile = sessions[calls[d].stream].profile
      <4>1. calls[d].stream \in 1..created
        BY <3>1, <3>2 DEF CallTyped
      <4>2. calls[d].stream \in DOMAIN ss /\ sessions'[calls[d].stream] = ss[calls[d].stream]
        BY <1>1, <1>5, <3>2, <4>1
      <4> QED  BY <1>1, <4>2, ReducedSession
    <3> QED  BY <3>1, <3>2 DEF StreamNamed
  <2> QED  BY <2>1, <2>2
<1>15. OpenCapacity'
  <2> SUFFICES ASSUME NEW o \in Orgs
               PROVE  OpenCount(sessions', o) <= MaxOpen
    BY DEF OpenCapacity, OpenCount
  <2>1. /\ OpenCount(ss, o) <= OpenCount(sessions, o)
        /\ OpenCount(ss, o) \in Nat /\ OpenCount(sessions, o) \in Nat
        /\ IsFiniteSet(OpenIds(ss, o))
        /\ OpenCount(sessions, o) <= MaxOpen
    BY <1>1, ReducedCount, OpenIdsFinite DEF GuardrailInv, OpenCapacity
  <2>2. OpenCount(ss, o) = Cardinality(OpenIds(ss, o))
        /\ OpenCount(sessions', o) = Cardinality(OpenIds(sessions', o))
    BY DEF OpenCount, OpenIds
  <2>3. CASE o = call.org
    <3>1. OpenIds(sessions', o) = OpenIds(ss, o) \cup {created + 1}
      BY <1>3, <1>4, <1>5, <2>3 DEF OpenIds
    <3>2. created + 1 \notin OpenIds(ss, o)
      BY <1>4 DEF OpenIds
    <3>3. Cardinality(OpenIds(ss, o) \cup {created + 1}) = Cardinality(OpenIds(ss, o)) + 1
      BY <2>1, <3>2, FS_AddElement
    <3>4. OpenCount(ss, o) < MaxOpen
      BY <2>1, <2>3, MaxOpenAssumption DEF AtCapacity, call
    <3>5. OpenCount(sessions', o) = OpenCount(ss, o) + 1
      BY <2>2, <3>1, <3>3
    <3> QED  BY <2>1, <3>4, <3>5, MaxOpenAssumption
  <2>4. CASE o # call.org
    <3>1. OpenIds(sessions', o) = OpenIds(ss, o)
      BY <1>3, <1>4, <1>5, <2>4 DEF OpenIds
    <3> QED  BY <2>1, <2>2, <3>1, MaxOpenAssumption
  <2> QED  BY <2>3, <2>4
<1>16. ASSUME NEW i
       PROVE  EvaluatedOn(i)' = EvaluatedOn(i) /\ \A d \in EvaluatedOn(i) : calls'[d] = calls[d]
  BY <1>8, <1>9, <1>10 DEF EvaluatedOn, Becomes, call
<1>17. \A i \in 1..created : StreamHistory(i)
  BY <1>1, HistoryOfEach DEF GuardrailInv, StreamHistories
<1>18. ASSUME NEW i \in 1..created'
       PROVE  StreamHistory(i)'
  <2>1. CASE i = created + 1
    <3>1. EvaluatedOn(i) = {}
      <4> SUFFICES ASSUME NEW d \in Calls, calls[d].op \in {"push", "finish"},
                          calls[d].stream = i, calls[d].outcome # None
                   PROVE  FALSE
        BY DEF EvaluatedOn
      <4>1. calls[d].stream \in 1..created
        BY DEF GuardrailInv, CallsTyped, CallTyped
      <4> QED  BY <1>1, <2>1, <4>1
    <3>2. EvaluatedOn(i)' = {}
      BY <1>16, <3>1
    <3>3. {calls'[d].sequence : d \in EvaluatedOn(i)'} = 1..(sessions'[i].next_sequence - 1)
      BY <1>3, <1>5, <2>1, <3>2
    <3> QED  BY <3>2, <3>3 DEF StreamHistory
  <2>2. CASE i # created + 1
    <3>1. i \in 1..created
      BY <1>1, <2>2
    <3>2. i \in DOMAIN sessions' =>
             /\ i \in DOMAIN sessions
             /\ sessions'[i].next_sequence = sessions[i].next_sequence
             /\ IsOpen(sessions'[i]) => IsOpen(sessions[i])
      BY <1>1, <1>5, <2>2, ReducedSession
    <3> QED  BY <1>16, <1>17, <3>1, <3>2, OtherStreamKept
  <2> QED  BY <2>1, <2>2
<1>19. (SequenceExact /\ OpenUnended /\ NothingAfterTheEnd)'
  <2>1. SessionsTyped(sessions, created)' =>
           (SequenceExact /\ OpenUnended /\ NothingAfterTheEnd <=> StreamHistories)'
    BY HistoryOfEach, PTL
  <2> QED  BY <1>13, <1>18, <2>1 DEF StreamHistories
<1>20. ProfilesTyped'
  BY DEF GuardrailInv, ProfilesTyped
<1> QED  BY <1>1, <1>12, <1>13, <1>14, <1>15, <1>19, <1>20 DEF GuardrailInv

LEMMA CreateInv ==
    ASSUME GuardrailInv, NEW c \in Calls, Create(c)
    PROVE  GuardrailInv'
<1>1. /\ calls[c].pc = "create" /\ profiles' = profiles
      /\ SessionsTyped(sessions, created)
      /\ CallTyped(calls[c], created)
  BY DEF Create, GuardrailInv, CallsTyped
<1>2. CASE /\ Denied(c, "STREAM_PROFILE_REQUIRED")
           /\ UNCHANGED <<sessions, created>>
  <2>1. Reduced(sessions') /\ "STREAM_PROFILE_REQUIRED" \in Refusals
    BY <1>1, <1>2, UnchangedReduced DEF Refusals
  <2> QED  BY <1>1, <1>2, <2>1, DeniedStep
<1>3. CASE \E sweep \in ExpiryOutcomes(Idle(calls[c].now)) :
              LET ss == AfterSweep(sweep, calls[c].now) IN
              IF sweep.failed \/ AtCapacity(ss, calls[c].org)
              THEN /\ sessions' = ss
                   /\ Denied(c, IF sweep.failed THEN "STREAM_CLEAR_FAILED"
                                ELSE "STREAM_CAPACITY_EXCEEDED")
                   /\ UNCHANGED created
              ELSE /\ created' = created + 1
                   /\ sessions' = [i \in DOMAIN ss \cup {created + 1} |->
                                      IF i = created + 1 THEN NewSession(calls[c]) ELSE ss[i]]
                   /\ calls' = [calls EXCEPT ![c].pc = "done", ![c].stream = created + 1,
                                             ![c].answer = "CREATED"]
  <2>1. PICK sweep \in ExpiryOutcomes(Idle(calls[c].now)) :
              LET ss == AfterSweep(sweep, calls[c].now) IN
              IF sweep.failed \/ AtCapacity(ss, calls[c].org)
              THEN /\ sessions' = ss
                   /\ Denied(c, IF sweep.failed THEN "STREAM_CLEAR_FAILED"
                                ELSE "STREAM_CAPACITY_EXCEEDED")
                   /\ UNCHANGED created
              ELSE /\ created' = created + 1
                   /\ sessions' = [i \in DOMAIN ss \cup {created + 1} |->
                                      IF i = created + 1 THEN NewSession(calls[c]) ELSE ss[i]]
                   /\ calls' = [calls EXCEPT ![c].pc = "done", ![c].stream = created + 1,
                                             ![c].answer = "CREATED"]
    BY <1>3
  <2> DEFINE ss == AfterSweep(sweep, calls[c].now)
  <2>2. calls[c].now \in Times
    BY <1>1 DEF CallTyped, Running
  <2>3. Reduced(ss)
    BY <1>1, <2>2, SweepReduces
  <2>4. CASE sweep.failed \/ AtCapacity(ss, calls[c].org)
    <3>1. PICK reason \in Refusals : Denied(c, reason)
      BY <2>1, <2>4 DEF Refusals
    <3>2. sessions' = ss /\ created' = created
      BY <2>1, <2>4
    <3> HIDE DEF ss
    <3> QED  BY <1>1, <2>3, <3>1, <3>2, DeniedStep
  <2>5. CASE ~(sweep.failed \/ AtCapacity(ss, calls[c].org))
    <3>1. /\ created' = created + 1
          /\ sessions' = [i \in DOMAIN ss \cup {created + 1} |->
                             IF i = created + 1 THEN NewSession(calls[c]) ELSE ss[i]]
          /\ calls' = [calls EXCEPT ![c].pc = "done", ![c].stream = created + 1,
                                    ![c].answer = "CREATED"]
      BY <2>1, <2>5
    <3> HIDE DEF ss
    <3> QED  BY <1>1, <2>3, <2>5, <3>1, CreatedInv
  <2> QED  BY <2>4, <2>5
<1> QED  BY <1>2, <1>3 DEF Create

\* The session after a chunk, before its outcome is known.
LEMMA SeenSession ==
    ASSUME NEW s \in Session, NEW now \in Times
    PROVE  /\ Seen(s, now) \in Session /\ Seen(s, now).state = s.state
           /\ Seen(s, now).closed = s.closed
           /\ Seen(s, now).org = s.org /\ Seen(s, now).profile = s.profile
           /\ Seen(s, now).next_sequence = s.next_sequence + 1
           /\ Seen(s, now).last_seen = now
<1>1. s.next_sequence \in Nat \ {0}
  BY DEF Session
<1>2. PICK next \in Nat \ {0} : next = s.next_sequence + 1
  BY <1>1
<1>3. Seen(s, now) = [s EXCEPT !.next_sequence = next, !.last_seen = now]
  BY <1>2 DEF Seen
<1> QED  BY <1>2, <1>3 DEF Session

\* What evaluating a chunk, or a finish, makes of an open session.
LEMMA EvaluatedSession ==
    ASSUME NEW s \in Session, IsOpen(s), s.closed = None, NEW now \in Times,
           NEW outcome, NEW t, t = Pushed(s, outcome, now) \/ t = Finished(s, now)
    PROVE  /\ t \in Session
           /\ t.org = s.org /\ t.profile = s.profile
           /\ t.next_sequence = s.next_sequence + 1 /\ t.last_seen = now
           /\ IsOpen(t) = (t.closed = None)
           /\ ~IsOpen(t) => t.buffered = 0
           /\ IsOpen(t) => t = Pushed(s, outcome, now) /\ outcome \notin Stopping
<1> DEFINE u == Seen(s, now)
<1>1. /\ u \in Session /\ IsOpen(u) /\ u.closed = None
      /\ u.org = s.org /\ u.profile = s.profile
      /\ u.next_sequence = s.next_sequence + 1 /\ u.last_seen = now
  BY SeenSession DEF IsOpen
<1> HIDE DEF u
<1>2. CASE \E state \in {"TERMINATED", "FINISHED"} :
              /\ t = Closed(u, state, now)
              /\ state = "TERMINATED" => outcome \in Stopping
  <2>1. PICK state \in {"TERMINATED", "FINISHED"} : t = Closed(u, state, now)
    BY <1>2
  <2>2. /\ t \in Session /\ ~IsOpen(t) /\ t.closed = now /\ t.buffered = 0
        /\ t.org = u.org /\ t.profile = u.profile
        /\ t.next_sequence = u.next_sequence /\ t.last_seen = u.last_seen
    BY <1>1, <2>1, ClosedSession
  <2>3. IsOpen(t) = (t.closed = None)
    BY <2>2, NoneAssumption DEF IsOpen
  <2> QED  BY <1>1, <2>2, <2>3
<1>3. CASE t = Pushed(s, outcome, now) /\ outcome \notin Stopping
  <2>1. t = [u EXCEPT !.buffered = @ + 1]
    BY <1>3 DEF Pushed, u
  <2>2. /\ t \in Session /\ IsOpen(t) /\ t.closed = None
        /\ t.org = u.org /\ t.profile = u.profile
        /\ t.next_sequence = u.next_sequence /\ t.last_seen = u.last_seen
    BY <1>1, <2>1 DEF Session, IsOpen
  <2> QED  BY <1>1, <1>3, <2>2
<1> QED  BY <1>2, <1>3 DEF Pushed, Finished, u

\* What a handler knows that passed _lookup, _require_open and the sequence check:
\* the stream is open, as it was before the sweep, and expects this very chunk.
LEMMA StreamFound ==
    ASSUME SessionsTyped(sessions, created), NEW ss, Reduced(ss), NEW call,
           StreamRefusal(ss, call) = "NONE"
    PROVE  /\ call.stream \in DOMAIN ss /\ call.stream \in DOMAIN sessions
           /\ ss[call.stream] = sessions[call.stream]
           /\ sessions[call.stream] \in Session
           /\ IsOpen(sessions[call.stream]) /\ sessions[call.stream].closed = None
           /\ sessions[call.stream].org = call.org
           /\ sessions[call.stream].digest = call.verified.digest
           /\ sessions[call.stream].next_sequence = call.sequence
<1> DEFINE i == call.stream
<1>1. /\ i \in DOMAIN ss /\ ss[i].org = call.org /\ ss[i].state = "OPEN"
      /\ ss[i].digest = call.verified.digest /\ ss[i].next_sequence = call.sequence
  BY DEF StreamRefusal, LookupRefusal
<1>2. IsOpen(ss[i])
  BY <1>1 DEF IsOpen
<1> HIDE DEF i
<1>3. ss[i] = sessions[i] /\ i \in DOMAIN sessions
  BY <1>1, <1>2, ReducedSession
<1>4. sessions[i] \in Session /\ sessions[i].closed = None
  BY <1>2, <1>3 DEF SessionsTyped
<1>5. /\ i \in DOMAIN ss /\ i \in DOMAIN sessions
      /\ ss[i] = sessions[i]
      /\ sessions[i] \in Session
      /\ IsOpen(sessions[i]) /\ sessions[i].closed = None
      /\ sessions[i].org = call.org
      /\ sessions[i].digest = call.verified.digest
      /\ sessions[i].next_sequence = call.sequence
  BY <1>1, <1>2, <1>3, <1>4
<1> QED  BY <1>5 DEF i

\* A push or finish that is evaluated.
LEMMA EvaluatedInv ==
    ASSUME GuardrailInv, NEW c \in Calls, NEW outcome \in Outcomes,
           calls[c].pc \in {"push", "finish"}, NEW ss, Reduced(ss),
           StreamRefusal(ss, calls[c]) = "NONE",
           sessions' = [ss EXCEPT ![calls[c].stream] =
                           IF calls[c].op = "push" THEN Pushed(@, outcome, calls[c].now)
                           ELSE Finished(@, calls[c].now)],
           calls' = [calls EXCEPT ![c].pc = "record", ![c].outcome = outcome],
           created' = created, profiles' = profiles
    PROVE  GuardrailInv'
<1> DEFINE call == calls[c]
<1>1. created \in Nat /\ SessionsTyped(sessions, created) /\ SessionsTyped(ss, created)
  BY ReducedTyped DEF GuardrailInv
<1>2. CallTyped(call, created)
  BY DEF GuardrailInv, CallsTyped
<1>3. PICK i : i = call.stream
  OBVIOUS
<1>4. PICK t : t = IF call.op = "push" THEN Pushed(ss[i], outcome, call.now)
                   ELSE Finished(ss[i], call.now)
  OBVIOUS
<1>5. sessions' = [ss EXCEPT ![i] = t]
  BY <1>3, <1>4
<1>6. call \in CallRecord
  BY <1>2 DEF CallTyped
<1>7. PICK new : new = [call EXCEPT !.pc = "record", !.outcome = outcome]
  OBVIOUS
<1>8. Becomes(c, new)
  BY <1>6, <1>7 DEF Becomes, GuardrailInv, CallsTyped, CallRecord
<1>9. /\ new \in CallRecord
      /\ new.pc = "record" /\ new.verified = call.verified /\ new.id = call.id
      /\ new.op = call.op /\ new.org = call.org /\ new.stream = i
      /\ new.sequence = call.sequence /\ new.now = call.now
      /\ new.outcome = outcome /\ new.answer = call.answer
  BY <1>3, <1>6, <1>7 DEF CallRecord, Running
<1>10. call.pc \in {"push", "finish"}
  OBVIOUS
<1>11. /\ i \in DOMAIN ss /\ i \in DOMAIN sessions /\ ss[i] = sessions[i]
       /\ sessions[i] \in Session /\ IsOpen(sessions[i]) /\ sessions[i].closed = None
       /\ sessions[i].org = call.org /\ sessions[i].next_sequence = call.sequence
  BY <1>1, <1>3, StreamFound
<1> HIDE DEF call
<1>12. /\ call.op = call.pc /\ call.outcome = None /\ call.now \in Times
       /\ call.sequence \in Nat \ {0} /\ call.stream \in 1..created
  BY <1>2, <1>10 DEF CallTyped, Running
<1>13. /\ t \in Session
       /\ t.org = ss[i].org /\ t.profile = ss[i].profile
       /\ t.next_sequence = call.sequence + 1 /\ t.last_seen = call.now
       /\ IsOpen(t) = (t.closed = None)
       /\ ~IsOpen(t) => t.buffered = 0
       /\ IsOpen(t) => t = Pushed(ss[i], outcome, call.now) /\ outcome \notin Stopping
  BY <1>4, <1>11, <1>12, EvaluatedSession
<1>14. CallTyped(new, created')
  BY <1>2, <1>3, <1>9, <1>10, <1>12 DEF CallTyped, Running
<1>15. CallsTyped'
  BY <1>1, <1>8, <1>14, BecomesTyped DEF GuardrailInv
<1>16. /\ DOMAIN sessions' = DOMAIN ss /\ sessions'[i] = t
       /\ \A j \in DOMAIN ss : j # i => sessions'[j] = ss[j]
       /\ sessions' = [j \in DOMAIN sessions' |-> sessions'[j]]
  BY <1>5, <1>11
<1>17. SessionsTyped(sessions', created')
  <2>1. DOMAIN sessions' \subseteq 1..created'
    BY <1>1, <1>16 DEF SessionsTyped
  <2>2. ASSUME NEW j \in DOMAIN sessions'
        PROVE  /\ sessions'[j] \in Session
               /\ IsOpen(sessions'[j]) = (sessions'[j].closed = None)
               /\ ~IsOpen(sessions'[j]) => sessions'[j].buffered = 0
    <3>1. CASE j = i
      BY <1>13, <1>16, <3>1
    <3>2. CASE j # i
      BY <1>1, <1>16, <2>2, <3>2 DEF SessionsTyped
    <3> QED  BY <3>1, <3>2
  <2> QED  BY <1>16, <2>1, <2>2 DEF SessionsTyped
<1>18. ASSUME NEW j \in DOMAIN sessions'
       PROVE  /\ j \in DOMAIN sessions
              /\ sessions'[j].org = sessions[j].org
              /\ sessions'[j].profile = sessions[j].profile
              /\ IsOpen(sessions'[j]) => IsOpen(sessions[j])
              /\ j # i => sessions'[j].next_sequence = sessions[j].next_sequence
  <2>1. CASE j = i
    BY <1>11, <1>13, <1>16, <2>1
  <2>2. CASE j # i
    BY <1>1, <1>16, <1>18, <2>2, ReducedSession
  <2> QED  BY <2>1, <2>2
<1>19. StreamsNamed'
  <2> SUFFICES ASSUME NEW d \in Calls
               PROVE  StreamNamed(sessions', calls'[d])
    BY DEF StreamsNamed
  <2>1. CASE d = c
    BY <1>8, <1>9, <2>1 DEF Becomes, StreamNamed
  <2>2. CASE d # c
    <3>1. calls'[d] = calls[d] /\ StreamNamed(sessions, calls[d])
      BY <1>8, <2>2 DEF Becomes, GuardrailInv, StreamsNamed
    <3> QED  BY <1>18, <3>1 DEF StreamNamed
  <2> QED  BY <2>1, <2>2
<1>20. OpenCapacity'
  <2> SUFFICES ASSUME NEW o \in Orgs
               PROVE  OpenCount(sessions', o) <= MaxOpen
    BY DEF OpenCapacity, OpenCount
  <2>1. /\ OpenCount(sessions, o) \in Nat /\ OpenCount(sessions', o) \in Nat
        /\ IsFiniteSet(OpenIds(sessions, o)) /\ OpenCount(sessions, o) <= MaxOpen
    BY <1>1, <1>17, OpenIdsFinite DEF GuardrailInv, OpenCapacity
  <2>2. OpenIds(sessions', o) \subseteq OpenIds(sessions, o)
    BY <1>18 DEF OpenIds
  <2>3. Cardinality(OpenIds(sessions', o)) <= Cardinality(OpenIds(sessions, o))
    BY <2>1, <2>2, FS_Subset
  <2>4. OpenCount(sessions', o) <= OpenCount(sessions, o)
    BY <2>3 DEF OpenCount, OpenIds
  <2> QED  BY <2>1, <2>4, MaxOpenAssumption
<1>21. \A j \in 1..created : StreamHistory(j)
  BY <1>1, HistoryOfEach DEF GuardrailInv, StreamHistories
<1>22. \A d \in Calls : d # c => calls'[d] = calls[d]
  BY <1>8 DEF Becomes
<1>23. calls'[c] = new /\ call = calls[c]
  BY <1>8 DEF Becomes, call
<1>24. c \notin EvaluatedOn(i)
  BY <1>12, <1>23 DEF EvaluatedOn
<1>25. outcome # None
  BY NoneAssumption
<1>26. ASSUME NEW j \in 1..created'
       PROVE  StreamHistory(j)'
  <2>1. CASE j = i
    <3>1. EvaluatedOn(i)' = EvaluatedOn(i) \cup {c}
      BY <1>3, <1>9, <1>10, <1>12, <1>22, <1>23, <1>25 DEF EvaluatedOn
    <3>2. \A d \in EvaluatedOn(i) : calls'[d] = calls[d]
      BY <1>22, <1>24 DEF EvaluatedOn
    <3>3. IsOpen(sessions'[i]) => ~Ends(c)'
      <4> SUFFICES ASSUME IsOpen(t)
                   PROVE  ~Ends(c)'
        BY <1>16
      <4>1. outcome \notin Stopping /\ t = Pushed(ss[i], outcome, call.now)
        BY <1>13
      <4>2. call.op # "finish"
        <5> SUFFICES ASSUME call.op = "finish"
                     PROVE  FALSE
          OBVIOUS
        <5>1. t = Closed(Seen(ss[i], call.now), "FINISHED", call.now)
          BY <1>4 DEF Finished
        <5>2. Seen(ss[i], call.now) \in Session
          BY <1>11, <1>12, SeenSession
        <5>3. ~IsOpen(t)
          BY <1>12, <5>1, <5>2, ClosedSession
        <5> QED  BY <5>3
      <4> QED  BY <1>9, <1>23, <4>1, <4>2 DEF Ends
    <3>4. /\ StreamHistory(i) /\ calls'[c].sequence = call.sequence
          /\ i \in DOMAIN sessions' /\ sessions'[i].next_sequence = call.sequence + 1
      BY <1>3, <1>9, <1>11, <1>12, <1>13, <1>16, <1>21, <1>23
    <3> QED  BY <1>11, <1>12, <1>24, <2>1, <3>1, <3>2, <3>3, <3>4, StreamExtended
  <2>2. CASE j # i
    <3>1. /\ EvaluatedOn(j)' = EvaluatedOn(j)
          /\ \A d \in EvaluatedOn(j) : calls'[d] = calls[d]
      BY <1>3, <1>9, <1>12, <1>22, <1>23, <2>2 DEF EvaluatedOn
    <3>2. j \in DOMAIN sessions' =>
             /\ j \in DOMAIN sessions
             /\ sessions'[j].next_sequence = sessions[j].next_sequence
             /\ IsOpen(sessions'[j]) => IsOpen(sessions[j])
      BY <1>18, <2>2
    <3> QED  BY <1>21, <3>1, <3>2, OtherStreamKept
  <2> QED  BY <2>1, <2>2
<1>27. (SequenceExact /\ OpenUnended /\ NothingAfterTheEnd)'
  <2>1. SessionsTyped(sessions, created)' =>
           (SequenceExact /\ OpenUnended /\ NothingAfterTheEnd <=> StreamHistories)'
    BY HistoryOfEach, PTL
  <2> QED  BY <1>17, <1>26, <2>1 DEF StreamHistories
<1>28. ProfilesTyped'
  BY DEF GuardrailInv, ProfilesTyped
<1> QED  BY <1>1, <1>15, <1>17, <1>19, <1>20, <1>27, <1>28 DEF GuardrailInv

LEMMA StreamStepInv ==
    ASSUME GuardrailInv, NEW c \in Calls, NEW outcome \in Outcomes, StreamStep(c, outcome)
    PROVE  GuardrailInv'
<1> DEFINE call == calls[c]
<1>1. /\ call.pc \in {"push", "finish"} /\ created' = created /\ profiles' = profiles
      /\ SessionsTyped(sessions, created) /\ CallTyped(call, created)
  BY DEF StreamStep, GuardrailInv, CallsTyped
<1>2. PICK sweep \in ExpiryOutcomes(Idle(call.now)) :
          LET ss == AfterSweep(sweep, call.now)
              refusal == IF sweep.failed THEN "STREAM_CLEAR_FAILED"
                         ELSE StreamRefusal(ss, call)
          IN  \/ /\ sessions' = ss
                 /\ Denied(c, IF refusal = "NONE" THEN "RAISED" ELSE refusal)
              \/ /\ refusal = "NONE"
                 /\ sessions' = [ss EXCEPT ![call.stream] =
                       IF call.op = "push" THEN Pushed(@, outcome, call.now)
                       ELSE Finished(@, call.now)]
                 /\ calls' = [calls EXCEPT ![c].pc = "record", ![c].outcome = outcome]
  BY DEF StreamStep
<1> DEFINE ss == AfterSweep(sweep, call.now)
           refusal == IF sweep.failed THEN "STREAM_CLEAR_FAILED"
                      ELSE StreamRefusal(ss, call)
<1>3. call.now \in Times
  BY <1>1 DEF CallTyped, Running
<1>4. Reduced(ss)
  BY <1>1, <1>3, SweepReduces
<1>5. CASE /\ sessions' = ss
           /\ Denied(c, IF refusal = "NONE" THEN "RAISED" ELSE refusal)
  <2>1. (IF refusal = "NONE" THEN "RAISED" ELSE refusal) \in Refusals
    <3> HIDE DEF ss, call
    <3> QED  BY DEF StreamRefusal, LookupRefusal, Refusals
  <2>2. PICK reason \in Refusals : Denied(c, reason)
    BY <1>5, <2>1
  <2>3. Reduced(sessions')
    BY <1>4, <1>5
  <2> QED  BY <1>1, <2>2, <2>3, DeniedStep
<1>6. CASE /\ refusal = "NONE"
           /\ sessions' = [ss EXCEPT ![call.stream] =
                 IF call.op = "push" THEN Pushed(@, outcome, call.now)
                 ELSE Finished(@, call.now)]
           /\ calls' = [calls EXCEPT ![c].pc = "record", ![c].outcome = outcome]
  <2>1. StreamRefusal(ss, call) = "NONE"
    BY <1>6
  <2> HIDE DEF ss
  <2> QED  BY <1>1, <1>4, <1>6, <2>1, EvaluatedInv
<1> QED  BY <1>2, <1>5, <1>6

LEMMA InitInv == Init => GuardrailInv
<1> SUFFICES ASSUME Init
             PROVE  GuardrailInv
  OBVIOUS
<1>1. created \in Nat /\ created = 0 /\ DOMAIN sessions = {}
  BY DEF Init
<1>2. ProfilesTyped
  BY DEF Init, ProfilesTyped, Pointers
<1>3. SessionsTyped(sessions, created)
  BY <1>1 DEF Init, SessionsTyped
<1>4. CallsTyped
  <2>1. NewCall \in CallRecord
    BY DEF NewCall, CallRecord, Running, Pointers
  <2>2. CallTyped(NewCall, created)
    BY <2>1, NoneAssumption DEF CallTyped, NewCall, Running
  <2> QED  BY <2>2 DEF Init, CallsTyped
<1>5. StreamsNamed
  BY <1>1 DEF StreamsNamed, StreamNamed
<1>6. OpenCapacity
  <2>1. \A o \in Orgs : {i \in DOMAIN sessions : sessions[i].org = o /\ IsOpen(sessions[i])} = {}
    BY <1>1
  <2>2. PICK none : none = {}
    OBVIOUS
  <2>3. Cardinality(none) = 0
    BY <2>2, FS_EmptySet
  <2> QED  BY <2>1, <2>2, <2>3, MaxOpenAssumption DEF OpenCapacity, OpenCount
<1>7. SequenceExact /\ OpenUnended /\ NothingAfterTheEnd
  BY <1>1 DEF SequenceExact, OpenUnended, NothingAfterTheEnd
<1> QED  BY <1>1, <1>2, <1>3, <1>4, <1>5, <1>6, <1>7 DEF GuardrailInv

LEMMA StepInv == GuardrailInv /\ [Next]_vars => GuardrailInv'
<1> SUFFICES ASSUME GuardrailInv, [Next]_vars
             PROVE  GuardrailInv'
  OBVIOUS
<1>1. ASSUME NEW p \in Profiles, NEW now \in Times, Activate(p, now)
      PROVE  GuardrailInv'
  BY <1>1, ActivateInv
<1>2. ASSUME NEW key \in Keys, NEW digest \in Digests, Revoke(key, digest)
      PROVE  GuardrailInv'
  BY <1>2, RevokeInv
<1>3. ASSUME NEW key \in Keys, NEW now \in Times, Rollback(key, now)
      PROVE  GuardrailInv'
  BY <1>3, RollbackInv
<1>4. ASSUME NEW c \in Calls, Begin(c)
      PROVE  GuardrailInv'
  BY <1>4, BeginProfileInv, BeginStreamInv DEF Begin
<1>5. ASSUME NEW c \in Calls, Step(c)
      PROVE  GuardrailInv'
  BY <1>5, ProfileForInv, ReadActiveInv, CreateInv, EvaluateInv, StreamStepInv,
     RecordInv, RecordFailsInv DEF Step
<1>6. CASE UNCHANGED vars
  BY <1>6 DEF vars, GuardrailInv, ProfilesTyped, CallsTyped, StreamsNamed, OpenCapacity,
     OpenCount, SequenceExact, OpenUnended, NothingAfterTheEnd, EvaluatedOn
<1> QED  BY <1>1, <1>2, <1>3, <1>4, <1>5, <1>6 DEF Next
-----------------------------------------------------------------------------
(***************************************************************************)
(* What one step of a handler does to the streams and to the calls.        *)
(***************************************************************************)

\* Stream i goes through the step without being evaluated.
NotEvaluated(i) ==
    /\ i \in DOMAIN sessions
    /\ IsOpen(sessions'[i]) => IsOpen(sessions[i])
    /\ sessions'[i].next_sequence = sessions[i].next_sequence

\* Call c evaluates on stream i: the stream was open, under the profile the call
\* read, and not idle.
EvaluatedBy(c, i) ==
    /\ calls[c].pc \in {"push", "finish"} /\ calls[c].stream = i
    /\ i \in DOMAIN sessions /\ IsOpen(sessions[i])
    /\ sessions[i].digest = calls[c].verified.digest
    /\ calls[c].now - sessions[i].last_seen < IdleTtl
    /\ sessions'[i].last_seen = calls[c].now

LEMMA SweptNotEvaluated ==
    ASSUME SessionsTyped(sessions, created), Reduced(sessions'), NEW i \in DOMAIN sessions'
    PROVE  NotEvaluated(i)
  BY ReducedSession DEF NotEvaluated

\* push and finish evaluate their own stream only.
LEMMA StreamStepSessions ==
    ASSUME GuardrailInv, NEW c \in Calls, NEW outcome \in Outcomes,
           StreamStep(c, outcome), NEW i \in DOMAIN sessions'
    PROVE  NotEvaluated(i) \/ EvaluatedBy(c, i)
<1> DEFINE call == calls[c]
<1>1. /\ call.pc \in {"push", "finish"}
      /\ SessionsTyped(sessions, created) /\ CallTyped(call, created)
  BY DEF StreamStep, GuardrailInv, CallsTyped
<1>2. PICK sweep \in ExpiryOutcomes(Idle(call.now)) :
          LET ss == AfterSweep(sweep, call.now)
              refusal == IF sweep.failed THEN "STREAM_CLEAR_FAILED"
                         ELSE StreamRefusal(ss, call)
          IN  \/ sessions' = ss
              \/ /\ refusal = "NONE"
                 /\ sessions' = [ss EXCEPT ![call.stream] =
                       IF call.op = "push" THEN Pushed(@, outcome, call.now)
                       ELSE Finished(@, call.now)]
  BY DEF StreamStep
<1> DEFINE ss == AfterSweep(sweep, call.now)
<1>3. call.now \in Times
  BY <1>1 DEF CallTyped, Running
<1>4. Reduced(ss)
  BY <1>1, <1>3, SweepReduces
<1>5. CASE sessions' = ss
  BY <1>1, <1>4, <1>5, SweptNotEvaluated
<1>6. CASE /\ ~sweep.failed /\ StreamRefusal(ss, call) = "NONE"
           /\ sessions' = [ss EXCEPT ![call.stream] =
                 IF call.op = "push" THEN Pushed(@, outcome, call.now)
                 ELSE Finished(@, call.now)]
  <2>1. PICK s : s = call.stream
    OBVIOUS
  <2>2. PICK t : t = IF call.op = "push" THEN Pushed(ss[s], outcome, call.now)
                     ELSE Finished(ss[s], call.now)
    OBVIOUS
  <2>3. sessions' = [ss EXCEPT ![s] = t]
    BY <1>6, <2>1, <2>2
  <2>4. /\ s \in DOMAIN ss /\ s \in DOMAIN sessions /\ ss[s] = sessions[s]
        /\ sessions[s] \in Session
        /\ IsOpen(sessions[s]) /\ sessions[s].closed = None
        /\ sessions[s].digest = call.verified.digest
    <3> HIDE DEF ss
    <3> QED  BY <1>1, <1>4, <1>6, <2>1, StreamFound
  <2>5. call.now - sessions[s].last_seen < IdleTtl
    BY <1>1, <1>3, <1>6, <2>4, SweepExact
  <2> HIDE DEF ss, call
  <2>6. CASE i = s
    <3>1. t.last_seen = call.now
      <4>1. ss[s] \in Session /\ IsOpen(ss[s]) /\ ss[s].closed = None
        BY <2>4
      <4>2. t = Pushed(ss[s], outcome, call.now) \/ t = Finished(ss[s], call.now)
        BY <2>2
      <4> QED  BY <1>3, <4>1, <4>2, EvaluatedSession
    <3>2. sessions'[i] = t
      BY <2>3, <2>4, <2>6
    <3> QED  BY <1>1, <2>1, <2>4, <2>5, <2>6, <3>1, <3>2 DEF EvaluatedBy, call
  <2>7. CASE i # s
    <3>1. i \in DOMAIN ss /\ sessions'[i] = ss[i]
      BY <2>3, <2>7
    <3> QED  BY <1>1, <1>4, <3>1, ReducedSession DEF NotEvaluated
  <2> QED  BY <2>6, <2>7
<1>7. \/ sessions' = ss
      \/ /\ ~sweep.failed /\ StreamRefusal(ss, call) = "NONE"
         /\ sessions' = [ss EXCEPT ![call.stream] =
               IF call.op = "push" THEN Pushed(@, outcome, call.now)
               ELSE Finished(@, call.now)]
  BY <1>2
<1> QED  BY <1>5, <1>6, <1>7

\* Whatever a handler does, a stream that existed is not evaluated by the step or
\* is evaluated by the handler of a push or a finish.
LEMMA StepSessions ==
    ASSUME GuardrailInv, NEW c \in Calls, Step(c), NEW i \in 1..created,
           i \in DOMAIN sessions'
    PROVE  NotEvaluated(i) \/ EvaluatedBy(c, i)
<1>1. created \in Nat /\ SessionsTyped(sessions, created) /\ CallTyped(calls[c], created)
  BY DEF GuardrailInv, CallsTyped
<1>2. Reduced(sessions)
  BY <1>1, UnchangedReduced
<1>3. CASE \/ \E outcome \in Outcomes : Evaluate(c, outcome)
           \/ Record(c) \/ RecordFails(c)
  <2>1. sessions' = sessions
    BY <1>3 DEF Evaluate, Record, RecordFails
  <2> QED  BY <1>1, <1>2, <2>1, SweptNotEvaluated
<1>4. CASE ProfileFor(c)
  <2>1. PICK sweep \in ExpiryOutcomes(Idle(calls[c].now)) :
           sessions' = AfterSweep(sweep, calls[c].now)
    BY <1>4 DEF ProfileFor
  <2>2. calls[c].now \in Times
    BY <1>1, <1>4 DEF ProfileFor, CallTyped, Running
  <2> QED  BY <1>1, <2>1, <2>2, SweepReduces, SweptNotEvaluated
<1>5. CASE ReadActive(c)
  <2> DEFINE key == <<calls[c].org, calls[c].id>>
  <2>1. \/ sessions' = sessions
        \/ \E sweep \in ExpiryOutcomes(OpenOn(key)) :
              sessions' = AfterExpireProfile(sweep.expired)
    BY <1>5 DEF ReadActive
  <2> QED  BY <1>1, <1>2, <2>1, ExpireProfileReduces, SweptNotEvaluated
<1>6. CASE Create(c)
  <2>1. calls[c].now \in Times
    BY <1>1, <1>6 DEF Create, CallTyped, Running
  <2>2. CASE sessions' = sessions
    BY <1>1, <1>2, <2>2, SweptNotEvaluated
  <2>3. CASE sessions' # sessions
    <3>1. PICK sweep \in ExpiryOutcomes(Idle(calls[c].now)) :
             LET ss == AfterSweep(sweep, calls[c].now) IN
             \/ sessions' = ss
             \/ sessions' = [j \in DOMAIN ss \cup {created + 1} |->
                                IF j = created + 1 THEN NewSession(calls[c]) ELSE ss[j]]
      BY <1>6, <2>3 DEF Create
    <3>2. PICK ss : ss = AfterSweep(sweep, calls[c].now)
      OBVIOUS
    <3>3. Reduced(ss)
      BY <1>1, <2>1, <3>2, SweepReduces
    <3>4. i \in DOMAIN ss /\ sessions'[i] = ss[i]
      BY <1>1, <3>1, <3>2
    <3> QED  BY <1>1, <3>3, <3>4, ReducedSession DEF NotEvaluated
  <2> QED  BY <2>2, <2>3
<1>7. CASE \E outcome \in Outcomes : StreamStep(c, outcome)
  BY <1>7, StreamStepSessions
<1> QED  BY <1>3, <1>4, <1>5, <1>6, <1>7 DEF Step

\* A step other than a handler's never evaluates.
LEMMA OtherStepSessions ==
    ASSUME GuardrailInv, Next, ~\E c \in Calls : Step(c), NEW i \in DOMAIN sessions'
    PROVE  NotEvaluated(i)
<1>1. SessionsTyped(sessions, created)
  BY DEF GuardrailInv
<1>2. Reduced(sessions')
  <2>1. CASE \E c \in Calls : Begin(c)
    <3>1. sessions' = sessions
      BY <2>1 DEF Begin, BeginProfile, BeginStream
    <3> QED  BY <1>1, <3>1, UnchangedReduced
  <2>2. CASE \E key, active, lkg, revoked : SetProfile(key, active, lkg, revoked)
    <3>1. PICK key, active, lkg, revoked : SetProfile(key, active, lkg, revoked)
      BY <2>2
    <3> QED  BY <1>1, <3>1, ExpireProfileReduces DEF SetProfile
  <2>3. ASSUME NEW p \in Profiles, NEW now \in Times, Activate(p, now)
        PROVE  \E key, active, lkg, revoked : SetProfile(key, active, lkg, revoked)
    BY <2>3 DEF Activate
  <2>4. ASSUME NEW key \in Keys, NEW digest \in Digests, Revoke(key, digest)
        PROVE  \E k, active, lkg, revoked : SetProfile(k, active, lkg, revoked)
    BY <2>4 DEF Revoke
  <2>5. ASSUME NEW key \in Keys, NEW now \in Times, Rollback(key, now)
        PROVE  \E k, active, lkg, revoked : SetProfile(k, active, lkg, revoked)
    BY <2>5 DEF Rollback
  <2> QED  BY <2>1, <2>2, <2>3, <2>4, <2>5 DEF Next
<1> QED  BY <1>1, <1>2, SweptNotEvaluated

\* Whenever a stream is evaluated, some call does it and finds it as it should.
LEMMA EvaluatesBy ==
    ASSUME GuardrailInv, [Next]_vars, NEW i \in 1..created, Evaluates(i)
    PROVE  \E c \in Calls : EvaluatedBy(c, i)
<1>1. i \in DOMAIN sessions /\ i \in DOMAIN sessions'
  BY DEF Evaluates
<1>2. sessions[i].next_sequence \in Nat
  BY <1>1 DEF GuardrailInv, SessionsTyped, Session
<1>3. ~NotEvaluated(i)
  BY <1>2 DEF NotEvaluated, Evaluates
<1>4. sessions' # sessions
  BY <1>2 DEF Evaluates
<1>5. Next
  BY <1>4 DEF vars
<1>6. \E c \in Calls : Step(c)
  BY <1>1, <1>3, <1>5, OtherStepSessions
<1> QED  BY <1>1, <1>3, <1>6, StepSessions
-----------------------------------------------------------------------------
(***************************************************************************)
(* The profile a push has read.                                            *)
(***************************************************************************)

\* A call that is about to evaluate did not just get there, or it has just read
\* the active profile.
LEMMA StepCalls ==
    ASSUME GuardrailInv, NEW c \in Calls, Begin(c) \/ Step(c), NEW d \in Calls,
           calls'[d].pc \in {"push", "finish"}
    PROVE  \/ calls'[d] = calls[d]
           \/ profiles[<<calls'[d].org, calls'[d].id>>].active = calls'[d].verified
<1>1. calls = [e \in Calls |-> calls[e]]
  BY DEF GuardrailInv, CallsTyped
<1>2. calls[d] \in CallRecord
  BY DEF GuardrailInv, CallsTyped, CallTyped
<1>3. CASE d # c
  <2>1. \E new : calls' = [calls EXCEPT ![c] = new]
    <3>1. CASE Begin(c)
      BY <3>1 DEF Begin, BeginProfile, BeginStream
    <3>2. ASSUME NEW reason, Denied(c, reason)
          PROVE  \E new : calls' = [calls EXCEPT ![c] = new]
      BY <3>2 DEF Denied
    <3>3. CASE ProfileFor(c)
      BY <3>2, <3>3 DEF ProfileFor
    <3>4. CASE ReadActive(c)
      BY <3>2, <3>4 DEF ReadActive
    <3>5. CASE Create(c)
      BY <3>2, <3>5 DEF Create
    <3>6. CASE \E outcome \in Outcomes : Evaluate(c, outcome)
      BY <3>2, <3>6 DEF Evaluate
    <3>7. CASE \E outcome \in Outcomes : StreamStep(c, outcome)
      BY <3>2, <3>7 DEF StreamStep
    <3>8. CASE Record(c)
      BY <3>8 DEF Record
    <3>9. CASE RecordFails(c)
      BY <3>2, <3>9 DEF RecordFails
    <3> QED  BY <3>1, <3>3, <3>4, <3>5, <3>6, <3>7, <3>8, <3>9 DEF Step
  <2> QED  BY <1>1, <1>3, <2>1
<1>4. CASE d = c
  <2>1. CASE ReadActive(c)
    <3>1. ASSUME NEW reason, Denied(c, reason)
          PROVE  calls'[d].pc = "done"
      BY <1>1, <1>2, <1>4, <3>1 DEF Denied, CallRecord
    <3>2. calls' = [calls EXCEPT ![c].pc = calls[c].op,
                                 ![c].verified = profiles[<<calls[c].org, calls[c].id>>].active]
      BY <2>1, <3>1 DEF ReadActive
    <3> QED  BY <1>1, <1>2, <1>4, <3>2 DEF CallRecord
  <2>2. CASE ~ReadActive(c)
    <3>1. calls'[d].pc \in {"profile_for", "active", "record", "done"}
      <4>1. ASSUME NEW reason, Denied(c, reason)
            PROVE  calls'[d].pc = "done"
        BY <1>1, <1>2, <1>4, <4>1 DEF Denied, CallRecord
      <4>2. CASE Begin(c)
        BY <1>1, <1>4, <4>2 DEF Begin, BeginProfile, BeginStream, NewCall
      <4>3. CASE ProfileFor(c)
        BY <1>1, <1>2, <1>4, <4>1, <4>3 DEF ProfileFor, CallRecord
      <4>4. CASE Create(c)
        <5>1. \/ \E reason : Denied(c, reason)
              \/ calls' = [calls EXCEPT ![c].pc = "done", ![c].stream = created + 1,
                                        ![c].answer = "CREATED"]
          BY <4>4 DEF Create
        <5> QED  BY <1>1, <1>2, <1>4, <4>1, <5>1 DEF CallRecord
      <4>5. CASE \E outcome \in Outcomes : Evaluate(c, outcome)
        BY <1>1, <1>2, <1>4, <4>1, <4>5 DEF Evaluate, CallRecord
      <4>6. CASE \E outcome \in Outcomes : StreamStep(c, outcome)
        BY <1>1, <1>2, <1>4, <4>1, <4>6 DEF StreamStep, CallRecord
      <4>7. CASE Record(c) \/ RecordFails(c)
        BY <1>1, <1>2, <1>4, <4>1, <4>7 DEF Record, RecordFails, CallRecord
      <4> QED  BY <2>2, <4>2, <4>3, <4>4, <4>5, <4>6, <4>7 DEF Step
    <3> QED  BY <3>1
  <2> QED  BY <2>1, <2>2
<1> QED  BY <1>3, <1>4

\* A profile change closes the streams of its key and leaves the other keys alone.
LEMMA SetProfileKeepsVerified ==
    ASSUME GuardrailInv, VerifiedActive, ~ClearMayFail, NEW key, NEW active, NEW lkg,
           NEW revoked, SetProfile(key, active, lkg, revoked)
    PROVE  VerifiedActive'
<1> SUFFICES ASSUME NEW d \in Calls, calls'[d].pc \in {"push", "finish"},
                    calls'[d].stream \in DOMAIN sessions',
                    IsOpen(sessions'[calls'[d].stream])
             PROVE  profiles'[<<calls'[d].org, calls'[d].id>>].active = calls'[d].verified
  BY DEF VerifiedActive
<1>1. PICK call : call = calls[d] /\ calls'[d] = call
  BY DEF SetProfile
<1>2. PICK sweep \in ExpiryOutcomes(OpenOn(key)) :
         sessions' = AfterExpireProfile(sweep.expired)
  BY DEF SetProfile
<1>3. sweep.expired = OpenOn(key)
  BY ExpiredOf
<1>4. PICK i : i = call.stream
  OBVIOUS
<1>5. i \in DOMAIN sessions' /\ IsOpen(sessions'[i])
  BY <1>1, <1>4
<1>6. SessionsTyped(sessions, created) /\ CallTyped(call, created) /\ StreamNamed(sessions, call)
  BY <1>1 DEF GuardrailInv, CallsTyped, StreamsNamed
<1>7. Reduced(sessions')
  BY <1>2, <1>6, ExpireProfileReduces
<1>8. i \in DOMAIN sessions /\ sessions'[i] = sessions[i]
  BY <1>5, <1>6, <1>7, ReducedSession
<1>9. i \notin OpenOn(key)
  <2> SUFFICES ASSUME i \in OpenOn(key)
               PROVE  FALSE
    OBVIOUS
  <2>1. sessions'[i] = Closed(sessions[i], "EXPIRED", sessions[i].last_seen)
    BY <1>2, <1>3, <1>8 DEF AfterExpireProfile
  <2>2. sessions[i] \in Session /\ sessions[i].last_seen \in Times
    BY <1>6, <1>8 DEF SessionsTyped, Session
  <2> QED  BY <1>5, <2>1, <2>2, ClosedSession
<1>10. <<sessions[i].org, sessions[i].profile>> # key
  BY <1>5, <1>8, <1>9 DEF OpenOn
<1>11. sessions[i].org = call.org /\ sessions[i].profile = call.id
  <2>1. call.op \in {"push", "finish"}
    BY <1>1, <1>6 DEF CallTyped
  <2> QED  BY <1>1, <1>4, <1>6, <1>8, <2>1 DEF StreamNamed
<1>12. profiles[<<call.org, call.id>>].active = call.verified
  BY <1>1, <1>4, <1>5, <1>8 DEF VerifiedActive
<1>13. <<call.org, call.id>> # key
  BY <1>10, <1>11
<1>14. <<call.org, call.id>> \in Keys
  BY <1>1, <1>6 DEF CallTyped, Running, Keys
<1>15. profiles'[<<call.org, call.id>>] = profiles[<<call.org, call.id>>]
  BY <1>13, <1>14 DEF SetProfile, GuardrailInv, ProfilesTyped
<1> QED  BY <1>1, <1>12, <1>15

\* Where clearing a stream does not fail, every step keeps it.
LEMMA VerifiedStep ==
    ASSUME GuardrailInv, VerifiedActive, ~ClearMayFail, [Next]_vars
    PROVE  VerifiedActive'
<1>1. CASE UNCHANGED vars
  BY <1>1 DEF vars, VerifiedActive
<1>2. CASE \E key, active, lkg, revoked : SetProfile(key, active, lkg, revoked)
  BY <1>2, SetProfileKeepsVerified
<1>3. ASSUME NEW c \in Calls, Begin(c) \/ Step(c)
      PROVE  VerifiedActive'
  <2> SUFFICES ASSUME NEW d \in Calls, calls'[d].pc \in {"push", "finish"},
                      calls'[d].stream \in DOMAIN sessions',
                      IsOpen(sessions'[calls'[d].stream])
               PROVE  profiles'[<<calls'[d].org, calls'[d].id>>].active = calls'[d].verified
    BY DEF VerifiedActive
  <2>1. profiles' = profiles
    BY <1>3 DEF Begin, BeginProfile, BeginStream, Step, ProfileFor, ReadActive, Create,
       Evaluate, StreamStep, Record, RecordFails
  <2>2. CASE profiles[<<calls'[d].org, calls'[d].id>>].active = calls'[d].verified
    BY <2>1, <2>2
  <2>3. CASE calls'[d] = calls[d]
    <3>1. PICK call : call = calls[d] /\ calls'[d] = call
      BY <2>3
    <3>2. PICK i : i = call.stream
      OBVIOUS
    <3>3. CallTyped(call, created) /\ created \in Nat
      BY <3>1 DEF GuardrailInv, CallsTyped
    <3>4. i \in 1..created /\ i \in DOMAIN sessions' /\ IsOpen(sessions'[i])
      BY <3>1, <3>2, <3>3 DEF CallTyped
    <3>5. i \in DOMAIN sessions /\ IsOpen(sessions[i])
      <4>1. CASE Begin(c)
        BY <3>4, <4>1 DEF Begin, BeginProfile, BeginStream
      <4>2. CASE Step(c)
        BY <3>4, <4>2, StepSessions DEF NotEvaluated, EvaluatedBy
      <4> QED  BY <1>3, <4>1, <4>2
    <3>6. profiles[<<call.org, call.id>>].active = call.verified
      BY <3>1, <3>2, <3>5 DEF VerifiedActive
    <3> QED  BY <2>1, <3>1, <3>6
  <2> QED  BY <1>3, <2>2, <2>3, StepCalls
<1>4. ASSUME NEW p \in Profiles, NEW now \in Times, Activate(p, now)
      PROVE  \E key, active, lkg, revoked : SetProfile(key, active, lkg, revoked)
  BY <1>4 DEF Activate
<1>5. ASSUME NEW key \in Keys, NEW digest \in Digests, Revoke(key, digest)
      PROVE  \E k, active, lkg, revoked : SetProfile(k, active, lkg, revoked)
  BY <1>5 DEF Revoke
<1>6. ASSUME NEW key \in Keys, NEW now \in Times, Rollback(key, now)
      PROVE  \E k, active, lkg, revoked : SetProfile(k, active, lkg, revoked)
  BY <1>6 DEF Rollback
<1> QED  BY <1>1, <1>2, <1>3, <1>4, <1>5, <1>6 DEF Next

\* A stream that is evaluated is evaluated under the active profile.
UnderActive(i) ==
    LET active == profiles[<<sessions[i].org, sessions[i].profile>>].active
    IN  active # None /\ active.digest = sessions[i].digest

LEMMA EvaluatedByActive ==
    ASSUME GuardrailInv, VerifiedActive, NEW c \in Calls, NEW i, EvaluatedBy(c, i)
    PROVE  UnderActive(i)
<1>1. PICK call : call = calls[c]
  OBVIOUS
<1>2. /\ CallTyped(call, created) /\ StreamNamed(sessions, call)
      /\ call.pc \in {"push", "finish"} /\ call.stream = i
      /\ i \in DOMAIN sessions /\ sessions[i].digest = call.verified.digest
  BY <1>1 DEF GuardrailInv, CallsTyped, StreamsNamed, EvaluatedBy
<1>3. call.op \in {"push", "finish"} /\ call.verified \in Profiles
  BY <1>2 DEF CallTyped
<1>4. sessions[i].org = call.org /\ sessions[i].profile = call.id
  BY <1>2, <1>3 DEF StreamNamed
<1>5. profiles[<<call.org, call.id>>].active = call.verified
  BY <1>1, <1>2 DEF VerifiedActive, EvaluatedBy
<1> QED  BY <1>2, <1>3, <1>4, <1>5, NoneAssumption DEF UnderActive
-----------------------------------------------------------------------------
(***************************************************************************)
(* The capacity a create is refused for.                                   *)
(***************************************************************************)
LEMMA CapacityRefused ==
    ASSUME GuardrailInv, [Next]_vars, NEW c \in Calls,
           calls[c].pc = "create", calls'[c].answer = "STREAM_CAPACITY_EXCEEDED"
    PROVE  Cardinality({i \in DOMAIN sessions :
                           /\ sessions[i].org = calls[c].org
                           /\ IsOpen(sessions[i])
                           /\ calls[c].now - sessions[i].last_seen < IdleTtl}) >= MaxOpen
<1>1. CallTyped(calls[c], created) /\ SessionsTyped(sessions, created)
  BY DEF GuardrailInv, CallsTyped
<1>2. calls'[c] # calls[c]
  <2>1. calls[c].answer = None
    BY <1>1 DEF CallTyped
  <2> QED  BY <2>1, NoneAssumption
<1>3. Create(c)
  <2>1. calls[c] \in CallRecord /\ calls = [e \in Calls |-> calls[e]]
    BY <1>1 DEF CallTyped, GuardrailInv, CallsTyped
  <2>2. \A p \in Profiles, now \in Times : ~Activate(p, now)
    BY <1>2 DEF Activate, SetProfile
  <2>3. \A key \in Keys, digest \in Digests : ~Revoke(key, digest)
    BY <1>2 DEF Revoke, SetProfile
  <2>4. \A key \in Keys, now \in Times : ~Rollback(key, now)
    BY <1>2 DEF Rollback, SetProfile
  <2>5. ASSUME NEW d \in Calls, Begin(d)
        PROVE  FALSE
    BY <1>2, <2>1, <2>5 DEF Begin, BeginProfile, BeginStream
  <2>6. PICK d \in Calls : Step(d)
    BY <1>2, <2>2, <2>3, <2>4, <2>5 DEF Next, vars
  <2>7. d = c
    <3> SUFFICES ASSUME d # c
                 PROVE  FALSE
      OBVIOUS
    <3>1. ASSUME NEW new, calls' = [calls EXCEPT ![d] = new]
          PROVE  FALSE
      BY <1>2, <2>1, <3>1
    <3>2. \E new : calls' = [calls EXCEPT ![d] = new]
      <4>1. ASSUME NEW reason, Denied(d, reason)
            PROVE  \E new : calls' = [calls EXCEPT ![d] = new]
        BY <4>1 DEF Denied
      <4>2. CASE ProfileFor(d)
        BY <4>1, <4>2 DEF ProfileFor
      <4>3. CASE ReadActive(d)
        BY <4>1, <4>3 DEF ReadActive
      <4>4. CASE Create(d)
        BY <4>1, <4>4 DEF Create
      <4>5. CASE \E outcome \in Outcomes : Evaluate(d, outcome)
        BY <4>1, <4>5 DEF Evaluate
      <4>6. CASE \E outcome \in Outcomes : StreamStep(d, outcome)
        BY <4>1, <4>6 DEF StreamStep
      <4>7. CASE Record(d) \/ RecordFails(d)
        BY <4>1, <4>7 DEF Record, RecordFails
      <4> QED  BY <2>6, <4>2, <4>3, <4>4, <4>5, <4>6, <4>7 DEF Step
    <3> QED  BY <3>1, <3>2
  <2> QED  BY <2>6, <2>7 DEF Step, ProfileFor, ReadActive, Evaluate, StreamStep, Record,
              RecordFails
<1>4. calls[c] \in CallRecord /\ calls = [e \in Calls |-> calls[e]]
  BY <1>1 DEF CallTyped, GuardrailInv, CallsTyped
<1>5. ASSUME NEW reason, Denied(c, reason)
      PROVE  calls'[c].answer = reason
  BY <1>4, <1>5 DEF Denied, CallRecord
<1>6. PICK sweep \in ExpiryOutcomes(Idle(calls[c].now)) :
         /\ ~sweep.failed
         /\ AtCapacity(AfterSweep(sweep, calls[c].now), calls[c].org)
  <2>1. ~Denied(c, "STREAM_PROFILE_REQUIRED") /\ ~Denied(c, "STREAM_CLEAR_FAILED")
    BY <1>5
  <2>2. ASSUME NEW n, calls' = [calls EXCEPT ![c].pc = "done", ![c].stream = n,
                                             ![c].answer = "CREATED"]
        PROVE  FALSE
    <3>1. calls'[c].answer = "CREATED"
      BY <1>4, <2>2 DEF CallRecord
    <3> QED  BY <3>1
  <2> QED  BY <1>3, <2>1, <2>2 DEF Create
<1>7. calls[c].now \in Times
  BY <1>1 DEF CallTyped, Running
<1>8. PICK ss : ss = AfterSweep(sweep, calls[c].now)
  OBVIOUS
<1>9. Reduced(ss)
  BY <1>1, <1>7, <1>8, SweepReduces
<1> DEFINE busy == {i \in DOMAIN sessions :
                       /\ sessions[i].org = calls[c].org
                       /\ IsOpen(sessions[i])
                       /\ calls[c].now - sessions[i].last_seen < IdleTtl}
<1>10. OpenIds(ss, calls[c].org) = busy
  <2>1. ASSUME NEW i
        PROVE  i \in DOMAIN ss /\ IsOpen(ss[i]) <=>
                   /\ i \in DOMAIN sessions /\ IsOpen(sessions[i])
                   /\ calls[c].now - sessions[i].last_seen < IdleTtl
    BY <1>1, <1>6, <1>7, <1>8, SweepExact
  <2>2. ASSUME NEW i \in DOMAIN ss
        PROVE  ss[i].org = sessions[i].org
    BY <1>1, <1>9, <2>2, ReducedSession
  <2> QED  BY <2>1, <2>2 DEF OpenIds
<1>11. Cardinality(OpenIds(ss, calls[c].org)) >= MaxOpen
  BY <1>6, <1>8 DEF AtCapacity, OpenCount, OpenIds
<1> QED  BY <1>10, <1>11
-----------------------------------------------------------------------------
(***************************************************************************)
(* The theorems.                                                           *)
(***************************************************************************)
LEMMA Invariance == Spec => []GuardrailInv
  BY InitInv, StepInv, PTL DEF Spec

\* Pointers hold profiles of their own key, sessions are sessions, and a closed
\* session holds no content: in every reachable state, for any number of tenants,
\* profiles, streams and calls.
THEOREM TypeCorrectness == Spec => []TypeOK
<1>1. GuardrailInv => TypeOK
  <2> SUFFICES ASSUME GuardrailInv
               PROVE  TypeOK
    OBVIOUS
  <2>1. \A c \in Calls : calls[c].pc \in Running \cup {"idle", "done"}
    BY DEF GuardrailInv, CallsTyped, CallTyped, CallRecord
  <2> QED  BY <2>1 DEF GuardrailInv, ProfilesTyped, SessionsTyped, TypeOK
<1> QED  BY Invariance, <1>1, PTL

\* No tenant ever has more than MAXIMUM_OPEN_STREAMS_PER_TENANT streams open,
\* however creates, finishes, profile changes and failing sweeps interleave.
THEOREM CapacityHolds == Spec => []OpenCapacity
<1>1. GuardrailInv => OpenCapacity
  BY DEF GuardrailInv
<1> QED  BY Invariance, <1>1, PTL

\* A stream evaluates each sequence number once and leaves none out, whatever
\* pushes run at the same time, are repeated or come late.
THEOREM EachChunkOnce == Spec => []SequenceExact
<1>1. GuardrailInv => SequenceExact
  BY DEF GuardrailInv
<1> QED  BY Invariance, <1>1, PTL

\* Nothing of a stream is evaluated after its denied chunk or its finish.
THEOREM EndIsFinal == Spec => []NothingAfterTheEnd
<1>1. GuardrailInv => NothingAfterTheEnd
  BY DEF GuardrailInv
<1> QED  BY Invariance, <1>1, PTL

\* A stream idle for IDLE_TTL is never evaluated again, even when the sweep that
\* should have expired it failed for another stream.
THEOREM IdleStreamsEnd == Spec => IdleNotEvaluated
<1>1. GuardrailInv /\ [Next]_vars =>
         [\A i \in 1..created :
             Evaluates(i) => sessions'[i].last_seen - sessions[i].last_seen < IdleTtl]_vars
  <2> SUFFICES ASSUME GuardrailInv, [Next]_vars, NEW i \in 1..created, Evaluates(i)
               PROVE  sessions'[i].last_seen - sessions[i].last_seen < IdleTtl
    OBVIOUS
  <2> QED  BY EvaluatesBy DEF EvaluatedBy
<1> QED  BY Invariance, <1>1, PTL DEF Spec, IdleNotEvaluated

\* A create is refused for capacity only when MaxOpen streams of its tenant are
\* open and not idle at its own instant.
THEOREM RefusalsAreReal == Spec => CapacityRefusalIsReal
<1>1. GuardrailInv /\ [Next]_vars =>
         [\A c \in Calls :
          calls[c].pc = "create" /\ calls'[c].answer = "STREAM_CAPACITY_EXCEEDED" =>
              Cardinality({i \in DOMAIN sessions :
                              /\ sessions[i].org = calls[c].org
                              /\ IsOpen(sessions[i])
                              /\ calls[c].now - sessions[i].last_seen < IdleTtl}) >= MaxOpen]_vars
  BY CapacityRefused
<1> QED  BY Invariance, <1>1, PTL DEF Spec, CapacityRefusalIsReal

\* Where clearing a stream does not fail, a stream is only ever evaluated under the
\* profile that is active at that very moment, although push reads the active
\* profile before it takes the registry's lock.
THEOREM ActiveProfileEvaluates == ~ClearMayFail => (Spec => EvaluatedUnderActive)
<1> SUFFICES ASSUME ~ClearMayFail
             PROVE  Spec => EvaluatedUnderActive
  OBVIOUS
<1>1. Init => VerifiedActive
  BY DEF Init, VerifiedActive
<1>2. GuardrailInv /\ VerifiedActive /\ [Next]_vars => VerifiedActive'
  BY VerifiedStep
<1>3. Spec => []VerifiedActive
  BY Invariance, <1>1, <1>2, PTL DEF Spec
<1>4. GuardrailInv /\ VerifiedActive /\ [Next]_vars =>
         [\A i \in 1..created :
          Evaluates(i) =>
              LET active == profiles[<<sessions[i].org, sessions[i].profile>>].active
              IN  active # None /\ active.digest = sessions[i].digest]_vars
  <2> SUFFICES ASSUME GuardrailInv, VerifiedActive, [Next]_vars, NEW i \in 1..created,
                      Evaluates(i)
               PROVE  UnderActive(i)
    BY DEF UnderActive
  <2> QED  BY EvaluatesBy, EvaluatedByActive
<1> QED  BY Invariance, <1>3, <1>4, PTL DEF Spec, EvaluatedUnderActive
=============================================================================

-------------------------- MODULE GuardrailStreams --------------------------
(***************************************************************************)
(* The guardrail service of guardrails/: the signed profiles of a tenant   *)
(* (GuardrailProfileManager), the streaming sessions evaluated under them  *)
(* (GuardrailStreamRegistry), the handlers of GuardrailService that use    *)
(* both, and the store of decision, audit, evidence and outbox rows.       *)
(*                                                                         *)
(* The manager and the registry have a lock each.  A handler takes them one*)
(* after the other, so a push is three steps with other handlers and       *)
(* profile changes in between: profile_for, active, push; and a fourth that*)
(* records.  A profile change holds the manager's lock while it replaces   *)
(* the pointers and calls expire_profile on the registry; readers of the   *)
(* pointers wait for it, so it is one step.                                *)
(*                                                                         *)
(* Stream ids are fresh uuids: here numbers, in the order of creation, in  *)
(* which the registry's dict also iterates.  The SDK's stream is external: *)
(* it evaluates a chunk to any outcome, or raises; clearing a stream, which*)
(* also calls its finish, may raise where ClearMayFail.                    *)
(***************************************************************************)
EXTENDS Integers, FiniteSets, Sequences

CONSTANTS
    Orgs,         \* organizations
    ProfileIds,   \* profile names
    Digests,      \* profile digests
    Profiles,     \* signed profiles that may be offered for activation
    Calls,        \* calls of a service handler, one each
    Operations,   \* what callers may ask: evaluate, create, push, finish
    Times,        \* the instants callers may bring
    Outcomes,     \* outcomes the SDK may give
    MaxStreams,   \* bound on the streams ever created
    MaxOpen,      \* MAXIMUM_OPEN_STREAMS_PER_TENANT
    IdleTtl,      \* IDLE_TTL
    ClearMayFail, \* whether the SDK's stream.finish may raise
    None

Stopping == {"DENY", "QUARANTINE", "ERROR_FAIL_CLOSED"}
Releasing == {"ALLOW", "REDACT"}

Profile ==
    [org: Orgs, id: ProfileIds, stage: {"STREAMING", "OUTPUT"}, digest: Digests,
     version: Nat, effective: Nat, expires: Nat, supersedes: Digests \cup {None}]

ASSUME ProfilesAssumption == Profiles \subseteq Profile
ASSUME OperationsAssumption ==
    Operations \subseteq {"evaluate", "create", "push", "finish"}
ASSUME OutcomesAssumption ==
    Outcomes \subseteq Stopping \cup Releasing \cup {"ERROR_FAIL_OPEN"}
ASSUME TimesAssumption == Times \subseteq Nat
ASSUME MaxStreamsAssumption == MaxStreams \in Nat
ASSUME MaxOpenAssumption == MaxOpen \in Nat \ {0}
ASSUME IdleTtlAssumption == IdleTtl \in Nat \ {0}
ASSUME ClearMayFailAssumption == ClearMayFail \in BOOLEAN
ASSUME CallsAssumption == IsFiniteSet(Calls)
ASSUME NoneAssumption ==
    /\ None \notin Profiles /\ None \notin Digests /\ None \notin Times
    /\ None \notin Outcomes \cup {"STREAM_CAPACITY_EXCEEDED"}

VARIABLES
    profiles,   \* (org, profile id) -> [active, last_known_good, revoked]
    sessions,   \* stream id -> session, for the sessions the registry holds
    created,    \* number of streams created so far
    calls,      \* call -> what its thread knows and what it answered
    store       \* call -> the rows recorded for it, or None

vars == <<profiles, sessions, created, calls, store>>

(***************************************************************************)
(* The registry's clean-up.                                                *)
(***************************************************************************)
IsOpen(s) == s.state = "OPEN"

\* Faulty variant: the content of a closed stream is kept.
Closed_KeepsContent(s, state, at) == [s EXCEPT !.state = state, !.closed = at]

\* _close_content with the change of state it is called for.
Closed(s, state, at) ==
    [s EXCEPT !.state = state, !.buffered = 0, !.closed = at]

\* Apply the expiry of one session to those in S; where the SDK may fail, to
\* those in S before the first one whose content could not be cleared.
ExpiryOutcomes(S) ==
    {[expired |-> S, failed |-> FALSE]} \cup
    IF ClearMayFail
    THEN {[expired |-> {i \in S : i < f}, failed |-> TRUE] : f \in S}
    ELSE {}

\* Faulty variant: a profile change expires nothing.
OpenOn_Nothing(key) == {}

\* expire_profile
OpenOn(key) == {i \in DOMAIN sessions :
                   IsOpen(sessions[i]) /\ <<sessions[i].org, sessions[i].profile>> = key}

AfterExpireProfile(expired) ==
    [i \in DOMAIN sessions |->
        IF i \in expired THEN Closed(sessions[i], "EXPIRED", sessions[i].last_seen)
        ELSE sessions[i]]

\* Faulty variant: a stream lives one instant longer.
Idle_Later(now) == {i \in DOMAIN sessions :
                       IsOpen(sessions[i]) /\ now - sessions[i].last_seen > IdleTtl}

\* _expire_and_prune
Idle(now) == {i \in DOMAIN sessions :
                 IsOpen(sessions[i]) /\ now - sessions[i].last_seen >= IdleTtl}

AfterExpiry(expired, now) ==
    [i \in DOMAIN sessions |->
        IF i \in expired THEN Closed(sessions[i], "EXPIRED", now) ELSE sessions[i]]

Pruned(ss, now) ==
    [i \in {j \in DOMAIN ss : \/ ss[j].closed = None
                              \/ now - ss[j].closed < 2 * IdleTtl} |-> ss[i]]

AfterSweep(sweep, now) ==
    IF sweep.failed THEN AfterExpiry(sweep.expired, now)
    ELSE Pruned(AfterExpiry(sweep.expired, now), now)

(***************************************************************************)
(* GuardrailProfileManager.  on_trust_change is expire_profile; when it    *)
(* raises, the pointers have already been replaced.                        *)
(***************************************************************************)
SetProfile(key, active, lkg, revoked) ==
    /\ profiles' = [profiles EXCEPT ![key] =
                       [active |-> active, last_known_good |-> lkg, revoked |-> revoked]]
    /\ \E sweep \in ExpiryOutcomes(OpenOn(key)) :
          sessions' = AfterExpireProfile(sweep.expired)
    /\ UNCHANGED <<created, calls, store>>

ActiveAt(p, now) == p.effective <= now /\ now < p.expires

\* verify_profile_artifact accepts what is in force; a successor must have a
\* greater version and name the active profile.
Activate(p, now) ==
    LET key == <<p.org, p.id>>
        previous == profiles[key]
    IN  /\ ActiveAt(p, now)
        /\ p.digest \notin previous.revoked
        /\ IF previous.active = None THEN p.supersedes = None
           ELSE /\ p.version > previous.active.version
                /\ p.supersedes = previous.active.digest
        /\ SetProfile(key, p, previous.active, previous.revoked)

UnlessRevoked(p, digest) == IF p # None /\ p.digest = digest THEN None ELSE p

Revoke(key, digest) ==
    LET state == profiles[key] IN
    SetProfile(key, UnlessRevoked(state.active, digest),
               UnlessRevoked(state.last_known_good, digest),
               state.revoked \cup {digest})

Rollback(key, now) ==
    LET candidate == profiles[key].last_known_good IN
    /\ candidate # None
    /\ candidate.digest \notin profiles[key].revoked
    /\ ActiveAt(candidate, now)
    /\ SetProfile(key, candidate, None, profiles[key].revoked)

ActiveRefusal(key, now) ==
    LET p == profiles[key].active IN
    IF p = None THEN "PROFILE_UNAVAILABLE"
    ELSE IF p.digest \in profiles[key].revoked THEN "PROFILE_REVOKED"
    ELSE IF now < p.effective THEN "PROFILE_NOT_YET_EFFECTIVE"
    ELSE IF now >= p.expires THEN "PROFILE_EXPIRED"
    ELSE "NONE"

(***************************************************************************)
(* The handlers.                                                           *)
(***************************************************************************)
NewCall ==
    [pc |-> "idle", op |-> None, org |-> None, id |-> None, stream |-> None,
     sequence |-> None, now |-> None, verified |-> None, outcome |-> None,
     answer |-> None]

\* Faulty variant: a handler that is refused tries again.
Denied_TriesAgain(c, reason) == UNCHANGED calls

Denied(c, reason) ==
    calls' = [calls EXCEPT ![c].pc = "done", ![c].answer = reason]

\* evaluate and create_stream name a profile.
BeginProfile(c, op, o, id, now) ==
    /\ calls[c].pc = "idle"
    /\ op \in {"evaluate", "create"}
    /\ calls' = [calls EXCEPT ![c] =
                    [NewCall EXCEPT !.pc = "active", !.op = op, !.org = o,
                                    !.id = id, !.now = now]]
    /\ UNCHANGED <<profiles, sessions, created, store>>

\* push_stream and finish_stream name a stream and a sequence number.
BeginStream(c, op, o, stream, sequence, now) ==
    /\ calls[c].pc = "idle"
    /\ op \in {"push", "finish"}
    /\ calls' = [calls EXCEPT ![c] =
                    [NewCall EXCEPT !.pc = "profile_for", !.op = op, !.org = o,
                                    !.stream = stream, !.sequence = sequence,
                                    !.now = now]]
    /\ UNCHANGED <<profiles, sessions, created, store>>

\* _lookup in the sessions left by the sweep: the reason it fails, or NONE.
LookupRefusal(ss, call) ==
    IF call.stream \notin DOMAIN ss \/ ss[call.stream].org # call.org
    THEN "STREAM_NOT_FOUND"
    ELSE IF ss[call.stream].state # "OPEN" THEN "STREAM_CLOSED"
    ELSE "NONE"

ProfileFor(c) ==
    LET call == calls[c] IN
    /\ call.pc = "profile_for"
    /\ \E sweep \in ExpiryOutcomes(Idle(call.now)) :
          LET ss == AfterSweep(sweep, call.now)
              refusal == IF sweep.failed THEN "STREAM_CLEAR_FAILED"
                         ELSE LookupRefusal(ss, call)
          IN  /\ sessions' = ss
              /\ IF refusal # "NONE" THEN Denied(c, refusal)
                 ELSE calls' = [calls EXCEPT ![c].pc = "active",
                                             ![c].id = ss[call.stream].profile]
    /\ UNCHANGED <<profiles, created, store>>

\* An expired profile closes its streams before the caller is refused.  When it
\* cannot, only push and finish catch what it raises.
ReadActive(c) ==
    LET call == calls[c]
        key == <<call.org, call.id>>
        refusal == ActiveRefusal(key, call.now)
    IN  /\ call.pc = "active"
        /\ IF refusal = "NONE"
           THEN /\ calls' = [calls EXCEPT ![c].pc = call.op,
                                          ![c].verified = profiles[key].active]
                /\ UNCHANGED sessions
           ELSE IF refusal = "PROFILE_EXPIRED"
           THEN \E sweep \in ExpiryOutcomes(OpenOn(key)) :
                   /\ sessions' = AfterExpireProfile(sweep.expired)
                   /\ Denied(c, IF ~sweep.failed THEN refusal
                                ELSE IF call.op \in {"push", "finish"}
                                THEN "STREAM_CLEAR_FAILED" ELSE "RAISED")
           ELSE Denied(c, refusal) /\ UNCHANGED sessions
        /\ UNCHANGED <<profiles, created, store>>

\* evaluate: the SDK judges the content under the profile just read, or raises:
\* a contract error is answered, anything else escapes.
Evaluate(c, outcome) ==
    /\ calls[c].pc = "evaluate"
    /\ \/ /\ calls[c].verified.stage = "STREAMING"
          /\ Denied(c, "STREAM_ROUTE_REQUIRED")
       \/ /\ calls[c].verified.stage # "STREAMING"
          /\ \/ \E reason \in {"SDK_ERROR", "RAISED"} : Denied(c, reason)
             \/ calls' = [calls EXCEPT ![c].pc = "record", ![c].outcome = outcome]
    /\ UNCHANGED <<profiles, sessions, created, store>>

OpenCount(ss, o) == Cardinality({i \in DOMAIN ss : ss[i].org = o /\ IsOpen(ss[i])})

\* Faulty variants: one stream too many; the streams are counted before the sweep.
AtCapacity_OneMore(ss, o) == OpenCount(ss, o) > MaxOpen

AtCapacity_Unswept(ss, o) == OpenCount(sessions, o) >= MaxOpen

AtCapacity(ss, o) == OpenCount(ss, o) >= MaxOpen

NewSession(call) ==
    [org |-> call.org, profile |-> call.id, digest |-> call.verified.digest,
     state |-> "OPEN", next_sequence |-> 1, last_seen |-> call.now,
     buffered |-> 0, closed |-> None]

Create(c) ==
    LET call == calls[c] IN
    /\ call.pc = "create"
    /\ \/ /\ call.verified.stage # "STREAMING"
          /\ Denied(c, "STREAM_PROFILE_REQUIRED")
          /\ UNCHANGED <<sessions, created>>
       \/ /\ call.verified.stage = "STREAMING"
          /\ created < MaxStreams
          /\ \E sweep \in ExpiryOutcomes(Idle(call.now)) :
                LET ss == AfterSweep(sweep, call.now) IN
                IF sweep.failed \/ AtCapacity(ss, call.org)
                THEN /\ sessions' = ss
                     /\ Denied(c, IF sweep.failed THEN "STREAM_CLEAR_FAILED"
                                  ELSE "STREAM_CAPACITY_EXCEEDED")
                     /\ UNCHANGED created
                ELSE /\ created' = created + 1
                     /\ sessions' = [i \in DOMAIN ss \cup {created + 1} |->
                                        IF i = created + 1 THEN NewSession(call) ELSE ss[i]]
                     /\ calls' = [calls EXCEPT ![c].pc = "done", ![c].stream = created + 1,
                                               ![c].answer = "CREATED"]
    /\ UNCHANGED <<profiles, store>>

\* Faulty variant: chunks are taken in the order they come.
StreamRefusal_AnySequence(ss, call) ==
    IF LookupRefusal(ss, call) # "NONE" THEN LookupRefusal(ss, call)
    ELSE IF ss[call.stream].digest # call.verified.digest THEN "STREAM_PROFILE_CHANGED"
    ELSE "NONE"

\* _lookup, _require_open and the sequence check.
StreamRefusal(ss, call) ==
    IF LookupRefusal(ss, call) # "NONE" THEN LookupRefusal(ss, call)
    ELSE IF ss[call.stream].digest # call.verified.digest THEN "STREAM_PROFILE_CHANGED"
    ELSE IF ss[call.stream].next_sequence # call.sequence THEN "STREAM_SEQUENCE_INVALID"
    ELSE "NONE"

Seen(s, now) == [s EXCEPT !.next_sequence = @ + 1, !.last_seen = now]

\* Faulty variant: a denied chunk does not end the stream.
Pushed_GoesOn(s, outcome, now) == [Seen(s, now) EXCEPT !.buffered = @ + 1]

\* A chunk of one byte is judged with what the stream has seen before it.
Pushed(s, outcome, now) ==
    IF outcome \in Stopping THEN Closed(Seen(s, now), "TERMINATED", now)
    ELSE [Seen(s, now) EXCEPT !.buffered = @ + 1]

Finished(s, now) == Closed(Seen(s, now), "FINISHED", now)

\* push and finish.  When the SDK raises, the session is as it was and the
\* exception escapes.
StreamStep(c, outcome) ==
    LET call == calls[c] IN
    /\ call.pc \in {"push", "finish"}
    /\ \E sweep \in ExpiryOutcomes(Idle(call.now)) :
          LET ss == AfterSweep(sweep, call.now)
              refusal == IF sweep.failed THEN "STREAM_CLEAR_FAILED"
                         ELSE StreamRefusal(ss, call)
          IN  \/ /\ sessions' = ss
                 /\ Denied(c, IF refusal = "NONE" THEN "RAISED" ELSE refusal)
              \/ /\ refusal = "NONE"
                 /\ sessions' = [ss EXCEPT ![call.stream] =
                       IF call.op = "push" THEN Pushed(@, outcome, call.now)
                       ELSE Finished(@, call.now)]
                 /\ calls' = [calls EXCEPT ![c].pc = "record", ![c].outcome = outcome]
    /\ UNCHANGED <<profiles, created, store>>

\* _record: the rows appear together, and only then does the caller learn the
\* outcome.
Record(c) ==
    LET call == calls[c] IN
    /\ call.pc = "record"
    /\ store' = [store EXCEPT ![c] =
                    [digest |-> call.verified.digest, outcome |-> call.outcome,
                     released |-> call.outcome \in Releasing]]
    /\ calls' = [calls EXCEPT ![c].pc = "done", ![c].answer = "EVALUATED"]
    /\ UNCHANGED <<profiles, sessions, created>>

RecordFails(c) ==
    /\ calls[c].pc = "record"
    /\ Denied(c, "AUDIT_COMMIT_FAILED")
    /\ UNCHANGED <<profiles, sessions, created, store>>
-----------------------------------------------------------------------------
Keys == Orgs \X ProfileIds

Init ==
    /\ profiles = [key \in Keys |-> [active |-> None, last_known_good |-> None,
                                     revoked |-> {}]]
    /\ sessions = [i \in {} |-> None]
    /\ created = 0
    /\ calls = [c \in Calls |-> NewCall]
    /\ store = [c \in Calls |-> None]

Step(c) == \/ ProfileFor(c) \/ ReadActive(c) \/ Create(c)
           \/ \E outcome \in Outcomes : Evaluate(c, outcome) \/ StreamStep(c, outcome)
           \/ Record(c) \/ RecordFails(c)

Begin(c) ==
    \E op \in Operations, o \in Orgs, now \in Times :
        \/ \E id \in ProfileIds : BeginProfile(c, op, o, id, now)
        \/ \E i \in 1..created, n \in 1..Cardinality(Calls) :
              BeginStream(c, op, o, i, n, now)

Next ==
    \/ \E p \in Profiles, now \in Times : Activate(p, now)
    \/ \E key \in Keys, digest \in Digests : Revoke(key, digest)
    \/ \E key \in Keys, now \in Times : Rollback(key, now)
    \/ \E c \in Calls : Begin(c) \/ Step(c)

\* A handler that began runs on; no lock is held across its steps.  Nothing
\* makes a caller call, or an operator change a profile.
Spec == Init /\ [][Next]_vars /\ \A c \in Calls : WF_vars(Step(c))
-----------------------------------------------------------------------------
Session ==
    [org: Orgs, profile: ProfileIds, digest: Digests,
     state: {"OPEN", "TERMINATED", "FINISHED", "EXPIRED"},
     next_sequence: Nat \ {0}, last_seen: Times, buffered: Nat,
     closed: Times \cup {None}]

Running == {"profile_for", "active", "evaluate", "create", "push", "finish", "record"}

\* Pointers hold profiles of their own key, sessions are sessions, and a closed
\* session holds no content (buffered_bytes) but the instant it was closed.
TypeOK ==
    /\ \A key \in Keys :
          {profiles[key].active, profiles[key].last_known_good}
             \subseteq {p \in Profiles : <<p.org, p.id>> = key} \cup {None}
    /\ DOMAIN sessions \subseteq 1..created
    /\ \A i \in DOMAIN sessions :
          /\ sessions[i] \in Session
          /\ IsOpen(sessions[i]) = (sessions[i].closed = None)
          /\ ~IsOpen(sessions[i]) => sessions[i].buffered = 0
    /\ \A c \in Calls : calls[c].pc \in Running \cup {"idle", "done"}

\* No tenant ever has more streams open than create's limit, however creates,
\* finishes and expiries interleave.
OpenCapacity == \A o \in Orgs : OpenCount(sessions, o) <= MaxOpen

\* Streams nobody uses are swept only by calls of the registry, but they never
\* cost a tenant a slot: a create is refused for capacity only when, at its own
\* instant, MaxOpen streams of the tenant are open and not idle, whoever left
\* idle ones behind and whether or not a call came by since.
CapacityRefusalIsReal ==
    [][\A c \in Calls :
          calls[c].pc = "create" /\ calls'[c].answer = "STREAM_CAPACITY_EXCEEDED" =>
              Cardinality({i \in DOMAIN sessions :
                              /\ sessions[i].org = calls[c].org
                              /\ IsOpen(sessions[i])
                              /\ calls[c].now - sessions[i].last_seen < IdleTtl}) >= MaxOpen]_vars

\* The calls whose chunk, or end, the stream has evaluated.
EvaluatedOn(i) == {c \in Calls : /\ calls[c].op \in {"push", "finish"}
                                 /\ calls[c].stream = i
                                 /\ calls[c].outcome # None}

\* A stream evaluates each sequence number once and leaves none out: concurrent,
\* repeated and late pushes included.
SequenceExact ==
    \A i \in 1..created :
        /\ \A c, d \in EvaluatedOn(i) :
              calls[c].sequence = calls[d].sequence => c = d
        /\ i \in DOMAIN sessions =>
              {calls[c].sequence : c \in EvaluatedOn(i)}
                  = 1..(sessions[i].next_sequence - 1)

\* Nothing of a stream is evaluated after the chunk that was denied or after its
\* finish, even once the session has been pruned.
NothingAfterTheEnd ==
    \A i \in 1..created : \A c, d \in EvaluatedOn(i) :
        (calls[c].op = "finish" \/ calls[c].outcome \in Stopping) =>
            calls[d].sequence <= calls[c].sequence

\* The steps in which stream i evaluates.
Evaluates(i) == /\ i \in DOMAIN sessions /\ i \in DOMAIN sessions'
                /\ sessions'[i].next_sequence > sessions[i].next_sequence

\* Although push reads the active profile before it takes the registry's lock, a
\* stream is only ever evaluated under the profile that is active at that very
\* moment: not under one superseded, rolled back or revoked in between.  (Only
\* while clearing a stream does not fail.)
EvaluatedUnderActive ==
    [][\A i \in 1..created :
          Evaluates(i) =>
              LET active == profiles[<<sessions[i].org, sessions[i].profile>>].active
              IN  active # None /\ active.digest = sessions[i].digest]_vars

\* A stream idle for IDLE_TTL is never evaluated again.
IdleNotEvaluated ==
    [][\A i \in 1..created :
          Evaluates(i) => sessions'[i].last_seen - sessions[i].last_seen < IdleTtl]_vars

\* Every handler that began ends: it answers, or raises.
HandlersEnd == \A c \in Calls : calls[c].pc \in Running ~> calls[c].pc = "done"

\* test_streaming.py, "profile change expires open stream": an open stream
\* belongs to the active profile.
OpenOnActiveProfile ==
    \A i \in DOMAIN sessions :
        LET active == profiles[<<sessions[i].org, sessions[i].profile>>].active IN
        IsOpen(sessions[i]) => active # None /\ active.digest = sessions[i].digest
=============================================================================

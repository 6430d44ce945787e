------------------------------ MODULE Identity ------------------------------
(***************************************************************************)
(* The identity verifier of common/identity.py that all three services     *)
(* share: IdentityVerifier.verify checks a bearer token against the issuer *)
(* registry and binds the token's identity, the pair of its issuer and jti,*)
(* to the subject it names, in a TokenIdentityTracker that keeps the       *)
(* TrackerSize identities used last.                                       *)
(*                                                                         *)
(* A token is the record of what its parts say; whether it can be decoded, *)
(* and whether its signature verifies under the key it names, are fields.  *)
(***************************************************************************)
EXTENDS FiniteSets, Lru

CONSTANTS
    Registry,       \* issuer -> IssuerConfig
    Tokens,         \* the bearer tokens callers may present
    TrackerSize,    \* maximum_entries
    None            \* "no token", "nobody"

\* load_registry: keys gives the algorithm of each key id.
IssuerConfig(config) ==
    /\ config.skew \in 0..120
    /\ config.lifetime \in 60..3600
    /\ \A kid \in DOMAIN config.keys : config.keys[kid] \in config.algorithms

Token ==
    [decodes: BOOLEAN, iss: STRING, claims: BOOLEAN, alg: STRING, kid: STRING,
     signed: BOOLEAN, aud: SUBSET STRING, named: BOOLEAN, sub: STRING, jti: STRING,
     tenant: STRING, iat: Int, nbf: Int, exp: Int]

ASSUME RegistryAssumption == \A iss \in DOMAIN Registry : IssuerConfig(Registry[iss])
ASSUME TokensAssumption == IsFiniteSet(Tokens)
ASSUME TrackerSizeAssumption == TrackerSize \in Nat \ {0}
ASSUME NoneAssumption == None \notin Tokens

VARIABLES
    tracker,    \* TokenIdentityTracker._items, least recently used first
    owner,      \* history: whom each identity was last bound to
    since       \* history: the identities bound after each one's last binding

identityVars == <<tracker, owner, since>>

\* token_identity_digest, and what the tracker binds it to.
Digest(token) == <<token.iss, token.jti>>

Subject(token) == <<Registry[token.iss].organization, token.sub>>

Digests == {Digest(token) : token \in Tokens}

-----------------------------------------------------------------------------
\* The signed instants, checked against the issuer's skew and lifetime.
TimeVerdict(token, now) ==
    LET config == Registry[token.iss]
        skew == config.skew
    IN  IF token.iat < 0 \/ token.nbf < 0 \/ token.exp < 0 THEN "TOKEN_MALFORMED"
        ELSE IF token.iat > now + skew \/ token.nbf > now + skew THEN "TOKEN_NOT_YET_VALID"
        ELSE IF token.exp <= now - skew THEN "TOKEN_EXPIRED"
        ELSE IF \/ token.exp <= token.iat
                \/ token.nbf < token.iat - skew
                \/ token.exp - token.iat > config.lifetime
        THEN "TOKEN_LIFETIME_INVALID"
        ELSE "ADMITTED"

\* verify up to the tracker: the first check that fails decides.
TokenVerdict(token, now) ==
    LET config == Registry[token.iss] IN
    IF ~token.decodes THEN "TOKEN_MALFORMED"
    ELSE IF token.iss \notin DOMAIN Registry THEN "ISSUER_UNKNOWN"
    ELSE IF ~token.claims THEN "TOKEN_MALFORMED"
    ELSE IF token.alg \notin config.algorithms THEN "ALGORITHM_DENIED"
    ELSE IF token.kid \notin DOMAIN config.keys THEN "SIGNER_UNKNOWN"
    ELSE IF config.keys[token.kid] # token.alg THEN "ALGORITHM_DENIED"
    ELSE IF ~token.signed THEN "SIGNATURE_INVALID"
    ELSE IF token.aud \cap config.audiences = {} THEN "AUDIENCE_MISMATCH"
    ELSE IF ~token.named THEN "TOKEN_MALFORMED"
    ELSE IF token.tenant # config.tenant_value THEN "TENANT_MISMATCH"
    ELSE TimeVerdict(token, now)

Verdict(token, now) ==
    IF /\ TokenVerdict(token, now) = "ADMITTED"
       /\ Lookup(tracker, Digest(token), None) \notin {None, Subject(token)}
    THEN "TOKEN_IDENTITY_CONFLICT"
    ELSE TokenVerdict(token, now)

\* TokenIdentityTracker.bind of an identity without a conflict.
Bind(token) ==
    LET d == Digest(token) IN
    /\ tracker' = PutBounded(tracker, d, Subject(token), TrackerSize)
    /\ owner' = [owner EXCEPT ![d] = Subject(token)]
    /\ since' = [x \in Digests |-> IF x = d THEN {} ELSE since[x] \cup {d}]

IdentityInit ==
    /\ tracker = <<>>
    /\ owner = [d \in Digests |-> None]
    /\ since = [d \in Digests |-> {}]
-----------------------------------------------------------------------------
\* A token identity changes hands only once the tracker had to forget it: at
\* least TrackerSize other identities were bound since its last use, however
\* often it was used before (an identity in use is not the one forgotten).
IdentityChangesHands ==
    [][\A d \in Digests :
          owner[d] # None /\ owner'[d] # owner[d] =>
              Cardinality(since[d]) >= TrackerSize]_identityVars
=============================================================================

------------------------------ MODULE Documents ------------------------------
(***************************************************************************)
(* The document models (models.py): what canonical.parse accepts as an     *)
(* experiment, an intent, a policy, ...  Every model forbids extra fields  *)
(* and converts no types, so a model is a set of records; where a field is *)
(* a digest or a dictionary, which no set of this module lists, the model  *)
(* is a predicate, and {x.field} stands for "checked on its own".          *)
(*                                                                         *)
(* Labels are strings, nonces and receipt identifiers are numbers, digests *)
(* and signature components are the symbolic values of Crypto.  Fields     *)
(* with one legal value are left out, as everywhere in these modules.      *)
(***************************************************************************)
EXTENDS Results

CONSTANTS
    MAX_INTEGER,    \* the largest integer of a document: 2^53 - 1
    MAX_SEED        \* the largest seed: 2^32 - 1

Identifier == STRING
Nonce == Nat
Time == 0 .. MAX_INTEGER
Disposition == {"ALLOW", "DENY", "HUMAN_VERIFY", "UNKNOWN", "ERROR"}

(* models.Hash, dict[str, str], and a list of 1 to limit elements.         *)
is_hash(h) == DOMAIN h = {"domain", "value"}
is_dict(d) == DOMAIN d \subseteq STRING
list(S, limit) == {s \in Seq(S) : Len(s) \in 1 .. limit}

-----------------------------------------------------------------------------
(* Whether the qubits of a gate exist is for the policy to decide.         *)
Gate    == [op : {"H", "X", "Z", "CX"}, qubits : list(Int, 2)]
AerGate == [op : {"H", "X", "Z", "CX", "T"}, qubits : list(Int, 2)]

Experiment ==
    [schema_version : {1}, backend : {BUILTIN}, qubits : 1 .. 8,
     gates : list(Gate, 256), shots : 1 .. 4096, seed : 0 .. MAX_SEED]

AerExperiment ==
    [schema_version : {2}, backend : {AER_CPU, AER_GPU}, qubits : 1 .. 26,
     gates : list(AerGate, 2048), shots : 1 .. 4096, seed : 0 .. MAX_SEED]

Context   == [environment : Identifier, project : Identifier]
PolicyRef == [id : Identifier, version : Nat \ {0}]

Parameters(p) ==
    /\ p \in [experiment : Experiment \cup AerExperiment,
              frozen_digest : {p.frozen_digest}]
    /\ is_hash(p.frozen_digest)

Intent(i) ==
    /\ i \in [subject : Identifier, target : Identifier,
              audience : Identifier, parameters : {i.parameters},
              context : Context, nonce : Nonce, created_at : Time,
              expires_at : Time, policy : PolicyRef, required_suite : Suites]
    /\ Parameters(i.parameters)

SignedIntent(r) ==
    /\ DOMAIN r = {"intent", "signatures"}
    /\ Intent(r.intent)
    /\ is_dict(r.signatures)

-----------------------------------------------------------------------------
(* models.Policy and models.AerPolicy, told apart by schema_version, and    *)
(* the fields they share.                                                  *)
PolicyFields(subjects, qubits) ==
    [schema_version : {1, 2}, reference : PolicyRef, suite : Suites,
     audience : Identifier, target : Identifier, context : Context,
     subjects : {subjects}, verifier_ids : list(Identifier, 16),
     quorum : 1 .. 16, max_qubits : 1 .. qubits, max_shots : 1 .. 4096,
     human_above_shots : 1 .. 4096, max_intent_ttl : 1 .. 3600,
     receipt_ttl : 1 .. 600]

Policy(p) ==
    LET aer == p.schema_version = 2 IN
    /\ "backend" \in DOMAIN p <=> aer
    /\ aer => p.backend \in {AER_CPU, AER_GPU}
    /\ [f \in DOMAIN p \ {"backend"} |-> p[f]] \in
          PolicyFields(p.subjects, IF aer THEN 26 ELSE 8)
    /\ p.subjects \subseteq Identifier
    /\ Cardinality(p.subjects) \in 1 .. 32

TrustBundle(t) ==
    /\ DOMAIN t = {"policy", "verifiers", "requesters", "executor_id",
                   "executor_keys"}
    /\ Policy(t.policy)
    /\ \A owners \in {t.verifiers, t.requesters} :
          is_dict(owners) /\ \A i \in DOMAIN owners : is_dict(owners[i])
    /\ t.executor_id \in Identifier
    /\ is_dict(t.executor_keys)

KeyFile(k) ==
    /\ k \in [identity : Identifier, suite : Suites,
              private_keys : {k.private_keys}]
    /\ is_dict(k.private_keys)

-----------------------------------------------------------------------------
Header(h) ==
    /\ h \in [action_digest : {h.action_digest}, policy : PolicyRef,
              policy_digest : {h.policy_digest}, suite : Suites,
              audience : Identifier, verifier_set : list(Identifier, 16),
              quorum : 1 .. 16, issued_at : Time, expires_at : Time,
              receipt_id : Nonce]
    /\ is_hash(h.action_digest) /\ is_hash(h.policy_digest)

AttestationBody(b) ==
    /\ b \in [header : {b.header}, verifier_id : Identifier,
              disposition : Disposition, predicates : {b.predicates}]
    /\ Header(b.header)
    /\ is_dict(b.predicates) /\ Range(b.predicates) \subseteq BOOLEAN

Attestation(a) ==
    /\ DOMAIN a = {"body", "signatures"}
    /\ AttestationBody(a.body)
    /\ is_dict(a.signatures)

Receipt(r) ==
    /\ r \in [header : {r.header}, disposition : Disposition,
              attestations : {r.attestations}]
    /\ Header(r.header)
    /\ Len(r.attestations) <= 16
    /\ \A i \in DOMAIN r.attestations : Attestation(r.attestations[i])

ResultBody(b) ==
    /\ b \in [executor_id : Identifier, suite : Suites, audience : Identifier,
              action_digest : {b.action_digest},
              frozen_digest : {b.frozen_digest},
              receipt_digest : {b.receipt_digest}, receipt_id : Nonce,
              backend : {BUILTIN, AER_CPU, AER_GPU}, executed_at : Time,
              counts : {b.counts}]
    /\ \A h \in {b.action_digest, b.frozen_digest, b.receipt_digest} :
          is_hash(h)
    /\ Range(b.counts) \subseteq Int

ResultRecord(r) ==
    /\ DOMAIN r = {"body", "signatures"}
    /\ ResultBody(r.body)
    /\ is_dict(r.signatures)

=============================================================================

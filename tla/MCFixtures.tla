----------------------------- MODULE MCFixtures -----------------------------
(* The gateway of the model checking runs: three verifiers, one requester, *)
(* a hybrid suite, and bundles that the trust file may hold.               *)
EXTENDS Protocol, TLC

MCVerifiers == <<"verifier-1", "verifier-2", "verifier-3">>

MCSuite == "ed25519-mldsa65-v1"

keys(identity) == ("ed25519" :> identity) @@ ("ml-dsa-65" :> identity)

(* Nothing is signed twice.                                                *)
MCDraws == [intent |-> {0}, attestation |-> {0}, result |-> {0}]

key_file(identity) == [identity |-> identity, suite |-> MCSuite,
                       private_keys |-> keys(identity)]

MCPolicy(quorum) ==
    [schema_version |-> 1, reference |-> [id |-> "quantum-local", version |-> 1],
     suite |-> MCSuite, audience |-> "lab-executor",
     target |-> "simulator:local",
     context |-> [environment |-> "local", project |-> "bell-study"],
     subjects |-> {"scientist"}, verifier_ids |-> MCVerifiers,
     quorum |-> quorum, max_qubits |-> 2, max_shots |-> 4,
     human_above_shots |-> 2, max_intent_ttl |-> 4, receipt_ttl |-> 2]

MCBundle(quorum) ==
    [policy        |-> MCPolicy(quorum),
     verifiers     |-> ("verifier-1" :> keys("verifier-1"))
                       @@ ("verifier-2" :> keys("verifier-2"))
                       @@ ("verifier-3" :> keys("verifier-3")),
     requesters    |-> "scientist" :> keys("scientist"),
     executor_id   |-> "executor",
     executor_keys |-> keys("executor")]

(* The bundles differ in the quorum or in a limit of the policy, whose     *)
(* reference stays the same, or in the public key of one verifier.         *)
Bundles ==
    ("two of three" :> MCBundle(2))
    @@ ("three of three" :> MCBundle(3))
    @@ ("no review" :> [MCBundle(2) EXCEPT !.policy.human_above_shots = 3])
    @@ ("new key" :> [MCBundle(2) EXCEPT
                         !.verifiers["verifier-3"] = keys("verifier-3-new")])

bell(shots) ==
    [schema_version |-> 1, backend |-> BUILTIN, qubits |-> 2, shots |-> shots,
     gates |-> <<[op |-> "H", qubits |-> <<0>>],
                 [op |-> "CX", qubits |-> <<0, 1>>]>>,
     seed |-> 7]

intent(nonce, created, expires, shots) ==
    [subject |-> "scientist", target |-> "simulator:local",
     audience |-> "lab-executor",
     parameters |-> [experiment |-> bell(shots),
                     frozen_digest |-> digest("experiment", bell(shots))],
     context |-> [environment |-> "local", project |-> "bell-study"],
     nonce |-> nonce, created_at |-> created, expires_at |-> expires,
     policy |-> [id |-> "quantum-local", version |-> 1],
     required_suite |-> MCSuite]

(* The one element of a set.  Binding a large value to a variable keeps    *)
(* TLC from unfolding its definition wherever it is used.                  *)
only(S) == CHOOSE x \in S : TRUE

(* f, in the form that TLC computes once instead of at every application.  *)
computed(f) == only({g @@ g : g \in {f}})

signed(request) ==
    [intent |-> request,
     signatures |->
        computed(sign(MCSuite, keys("scientist"),
                      message("intent", MCSuite, "scientist", request),
                      any_draw("intent")))]

Signed == [a      |-> signed(intent("a", 0, 4, 2)),
           b      |-> signed(intent("b", 1, 3, 2)),
           review |-> signed(intent("c", 0, 4, 3)),
           brief  |-> signed(intent("d", 0, 1, 2))]

=============================================================================

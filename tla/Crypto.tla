------------------------------- MODULE Crypto -------------------------------
(***************************************************************************)
(* Suites, digests and signatures (crypto.py, canonical.digest).           *)
(*                                                                         *)
(* The primitives are symbolic.  A private key and its public key are one  *)
(* token, a signature component is the record of the token that made it,   *)
(* of the bytes it covers and of what it drew at random, and a digest is   *)
(* the value it was taken of, tagged with its domain.  What the code       *)
(* builds on top of the primitives is kept: the exact component set a      *)
(* suite demands, the order in which mismatches are reported, and the      *)
(* domain, suite and signer every signed message is bound to.              *)
(***************************************************************************)
EXTENDS Errors

CONSTANT Draws  \* Draws[domain]: what a signature of a message of that
                \* domain may draw at random

ASSUME DrawsAssumption ==
    \A domain \in {"intent", "attestation", "result"} : Draws[domain] # {}

Suites == {"ed25519-v1", "mldsa65-v1", "ed25519-mldsa65-v1"}

(* crypto.components: the algorithms that must all be present.             *)
components(suite) ==
    CASE suite = "ed25519-v1"         -> {"ed25519"}
      [] suite = "mldsa65-v1"         -> {"ml-dsa-65"}
      [] suite = "ed25519-mldsa65-v1" -> {"ed25519", "ml-dsa-65"}

(* canonical.digest: SHA-384 of the domain and the canonical bytes.        *)
digest(domain, value) == [domain |-> domain, value |-> value]

(* crypto.message: the bytes a signature covers.                           *)
message(domain, suite, identity, body) ==
    [domain |-> domain, suite |-> suite, signer |-> identity, body |-> body]

(* crypto.sign: one component per algorithm of the suite.  The code        *)
(* refuses (KEY_COMPONENTS) a key file with another component set.         *)
(* Ed25519 gives one signature for one message; ML-DSA draws random bytes  *)
(* each time, so a message signed twice has two signatures.                *)
sign(suite, private, data, draw) ==
    [algorithm \in components(suite) |->
        [key |-> private[algorithm], data |-> data,
         drawn |-> IF algorithm = "ml-dsa-65" THEN {draw} ELSE {}]]

(* Some draw, where a signature is made only to see that it verifies.      *)
any_draw(domain) == CHOOSE draw \in Draws[domain] : TRUE

check_private(suite, private) ==
    require(DOMAIN private = components(suite), "KEY_COMPONENTS")

(* crypto.check_public                                                     *)
check_public(suite, public) ==
    require(DOMAIN public = components(suite), "KEY_COMPONENTS")

(* The verification of one component, which its draw does not enter.       *)
made_by(component, key, data) == component.key = key /\ component.data = data

(* crypto.verify: every required component and no other, each made by the  *)
(* expected key over exactly these bytes.                                  *)
verify(suite, public, signatures, data) ==
    require(DOMAIN signatures = components(suite), "SIGNATURE_COMPONENTS")
    ?? require(DOMAIN public = components(suite), "KEY_COMPONENTS")
    ?? require(\A algorithm \in components(suite) :
                   made_by(signatures[algorithm], public[algorithm], data),
               "SIGNATURE_INVALID")

=============================================================================

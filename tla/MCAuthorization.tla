-------------------------- MODULE MCAuthorization --------------------------
(* Three nodes on two threads, a request that the policy allows, one that  *)
(* it allows and that expires after a second and one that wants review,    *)
(* three bundles that follow each other in trust.json, a new key for one   *)
(* verifier, and a key file that ends up with another.                     *)
EXTENDS Authorization, MCFixtures

Requests == [a |-> Signed.a, brief |-> Signed.brief, review |-> Signed.review]

Keys == [k1 |-> key_file("verifier-1"), k2 |-> key_file("verifier-2"),
         k3 |-> key_file("verifier-3"),
         new |-> [key_file("verifier-3")
                     EXCEPT !.private_keys = keys("verifier-3-new")]]

MCRequestName == {"brief", "review"}
MCAllowed     == {"a"}
MCPolicies    == {"two of three", "three of three", "no review"}
MCNewKey      == {"two of three", "new key"}
MCOneTrust    == {"two of three"}
MCKeyFile     == DOMAIN Keys
MCProvisioned == ("verifier-1" :> "k1") @@ ("verifier-2" :> "k2")
                 @@ ("verifier-3" :> "k3")
MCKeyChange   == {<<"verifier-3", "new">>, <<"verifier-2", "k1">>}
MCNoChange    == {}

(* TLC evaluates the right-hand side of a constant wherever the constant   *)
(* occurs, but a definition only once.                                     *)
MCRequest == Requests
MCTrust   == Bundles
MCKey     == Keys

=============================================================================

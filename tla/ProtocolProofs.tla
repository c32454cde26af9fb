--------------------------- MODULE ProtocolProofs ---------------------------
(***************************************************************************)
(* Facts about the checks of the receipt protocol, for every policy,       *)
(* request, receipt and trust bundle.  What is checked once holds until    *)
(* the receipt expires; a receipt that passes the inspection names a       *)
(* different verifier for every vote; and votes that all agree give the    *)
(* receipt their own disposition.                                          *)
(***************************************************************************)
EXTENDS Protocol, FiniteSetTheorems, WellFoundedInduction, TLAPS

(* A chain of checks passes when both of its parts do.                     *)
LEMMA ChainPasses ==
    ASSUME NEW first, NEW second
    PROVE  (first ?? second) = OK <=> first = OK /\ second = OK
BY DEF ??

LEMMA RequirePasses ==
    ASSUME NEW condition, NEW code, code # OK
    PROVE  require(condition, code) = OK <=> condition
BY DEF require

(* What a set of signature components must show, and that it suffices.     *)
LEMMA VerifyPasses ==
    ASSUME NEW suite, NEW public, NEW signatures, NEW data
    PROVE  verify(suite, public, signatures, data) = OK
           <=> /\ DOMAIN signatures = components(suite)
               /\ DOMAIN public = components(suite)
               /\ \A algorithm \in components(suite) :
                     made_by(signatures[algorithm], public[algorithm], data)
<1> DEFINE matches == \A algorithm \in components(suite) :
                         made_by(signatures[algorithm], public[algorithm],
                                 data)
<1>1. require(matches, "SIGNATURE_INVALID") = OK <=> matches
  <2> HIDE DEF matches
  <2> QED BY RequirePasses DEF OK
<1>2. /\ require(DOMAIN signatures = components(suite), "SIGNATURE_COMPONENTS")
            = OK <=> DOMAIN signatures = components(suite)
      /\ require(DOMAIN public = components(suite), "KEY_COMPONENTS") = OK
            <=> DOMAIN public = components(suite)
  BY DEF require, OK
<1> DEFINE signed == require(DOMAIN signatures = components(suite),
                             "SIGNATURE_COMPONENTS")
           held   == require(DOMAIN public = components(suite),
                             "KEY_COMPONENTS")
           made   == require(matches, "SIGNATURE_INVALID")
<1>3. verify(suite, public, signatures, data) = ((signed ?? held) ?? made)
  BY Zenon DEF verify
<1>4. ((signed ?? held) ?? made) = OK
         <=> signed = OK /\ held = OK /\ made = OK
  <2> HIDE DEF signed, held, made
  <2>1. ((signed ?? held) ?? made) = OK <=> (signed ?? held) = OK /\ made = OK
    BY ONLY ChainPasses
  <2> QED BY ONLY <2>1, ChainPasses
<1> HIDE DEF signed, held, made
<1> QED BY <1>1, <1>2, <1>3, <1>4, Zenon DEF signed, held, made

(* A nonempty set of naturals has a smallest element.                      *)
LEMMA SmallestNumber ==
    ASSUME NEW S \in SUBSET Nat, S # {}
    PROVE  \E i \in S : \A j \in S : i <= j
<1>1. PICK i \in S : \A j \in S : ~ (<<j, i>> \in OpToRel(<, Nat))
  BY NatLessThanWellFounded, WFMin
<1>2. \A j \in S : ~ (j < i)
  BY <1>1 DEF OpToRel
<1> QED BY <1>2

-----------------------------------------------------------------------------
(* A header issued for a valid request passes in the second it is issued.  *)
LEMMA NewHeaderPasses ==
    ASSUME NEW request, NEW t, NEW time \in Nat, NEW id,
           request.intent.created_at \in Nat,
           request.intent.expires_at \in Nat,
           t.policy.receipt_ttl \in Nat \ {0},
           validate_request(request, t, time) = OK
    PROVE  LET header == new_header(request, t, time, id) IN
           /\ validate_header(header, request, t, time) = OK
           /\ header.issued_at = time
           /\ header.expires_at \in Nat /\ time < header.expires_at
<1> DEFINE header == new_header(request, t, time, id)
<1>1. /\ request.intent.created_at <= time
      /\ time < request.intent.expires_at
  BY ChainPasses DEF validate_request, require, OK
<1>2. /\ header.suite = t.policy.suite
      /\ header.policy = t.policy.reference
      /\ header.policy_digest = digest("policy", t.policy)
      /\ header.action_digest = digest("intent", request.intent)
      /\ header.audience = t.policy.audience
      /\ header.verifier_set = t.policy.verifier_ids
      /\ header.quorum = t.policy.quorum
      /\ header.issued_at = time
      /\ header.expires_at = smaller(request.intent.expires_at,
                                     time + t.policy.receipt_ttl)
  BY DEF new_header
<1>3. /\ header.expires_at \in Nat
      /\ time < header.expires_at
      /\ header.expires_at <= request.intent.expires_at
      /\ 0 < header.expires_at - header.issued_at
      /\ header.expires_at - header.issued_at <= t.policy.receipt_ttl
  BY <1>1, <1>2 DEF smaller
<1> HIDE DEF header
<1>4. validate_header(header, request, t, time) = OK
  BY <1>1, <1>2, <1>3, ChainPasses DEF validate_header, require
<1> QED BY <1>2, <1>3, <1>4 DEF header

(* A request that was valid stays valid until it expires.                  *)
LEMMA RequestUntilExpiry ==
    ASSUME NEW request, NEW t, NEW early \in Nat, NEW late \in Nat,
           early <= late,
           request.intent.created_at \in Nat,
           request.intent.expires_at \in Nat,
           validate_request(request, t, early) = OK,
           late < request.intent.expires_at
    PROVE  validate_request(request, t, late) = OK
BY ChainPasses DEF validate_request, require, OK

(* So does the header of a receipt.                                        *)
LEMMA HeaderUntilExpiry ==
    ASSUME NEW header, NEW request, NEW t, NEW early \in Nat, NEW late \in Nat,
           early <= late,
           request.intent.created_at \in Nat,
           request.intent.expires_at \in Nat,
           header.issued_at \in Nat, header.expires_at \in Nat,
           validate_header(header, request, t, early) = OK,
           late < header.expires_at
    PROVE  validate_header(header, request, t, late) = OK
<1>1. /\ validate_request(request, t, early) = OK
      /\ header.issued_at <= early
      /\ header.expires_at <= request.intent.expires_at
  BY ChainPasses DEF validate_header, require, OK
<1>2. validate_request(request, t, late) = OK
  BY <1>1, RequestUntilExpiry
<1>3. header.issued_at <= late
  BY <1>1
<1> QED BY <1>2, <1>3, ChainPasses DEF validate_header, require, OK

(* No other check of inspect_receipt reads the clock.                      *)
LEMMA InspectionUntilExpiry ==
    ASSUME NEW request, NEW receipt, NEW t,
           NEW early \in Nat, NEW late \in Nat,
           early <= late,
           request.intent.created_at \in Nat,
           request.intent.expires_at \in Nat,
           receipt.header.issued_at \in Nat,
           receipt.header.expires_at \in Nat,
           inspect_receipt(request, receipt, t, early) = OK,
           late < receipt.header.expires_at
    PROVE  inspect_receipt(request, receipt, t, late) = OK
<1>1. validate_header(receipt.header, request, t, early) = OK
  BY ChainPasses DEF inspect_receipt
<1>2. validate_header(receipt.header, request, t, late) = OK
  BY <1>1, HeaderUntilExpiry
<1> QED BY <1>2, ChainPasses DEF inspect_receipt

(* What inspect_receipt has checked when it returns.                       *)
LEMMA InspectionFacts ==
    ASSUME NEW request, NEW receipt, NEW t, NEW time,
           inspect_receipt(request, receipt, t, time) = OK
    PROVE  /\ validate_header(receipt.header, request, t, time) = OK
           /\ inspect_attestations(request, receipt, t) = OK
           /\ receipt.disposition
                 = summarize(receipt.attestations, t.policy.quorum)
<1>1. /\ validate_header(receipt.header, request, t, time) = OK
      /\ inspect_attestations(request, receipt, t) = OK
      /\ require(receipt.disposition
                    = summarize(receipt.attestations, t.policy.quorum),
                 "DISPOSITION_MISMATCH") = OK
  BY ChainPasses DEF inspect_receipt
<1> QED BY <1>1 DEF require, OK

-----------------------------------------------------------------------------
(* When the loop of inspect_receipt finds nothing wrong, every attestation *)
(* passes: the code it reports is that of the first one that does not.     *)
LEMMA AttestationsPass ==
    ASSUME NEW request, NEW receipt, NEW t,
           DOMAIN receipt.attestations \in SUBSET Nat,
           inspect_attestations(request, receipt, t) = OK
    PROVE  \A i \in DOMAIN receipt.attestations :
              inspect_attestation(i, request, receipt, t) = OK
<1> DEFINE failing == {i \in DOMAIN receipt.attestations :
                          inspect_attestation(i, request, receipt, t) # OK}
           first   == CHOOSE i \in failing : \A j \in failing : i <= j
<1>1. ASSUME failing # {} PROVE FALSE
  <2>1. failing \in SUBSET Nat
    OBVIOUS
  <2>2. first \in failing
    <3>1. \E i \in failing : \A j \in failing : i <= j
      <4> HIDE DEF failing
      <4> QED BY <1>1, <2>1, SmallestNumber
    <3> HIDE DEF failing
    <3> QED BY <3>1
  <2>3. inspect_attestations(request, receipt, t)
           = inspect_attestation(first, request, receipt, t)
    BY <1>1 DEF inspect_attestations
  <2> QED BY <2>2, <2>3
<1> QED BY <1>1

(* What passes: a verifier of the bundle that has not voted before, its    *)
(* own signature over its own body under the header of the receipt, and    *)
(* the verdict of the policy.                                              *)
LEMMA AttestationFacts ==
    ASSUME NEW request, NEW receipt, NEW t, NEW i,
           inspect_attestation(i, request, receipt, t) = OK
    PROVE  LET body == receipt.attestations[i].body IN
           /\ \A j \in 1 .. i - 1 :
                 receipt.attestations[j].body.verifier_id # body.verifier_id
           /\ body.verifier_id \in DOMAIN t.verifiers
           /\ body.header = receipt.header
           /\ verify(t.policy.suite, t.verifiers[body.verifier_id],
                     receipt.attestations[i].signatures,
                     message("attestation", t.policy.suite,
                             body.verifier_id, body)) = OK
           /\ body.disposition
                 = evaluate(request.intent, t.policy).disposition
<1> DEFINE body == receipt.attestations[i].body
           seen == {receipt.attestations[j].body.verifier_id : j \in 1 .. i - 1}
           expected  == evaluate(request.intent, t.policy)
           signature == verify(t.policy.suite, t.verifiers[body.verifier_id],
                               receipt.attestations[i].signatures,
                               message("attestation", t.policy.suite,
                                       body.verifier_id, body))
<1> DEFINE fresh == require(body.verifier_id \notin seen, "VERIFIER_DUPLICATE")
           known == require(body.verifier_id \in DOMAIN t.verifiers,
                            "VERIFIER_UNKNOWN")
           about == require(body.header = receipt.header,
                            "ATTESTATION_HEADER_MISMATCH")
           same  == require(body.predicates = expected.predicates,
                            "EVIDENCE_MISMATCH")
           says  == require(body.disposition = expected.disposition,
                            "DECISION_MISMATCH")
<1>1. /\ fresh = OK /\ known = OK /\ about = OK
      /\ signature = OK /\ says = OK
  <2>1. (fresh ?? known ?? about ?? signature ?? same ?? says) = OK
    BY Zenon DEF inspect_attestation
  <2> HIDE DEF fresh, known, about, signature, same, says
  <2>2. says = OK /\ (fresh ?? known ?? about ?? signature ?? same) = OK
    BY ONLY <2>1, ChainPasses
  <2>3. (fresh ?? known ?? about ?? signature) = OK
    BY ONLY <2>2, ChainPasses
  <2>4. signature = OK /\ (fresh ?? known ?? about) = OK
    BY ONLY <2>3, ChainPasses
  <2>5. about = OK /\ (fresh ?? known) = OK
    BY ONLY <2>4, ChainPasses
  <2> QED BY ONLY <2>2, <2>4, <2>5, ChainPasses
<1>2. /\ body.verifier_id \notin seen
      /\ body.verifier_id \in DOMAIN t.verifiers
      /\ body.header = receipt.header
      /\ body.disposition = expected.disposition
  <2> HIDE DEF body, seen, expected, signature
  <2>1. body.verifier_id \notin seen
    BY ONLY <1>1 DEF require, OK
  <2>2. body.verifier_id \in DOMAIN t.verifiers
    BY ONLY <1>1 DEF require, OK
  <2>3. body.header = receipt.header
    BY ONLY <1>1 DEF require, OK
  <2>4. body.disposition = expected.disposition
    BY ONLY <1>1 DEF require, OK
  <2> QED BY <2>1, <2>2, <2>3, <2>4
<1> QED BY <1>1, <1>2

(* The verifiers whose votes say ALLOW, and as many as there are votes.    *)
voters(receipt) ==
    {receipt.attestations[i].body.verifier_id :
        i \in deciding(receipt.attestations, "ALLOW")}

LEMMA VotersAreDistinct ==
    ASSUME NEW request, NEW receipt, NEW t,
           NEW n \in Nat, DOMAIN receipt.attestations = 1 .. n,
           inspect_attestations(request, receipt, t) = OK
    PROVE  /\ IsFiniteSet(voters(receipt))
           /\ Cardinality(voters(receipt))
                 = Cardinality(deciding(receipt.attestations, "ALLOW"))
<1> DEFINE D     == deciding(receipt.attestations, "ALLOW")
           id(i) == receipt.attestations[i].body.verifier_id
           f     == [i \in D |-> id(i)]
<1>1. D \in SUBSET (1 .. n)
  BY DEF deciding
<1>2. IsFiniteSet(D)
  <2>1. IsFiniteSet(1 .. n)
    BY FS_Interval
  <2> HIDE DEF D
  <2> QED BY <1>1, <2>1, FS_Subset
<1>3. \A i, j \in 1 .. n : i < j => id(i) # id(j)
  <2> SUFFICES ASSUME NEW i \in 1 .. n, NEW j \in 1 .. n, i < j
               PROVE  id(i) # id(j)
    OBVIOUS
  <2>1. inspect_attestation(j, request, receipt, t) = OK
    BY AttestationsPass
  <2>2. i \in 1 .. j - 1
    OBVIOUS
  <2> QED BY <2>1, <2>2, AttestationFacts
<1>4. f \in Bijection(D, voters(receipt))
  <2>1. f \in [D -> voters(receipt)]
    BY DEF voters
  <2>2. \A a, b \in D : f[a] = f[b] => a = b
    <3> HIDE DEF D, id
    <3>1. \A a, b \in D : f[a] = f[b] => id(a) = id(b)
      OBVIOUS
    <3>2. \A a, b \in D : a < b \/ b < a \/ a = b
      BY <1>1
    <3> HIDE DEF f
    <3> QED BY <1>1, <1>3, <3>1, <3>2
  <2>3. \A v \in voters(receipt) : \E a \in D : f[a] = v
    BY DEF voters
  <2> HIDE DEF D, f
  <2> QED BY <2>1, <2>2, <2>3 DEF Bijection, Injection, Surjection, IsInjective
<1>5. ExistsBijection(D, voters(receipt))
  BY <1>4 DEF ExistsBijection
<1> HIDE DEF D
<1>6. /\ IsFiniteSet(voters(receipt))
      /\ Cardinality(voters(receipt)) = Cardinality(D)
  BY <1>2, <1>5, FS_Bijection
<1> QED BY <1>6 DEF D

-----------------------------------------------------------------------------
LEMMA VerdictType ==
    ASSUME NEW intent, NEW policy
    PROVE  evaluate(intent, policy).disposition
              \in {"ALLOW", "DENY", "HUMAN_VERIFY"}
BY DEF evaluate, disposition

(* When at least quorum votes are there and all of them agree, summarize   *)
(* neither weakens nor strengthens what they say.                          *)
LEMMA UnanimousVotes ==
    ASSUME NEW attestations, NEW n \in Nat, DOMAIN attestations = 1 .. n,
           NEW quorum \in Nat \ {0}, quorum <= n,
           NEW verdict \in {"ALLOW", "DENY", "HUMAN_VERIFY"},
           \A i \in 1 .. n : attestations[i].body.disposition = verdict
    PROVE  summarize(attestations, quorum) = verdict
<1>1. deciding(attestations, verdict) = 1 .. n
  BY DEF deciding
<1>2. \A other : other # verdict => deciding(attestations, other) = {}
  BY DEF deciding
<1>3. Cardinality(1 .. n) = n /\ 1 .. n # {}
  <2>1. n >= 1 /\ 1 \in 1 .. n /\ 1 \in Int /\ n \in Int
    OBVIOUS
  <2>2. Cardinality(1 .. n) = n - 1 + 1
    BY <2>1, FS_Interval
  <2> QED BY <2>1, <2>2
<1>4. Cardinality({}) = 0
  BY FS_EmptySet
<1>5. CASE verdict = "ALLOW"
  BY <1>1, <1>3, <1>5 DEF summarize
<1>6. CASE verdict # "ALLOW"
  <2>1. deciding(attestations, "ALLOW") = {}
    BY <1>2, <1>6
  <2>2. ~ (0 >= quorum)
    OBVIOUS
  <2>3. ~ (Cardinality(deciding(attestations, "ALLOW")) >= quorum)
    BY <1>4, <2>1, <2>2, Zenon
  <2>4. CASE verdict = "DENY"
    <3>1. deciding(attestations, "DENY") # {}
      BY <1>1, <1>3, <2>4
    <3> QED BY <2>3, <2>4, <3>1, Zenon DEF summarize
  <2>5. CASE verdict = "HUMAN_VERIFY"
    <3>1. /\ deciding(attestations, "DENY") = {}
          /\ deciding(attestations, "HUMAN_VERIFY") # {}
      BY <1>1, <1>2, <1>3, <2>5
    <3> QED BY <2>3, <2>5, <3>1, Zenon DEF summarize
  <2> QED BY <1>6, <2>4, <2>5
<1> QED BY <1>5, <1>6

-----------------------------------------------------------------------------
(* An attestation that passes in one receipt passes in every receipt with  *)
(* the same header in which its verifier has not voted before it.          *)
LEMMA AttestationPassesElsewhere ==
    ASSUME NEW request, NEW t, NEW whole, NEW part, NEW i, NEW k,
           inspect_attestation(i, request, whole, t) = OK,
           part.header = whole.header,
           part.attestations[k] = whole.attestations[i],
           \A j \in 1 .. k - 1 :
              part.attestations[j].body.verifier_id
                 # whole.attestations[i].body.verifier_id
    PROVE  inspect_attestation(k, request, part, t) = OK
<1> DEFINE attestation == whole.attestations[i]
           body        == attestation.body
           before == {whole.attestations[j].body.verifier_id : j \in 1 .. i - 1}
           seen   == {part.attestations[j].body.verifier_id : j \in 1 .. k - 1}
           expected  == evaluate(request.intent, t.policy)
           signature == verify(t.policy.suite, t.verifiers[body.verifier_id],
                               attestation.signatures,
                               message("attestation", t.policy.suite,
                                       body.verifier_id, body))
           once  == require(body.verifier_id \notin before,
                            "VERIFIER_DUPLICATE")
           fresh == require(body.verifier_id \notin seen, "VERIFIER_DUPLICATE")
           known == require(body.verifier_id \in DOMAIN t.verifiers,
                            "VERIFIER_UNKNOWN")
           about == require(body.header = whole.header,
                            "ATTESTATION_HEADER_MISMATCH")
           same  == require(body.predicates = expected.predicates,
                            "EVIDENCE_MISMATCH")
           says  == require(body.disposition = expected.disposition,
                            "DECISION_MISMATCH")
<1>1. (once ?? known ?? about ?? signature ?? same ?? says) = OK
  BY Zenon DEF inspect_attestation
<1>2. fresh = OK
  BY DEF require
<1>3. inspect_attestation(k, request, part, t)
         = (fresh ?? known ?? about ?? signature ?? same ?? says)
  BY Zenon DEF inspect_attestation
<1>4. (fresh ?? known ?? about ?? signature ?? same ?? says) = OK
  <2> HIDE DEF once, fresh, known, about, signature, same, says
  <2>1. says = OK /\ (once ?? known ?? about ?? signature ?? same) = OK
    BY ONLY <1>1, ChainPasses
  <2>2. same = OK /\ (once ?? known ?? about ?? signature) = OK
    BY ONLY <2>1, ChainPasses
  <2>3. signature = OK /\ (once ?? known ?? about) = OK
    BY ONLY <2>2, ChainPasses
  <2>4. about = OK /\ known = OK
    BY ONLY <2>3, ChainPasses
  <2>5. (fresh ?? known ?? about) = OK
    BY ONLY <1>2, <2>4, ChainPasses
  <2>6. (fresh ?? known ?? about ?? signature) = OK
    BY ONLY <2>3, <2>5, ChainPasses
  <2>7. (fresh ?? known ?? about ?? signature ?? same) = OK
    BY ONLY <2>2, <2>6, ChainPasses
  <2> QED BY ONLY <2>1, <2>7, ChainPasses
<1> QED BY <1>3, <1>4

(* Any selection of the votes of a receipt that passes the inspection, in  *)
(* any order, passes it as well, as long as it still meets the quorum: the *)
(* other votes are surplus.                                                *)
LEMMA SelectionPasses ==
    ASSUME NEW request, NEW t, NEW time, NEW header, NEW decision, NEW all,
           NEW n \in Nat, DOMAIN all = 1 .. n, NEW m \in Nat,
           NEW order \in [1 .. m -> 1 .. n], IsInjective(order),
           t.policy.quorum \in Nat \ {0},
           t.policy.quorum <= m, t.policy.quorum <= n,
           inspect_receipt(request,
               [header |-> header, disposition |-> decision,
                attestations |-> all], t, time) = OK
    PROVE  inspect_receipt(request,
               [header |-> header, disposition |-> decision,
                attestations |-> [k \in 1 .. m |-> all[order[k]]]], t, time)
              = OK
<1> DEFINE selected == [k \in 1 .. m |-> all[order[k]]]
           whole == [header |-> header, disposition |-> decision,
                     attestations |-> all]
           part  == [header |-> header, disposition |-> decision,
                     attestations |-> selected]
           quorum  == t.policy.quorum
           verdict == evaluate(request.intent, t.policy).disposition
<1>1. /\ validate_header(header, request, t, time) = OK
      /\ inspect_attestations(request, whole, t) = OK
      /\ decision = summarize(all, quorum)
  <2>1. /\ whole.header = header /\ whole.disposition = decision
        /\ whole.attestations = all
    OBVIOUS
  <2> HIDE DEF whole
  <2>2. inspect_receipt(request, whole, t, time) = OK
    BY DEF whole
  <2> QED BY <2>1, <2>2, InspectionFacts
<1>2. \A i \in 1 .. n : inspect_attestation(i, request, whole, t) = OK
  <2>1. DOMAIN whole.attestations = 1 .. n /\ 1 .. n \in SUBSET Nat
    OBVIOUS
  <2> HIDE DEF whole
  <2> QED BY <1>1, <2>1, AttestationsPass
<1>3. \A i \in 1 .. n :
         /\ all[i].body.disposition = verdict
         /\ \A j \in 1 .. i - 1 :
               all[j].body.verifier_id # all[i].body.verifier_id
  <2> SUFFICES ASSUME NEW i \in 1 .. n
               PROVE  /\ all[i].body.disposition = verdict
                      /\ \A j \in 1 .. i - 1 :
                            all[j].body.verifier_id # all[i].body.verifier_id
    OBVIOUS
  <2>1. whole.attestations = all
    OBVIOUS
  <2>2. inspect_attestation(i, request, whole, t) = OK
    BY <1>2
  <2> HIDE DEF whole, verdict
  <2>3. /\ whole.attestations[i].body.disposition = verdict
        /\ \A j \in 1 .. i - 1 :
              whole.attestations[j].body.verifier_id
                 # whole.attestations[i].body.verifier_id
    BY <2>2, AttestationFacts DEF verdict
  <2> QED BY <2>1, <2>3
<1>4. \A i, j \in 1 .. n :
         i # j => all[i].body.verifier_id # all[j].body.verifier_id
  <2> SUFFICES ASSUME NEW i \in 1 .. n, NEW j \in 1 .. n, i < j
               PROVE  all[i].body.verifier_id # all[j].body.verifier_id
    OBVIOUS
  <2>1. i \in 1 .. j - 1
    OBVIOUS
  <2> QED BY <1>3, <2>1
<1>5. \A k \in 1 .. m : inspect_attestation(k, request, part, t) = OK
  <2> SUFFICES ASSUME NEW k \in 1 .. m
               PROVE  inspect_attestation(k, request, part, t) = OK
    OBVIOUS
  <2>1. order[k] \in 1 .. n
    OBVIOUS
  <2>2. \A j \in 1 .. k - 1 :
           selected[j].body.verifier_id # all[order[k]].body.verifier_id
    <3> SUFFICES ASSUME NEW j \in 1 .. k - 1
                 PROVE  selected[j].body.verifier_id
                           # all[order[k]].body.verifier_id
      OBVIOUS
    <3>1. j \in 1 .. m /\ j # k /\ selected[j] = all[order[j]]
      OBVIOUS
    <3>2. order[j] # order[k]
      BY <3>1 DEF IsInjective
    <3> QED BY <1>4, <2>1, <3>1, <3>2
  <2>3. /\ part.header = whole.header
        /\ part.attestations = selected
        /\ whole.attestations = all
        /\ selected[k] = all[order[k]]
    OBVIOUS
  <2>4. inspect_attestation(order[k], request, whole, t) = OK
    BY <1>2, <2>1
  <2> HIDE DEF part, whole, selected
  <2>5. \A j \in 1 .. k - 1 :
           part.attestations[j].body.verifier_id
              # whole.attestations[order[k]].body.verifier_id
    BY <2>2, <2>3
  <2>6. /\ part.header = whole.header
        /\ part.attestations[k] = whole.attestations[order[k]]
    BY <2>3
  <2> QED BY ONLY <2>4, <2>5, <2>6, AttestationPassesElsewhere, Zenon
<1>6. inspect_attestations(request, part, t) = OK
  <2>1. DOMAIN part.attestations = 1 .. m
    OBVIOUS
  <2> HIDE DEF part
  <2>2. {i \in DOMAIN part.attestations :
            inspect_attestation(i, request, part, t) # OK} = {}
    BY ONLY <1>5, <2>1
  <2> QED BY ONLY <2>2, Zenon DEF inspect_attestations
<1>7. summarize(selected, quorum) = summarize(all, quorum)
  <2>1. verdict \in {"ALLOW", "DENY", "HUMAN_VERIFY"}
    BY VerdictType
  <2>2. /\ DOMAIN selected = 1 .. m
        /\ \A k \in 1 .. m : selected[k].body.disposition = verdict
        /\ \A i \in 1 .. n : all[i].body.disposition = verdict
    BY <1>3
  <2> HIDE DEF selected, verdict, quorum
  <2>3. /\ quorum \in Nat \ {0} /\ quorum <= m /\ quorum <= n
        /\ m \in Nat /\ n \in Nat /\ DOMAIN all = 1 .. n
    BY DEF quorum
  <2>4. summarize(selected, quorum) = verdict
    BY ONLY <2>1, <2>2, <2>3, UnanimousVotes
  <2>5. summarize(all, quorum) = verdict
    BY ONLY <2>1, <2>2, <2>3, UnanimousVotes
  <2> QED BY <2>4, <2>5
<1>8. inspect_receipt(request, part, t, time) = OK
  <2>1. /\ part.header = header /\ part.disposition = decision
        /\ part.attestations = selected
    OBVIOUS
  <2> HIDE DEF part, selected
  <2>2. require(part.disposition
                   = summarize(part.attestations, t.policy.quorum),
                "DISPOSITION_MISMATCH") = OK
    BY <1>1, <1>7, <2>1, RequirePasses DEF OK
  <2> QED BY <1>1, <1>6, <2>1, <2>2, ChainPasses DEF inspect_receipt
<1> QED BY <1>8

-----------------------------------------------------------------------------
(* When assemble() knows the verifiers of the votes, it sorts the votes:   *)
(* each vote gets a place of its own in the receipt, and the places are    *)
(* in the order of the verifiers, in whichever order the votes arrived.    *)
THEOREM VotesSorted ==
    ASSUME NEW votes, NEW n \in Nat, DOMAIN votes = 1 .. n,
           \A i \in 1 .. n : \E k \in DOMAIN VerifierOrder :
               VerifierOrder[k] = votes[i].body.verifier_id
    PROVE  \E vote \in Bijection(1 .. n, 1 .. n) :
              /\ by_verifier(votes) = [m \in 1 .. n |-> votes[vote[m]]]
              /\ \A a, b \in 1 .. n : \A k, l \in DOMAIN VerifierOrder :
                    /\ a < b
                    /\ VerifierOrder[k] = votes[vote[a]].body.verifier_id
                    /\ VerifierOrder[l] = votes[vote[b]].body.verifier_id
                    => k <= l
<1> DEFINE rank(i) == CHOOSE k \in DOMAIN VerifierOrder :
                          VerifierOrder[k] = votes[i].body.verifier_id
           upto(i) == {j \in DOMAIN votes : \/ rank(j) < rank(i)
                                            \/ rank(j) = rank(i) /\ j <= i}
           S == 1 .. n
           f == [i \in S |-> Cardinality(upto(i))]
           vote == [m \in S |-> CHOOSE i \in S : Cardinality(upto(i)) = m]
<1>1. \A i \in S :
         /\ rank(i) \in Nat
         /\ \A k \in DOMAIN VerifierOrder :
               VerifierOrder[k] = votes[i].body.verifier_id => rank(i) = k
  BY VerifierOrderAssumption
<1>2. by_verifier(votes)
         = [m \in DOMAIN votes |-> votes[CHOOSE i \in DOMAIN votes :
                                            Cardinality(upto(i)) = m]]
  BY Zenon DEF by_verifier
<1> HIDE DEF rank
<1>3. /\ IsFiniteSet(S) /\ Cardinality(S) = n
  BY FS_Interval
<1>4. \A i \in S : upto(i) \subseteq S /\ i \in upto(i)
  BY <1>1
<1>5. \A i, j \in S : i # j => \/ upto(i) \subseteq upto(j) /\ j \notin upto(i)
                               \/ upto(j) \subseteq upto(i) /\ i \notin upto(j)
  <2> SUFFICES ASSUME NEW i \in S, NEW j \in S, i # j
               PROVE  \/ upto(i) \subseteq upto(j) /\ j \notin upto(i)
                      \/ upto(j) \subseteq upto(i) /\ i \notin upto(j)
    OBVIOUS
  <2>1. ASSUME NEW a \in S, NEW b \in S, a # b,
               rank(a) < rank(b) \/ (rank(a) = rank(b) /\ a <= b)
        PROVE  upto(a) \subseteq upto(b) /\ b \notin upto(a)
    <3>1. ASSUME NEW k \in upto(a) PROVE k \in upto(b)
      <4>1. k \in S /\ rank(k) \in Nat /\ rank(a) \in Nat /\ rank(b) \in Nat
        BY <1>1
      <4> QED BY <2>1, <3>1, <4>1
    <3>2. b \notin upto(a)
      <4>1. rank(a) \in Nat /\ rank(b) \in Nat
        BY <1>1
      <4> QED BY <2>1, <4>1
    <3> HIDE DEF upto
    <3> QED BY <3>1, <3>2
  <2>2. \/ rank(i) < rank(j) \/ (rank(i) = rank(j) /\ i <= j)
        \/ rank(j) < rank(i) \/ (rank(j) = rank(i) /\ j <= i)
    BY <1>1
  <2> HIDE DEF upto
  <2> QED BY <2>1, <2>2
<1> HIDE DEF upto
<1>6. \A i \in S : /\ IsFiniteSet(upto(i))
                   /\ Cardinality(upto(i)) \in S
  <2> SUFFICES ASSUME NEW i \in S
               PROVE  IsFiniteSet(upto(i)) /\ Cardinality(upto(i)) \in S
    OBVIOUS
  <2>1. /\ IsFiniteSet(upto(i)) /\ Cardinality(upto(i)) <= Cardinality(S)
    BY <1>3, <1>4, FS_Subset
  <2>2. Cardinality(upto(i)) \in Nat
    BY <2>1, FS_CardinalityType
  <2>3. Cardinality(upto(i)) # 0
    BY <1>4, <2>1, FS_EmptySet
  <2> QED BY <1>3, <2>1, <2>2, <2>3
<1>7. \A i, j \in S : f[i] = f[j] => i = j
  <2> SUFFICES ASSUME NEW i \in S, NEW j \in S, i # j
               PROVE  Cardinality(upto(i)) # Cardinality(upto(j))
    OBVIOUS
  <2>1. ASSUME NEW a \in S, NEW b \in S, upto(a) \subseteq upto(b),
               b \notin upto(a)
        PROVE  Cardinality(upto(a)) # Cardinality(upto(b))
    <3>1. upto(a) # upto(b)
      BY <1>4, <2>1
    <3>2. Cardinality(upto(a)) = Cardinality(upto(b)) => upto(a) = upto(b)
      BY <1>6, <2>1, FS_Subset
    <3> QED BY <3>1, <3>2
  <2> QED BY <1>5, <2>1
<1>8. f \in Injection(S, S)
  BY <1>6, <1>7 DEF Injection, IsInjective
<1>9. f \in Bijection(S, S)
  <2> HIDE DEF f, S
  <2> QED BY <1>3, <1>8, FS_Injection DEF Bijection
<1>10. \A m \in S : \E i \in S : Cardinality(upto(i)) = m
  BY <1>9 DEF Bijection, Surjection
<1>11. \A m \in S : vote[m] \in S /\ f[vote[m]] = m
  BY <1>10
<1>12. vote \in Bijection(S, S)
  <2>1. vote \in [S -> S]
    BY <1>11
  <2> HIDE DEF vote, f
  <2>2. \A a, b \in S : vote[a] = vote[b] => a = b
    BY <1>11
  <2>3. vote \in Injection(S, S)
    BY <2>1, <2>2 DEF Injection, IsInjective
  <2> HIDE DEF S
  <2> QED BY <1>3, <2>3, FS_Injection DEF Bijection
<1>13. by_verifier(votes) = [m \in S |-> votes[vote[m]]]
  BY <1>2
<1>14. ASSUME NEW a \in S, NEW b \in S, a < b
       PROVE  rank(vote[a]) <= rank(vote[b])
  <2>1. /\ vote[a] \in S /\ Cardinality(upto(vote[a])) = a
        /\ vote[b] \in S /\ Cardinality(upto(vote[b])) = b
    BY <1>11
  <2> HIDE DEF vote
  <2> SUFFICES ASSUME rank(vote[b]) < rank(vote[a]) PROVE FALSE
    BY <1>1, <2>1
  <2>2. upto(vote[b]) \subseteq upto(vote[a])
    BY <1>1, <2>1 DEF upto
  <2>3. Cardinality(upto(vote[b])) <= Cardinality(upto(vote[a]))
    BY <1>6, <2>1, <2>2, FS_Subset
  <2> QED BY <1>14, <2>1, <2>3
<1>15. \A m \in S : vote[m] \in S
  BY <1>11
<1> HIDE DEF vote
<1>16. ASSUME NEW a \in S, NEW b \in S, NEW k \in DOMAIN VerifierOrder,
              NEW l \in DOMAIN VerifierOrder, a < b,
              VerifierOrder[k] = votes[vote[a]].body.verifier_id,
              VerifierOrder[l] = votes[vote[b]].body.verifier_id
       PROVE  k <= l
  <2>1. rank(vote[a]) = k /\ rank(vote[b]) = l
    BY <1>1, <1>15, <1>16
  <2> QED BY <1>14, <1>16, <2>1
<1> QED BY <1>12, <1>13, <1>16

=============================================================================

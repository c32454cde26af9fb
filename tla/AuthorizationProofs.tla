------------------------ MODULE AuthorizationProofs ------------------------
(***************************************************************************)
(* What the coordinator returns, for every set of requests, contents of    *)
(* the trust file, key files, verifiers and threads.                       *)
(*                                                                         *)
(* None of the properties mentions a call under way, and none is           *)
(* inductive.  CallInv says what carries them from the start of a call to  *)
(* its end: the header names the policy the coordinator holds by its       *)
(* digest, so a node that has answered had read that very policy.          *)
(***************************************************************************)
EXTENDS Authorization, ProtocolProofs

(* The call under way: what was checked and issued when it began, and what *)
(* the nodes that have answered had read.                                  *)
CallInv ==
    asked # NoRequest =>
        /\ trust_snapshot(trust[held]) = OK
        /\ \E time \in 0 .. now, id \in used :
              issuing = new_header(request_data[asked], trust[held], time, id)
        /\ \A v \in Verifier :
              status[v] = "answered" =>
                  trust[read_trust[v]].policy = trust[held].policy
        /\ HeaderUsable

AuthInv ==
    /\ TypeOK
    /\ CallInv
    /\ ReceiptsUsable
    /\ VerdictIsPolicy
    /\ NoMixedPolicy
    /\ SurplusRemovable

(* The receipts that were returned stay as they are.                       *)
LEMMA ReceiptsKept ==
    ASSUME receipts' = receipts, CallInv',
           ReceiptsUsable, VerdictIsPolicy, NoMixedPolicy, SurplusRemovable
    PROVE  /\ ReceiptsUsable' /\ VerdictIsPolicy'
           /\ NoMixedPolicy' /\ SurplusRemovable'
<1>1. HeaderUsable'
  BY DEF CallInv, HeaderUsable
<1> QED BY <1>1 DEF ReceiptsUsable, VerdictIsPolicy, NoMixedPolicy,
                    SurplusRemovable, selections_pass, passes

-----------------------------------------------------------------------------
(* What trust_snapshot leaves of a bundle.                                 *)
LEMMA SnapshotFacts ==
    ASSUME NEW t \in TrustFile, trust_snapshot(trust[t]) = OK
    PROVE  LET policy == trust[t].policy IN
           /\ policy.verifier_ids \in Seq(Verifier)
           /\ Len(policy.verifier_ids) \in Nat
           /\ DOMAIN policy.verifier_ids = 1 .. Len(policy.verifier_ids)
           /\ policy.quorum \in Nat \ {0}
           /\ policy.quorum <= Len(policy.verifier_ids)
           /\ DOMAIN trust[t].verifiers = Range(policy.verifier_ids)
<1>1. /\ trust[t].policy.quorum <= Len(trust[t].policy.verifier_ids)
      /\ DOMAIN trust[t].verifiers = Range(trust[t].policy.verifier_ids)
  BY ChainPasses DEF trust_snapshot, require, OK
<1>2. /\ trust[t].policy.quorum \in Nat \ {0}
      /\ trust[t].policy.verifier_ids \in Seq(Verifier)
  BY AuthorizationAssumption
<1> QED BY <1>1, <1>2

(* The assembled receipt has a vote of every verifier, in some order.      *)
LEMMA CandidateFacts ==
    /\ candidate.header = issuing
    /\ DOMAIN candidate.attestations = DOMAIN verifier_ids
BY DEF candidate, assemble, by_verifier, answers

(* A packet that a node attests names the policy that the node has read.   *)
LEMMA AttestingAgrees ==
    ASSUME NEW request, NEW t, NEW u, NEW k, NEW time, NEW id, NEW later,
           attest_check(request, new_header(request, t, time, id), u, k, later)
               = OK
    PROVE  u.policy = t.policy
<1> DEFINE header == new_header(request, t, time, id)
<1>1. validate_header(header, request, u, later) = OK
  BY ChainPasses DEF attest_check
<1>2. header.policy_digest = digest("policy", u.policy)
  BY <1>1, ChainPasses DEF validate_header, require, OK
<1>3. header.policy_digest = digest("policy", t.policy)
  BY DEF new_header
<1> QED BY <1>2, <1>3 DEF digest

-----------------------------------------------------------------------------
(* The receipt that Assemble returns is all that the properties ask.       *)
LEMMA AssembledReceipt ==
    ASSUME AuthInv, asked # NoRequest, inspects = OK, AllAnswered
    PROVE  /\ DOMAIN returned.receipt.attestations
                  = DOMAIN trust[returned.trust].policy.verifier_ids
           /\ returned.time < returned.receipt.header.expires_at
           /\ \A time \in returned.time .. MaxTime :
                 time < returned.receipt.header.expires_at =>
                     passes(returned, returned.receipt, time)
           /\ returned.receipt.disposition =
                 evaluate(request_data[returned.request].intent,
                          trust[returned.trust].policy).disposition
           /\ \A i \in DOMAIN returned.receipt.attestations :
                 LET v == returned.receipt.attestations[i].body.verifier_id
                 IN  trust[returned.read[v]].policy
                         = trust[returned.trust].policy
           /\ returned.receipt.header.receipt_id \in used
<1> DEFINE request == request_data[asked]
           t       == trust[held]
           n       == Len(verifier_ids)
           verdict == evaluate(request.intent, t.policy).disposition
<1>1. /\ asked \in Request /\ held \in TrustFile
      /\ now \in Nat /\ MaxTime \in Nat /\ now <= MaxTime
  BY AuthorizationAssumption DEF AuthInv, TypeOK
<1>2. /\ returned.request = asked /\ returned.trust = held
      /\ returned.read = read_trust /\ returned.time = now
      /\ returned.receipt = candidate
  BY DEF returned
<1>3. PICK time \in 0 .. now, id \in used :
         issuing = new_header(request, t, time, id)
  BY DEF AuthInv, CallInv
<1>4. /\ request # Malformed
      /\ request.intent.created_at \in Nat
      /\ request.intent.expires_at \in Nat
      /\ t.policy.receipt_ttl \in Nat
  BY <1>1, AuthorizationAssumption
<1>5. /\ issuing.issued_at \in Nat /\ issuing.expires_at \in Nat
      /\ issuing.receipt_id = id
  BY <1>1, <1>3, <1>4 DEF new_header, smaller
<1>6. /\ candidate.header = issuing
      /\ DOMAIN candidate.attestations = 1 .. n
      /\ n \in Nat /\ t.policy.quorum \in Nat \ {0} /\ t.policy.quorum <= n
      /\ DOMAIN t.verifiers = Range(verifier_ids)
      /\ verifier_ids \in Seq(Verifier)
  BY <1>1, CandidateFacts, SnapshotFacts DEF AuthInv, CallInv, verifier_ids
<1>7. inspect_receipt(request, candidate, t, now) = OK
  BY DEF inspects
<1>8. /\ validate_header(issuing, request, t, now) = OK
      /\ inspect_attestations(request, candidate, t) = OK
      /\ candidate.disposition
            = summarize(candidate.attestations, t.policy.quorum)
  BY <1>6, <1>7, InspectionFacts
<1>9. now < issuing.expires_at
  BY <1>8, ChainPasses DEF validate_header, require, OK
<1>10. \A i \in 1 .. n :
          LET body == candidate.attestations[i].body IN
          /\ body.verifier_id \in DOMAIN t.verifiers
          /\ body.disposition = verdict
  <2>1. \A i \in 1 .. n :
           inspect_attestation(i, request, candidate, t) = OK
    BY <1>6, <1>8, AttestationsPass
  <2> QED BY <2>1, AttestationFacts
<1>11. candidate.disposition = verdict
  <2>1. verdict \in {"ALLOW", "DENY", "HUMAN_VERIFY"}
    BY VerdictType
  <2>2. \A i \in 1 .. n :
           candidate.attestations[i].body.disposition = verdict
    BY <1>10
  <2>3. summarize(candidate.attestations, t.policy.quorum) = verdict
    <3> DEFINE votes == candidate.attestations
               q     == t.policy.quorum
    <3>1. /\ n \in Nat /\ DOMAIN votes = 1 .. n
          /\ q \in Nat \ {0} /\ q <= n
          /\ \A i \in 1 .. n : votes[i].body.disposition = verdict
      BY <1>6, <2>2
    <3> HIDE DEF verdict, n, votes, q
    <3>2. summarize(votes, q) = verdict
      BY <2>1, <3>1, UnanimousVotes
    <3> QED BY <3>2 DEF votes, q
  <2> QED BY <1>8, <2>3
<1>12. \A i \in 1 .. n :
          LET v == candidate.attestations[i].body.verifier_id
          IN  trust[read_trust[v]].policy = t.policy
  <2> SUFFICES ASSUME NEW v \in DOMAIN t.verifiers
               PROVE  trust[read_trust[v]].policy = t.policy
    BY <1>10
  <2>1. v \in Verifier /\ v \in Range(verifier_ids)
    BY <1>6 DEF Range
  <2>2. status[v] = "answered"
    BY <2>1 DEF AllAnswered
  <2> QED BY <2>1, <2>2 DEF AuthInv, CallInv
<1>13. ASSUME NEW late \in now .. MaxTime, late < issuing.expires_at
       PROVE  passes(returned, candidate, late)
  <2>1. inspect_receipt(request, candidate, t, late) = OK
    BY <1>1, <1>4, <1>5, <1>6, <1>7, <1>13, InspectionUntilExpiry
  <2>2. ASSUME candidate.disposition = "ALLOW"
        PROVE  verify_receipt(request, candidate, t, late) = OK
    <3>1. trust_snapshot(t) = OK
      BY DEF AuthInv, CallInv
    <3>2. parse(request) = OK
      BY <1>4 DEF parse, require
    <3>3. parse(candidate) = OK
      BY DEF parse, require, candidate, assemble, Malformed
    <3>4. summarize(candidate.attestations, t.policy.quorum) = "ALLOW"
      BY <1>8, <2>2
    <3>5. verdict = "ALLOW"
      BY <1>11, <2>2
    <3> QED BY <2>1, <3>1, <3>2, <3>3, <3>4, <3>5, ChainPasses
               DEF verify_receipt, require
  <2> QED BY <1>2, <2>1, <2>2 DEF passes
<1>14. DOMAIN candidate.attestations = DOMAIN t.policy.verifier_ids
  BY CandidateFacts DEF verifier_ids
<1> QED BY <1>2, <1>5, <1>6, <1>9, <1>11, <1>12, <1>13, <1>14

(* A receipt with other votes.                                             *)
LEMMA Reselected ==
    ASSUME NEW receipt, NEW header, NEW decision, NEW all, NEW other,
           receipt = [header |-> header, disposition |-> decision,
                      attestations |-> all]
    PROVE  [receipt EXCEPT !.attestations = other]
              = [header |-> header, disposition |-> decision,
                 attestations |-> other]
OBVIOUS

(* Any selection of its votes that meets the quorum authorizes as well.    *)
LEMMA AssembledSelection ==
    ASSUME AuthInv, asked # NoRequest, inspects = OK, AllAnswered
    PROVE  returned.receipt.disposition = "ALLOW" => selections_pass(returned)
<1> DEFINE request == request_data[asked]
           t       == trust[held]
           n       == Len(verifier_ids)
           all     == candidate.attestations
<1>1. /\ asked \in Request /\ held \in TrustFile
      /\ returned.request = asked /\ returned.trust = held
      /\ returned.receipt = candidate /\ returned.time = now
      /\ now < candidate.header.expires_at /\ now \in now .. MaxTime
      /\ request # Malformed
  <2>1. /\ asked \in Request /\ held \in TrustFile
        /\ now \in now .. MaxTime /\ request # Malformed
    BY AuthorizationAssumption DEF AuthInv, TypeOK
  <2>2. /\ returned.request = asked /\ returned.trust = held
        /\ returned.receipt = candidate /\ returned.time = now
    BY DEF returned
  <2> QED BY <2>1, <2>2, AssembledReceipt
<1>2. /\ candidate = [header       |-> candidate.header,
                      disposition  |-> candidate.disposition,
                      attestations |-> all]
      /\ DOMAIN all = 1 .. n /\ n \in Nat
      /\ t.policy.quorum \in Nat \ {0} /\ t.policy.quorum <= n
  <2>1. candidate = [header       |-> candidate.header,
                     disposition  |-> candidate.disposition,
                     attestations |-> all]
    BY DEF candidate, assemble
  <2> QED BY <1>1, <2>1, CandidateFacts, SnapshotFacts
             DEF AuthInv, CallInv, verifier_ids
<1>3. inspect_receipt(request, candidate, t, now) = OK
  BY DEF inspects
<1> SUFFICES ASSUME candidate.disposition = "ALLOW",
                    NEW m \in t.policy.quorum .. Len(all),
                    NEW order \in [1 .. m -> 1 .. n], IsInjective(order)
             PROVE  passes(returned,
                           [candidate EXCEPT !.attestations =
                               [i \in 1 .. m |-> all[order[i]]]], now)
  BY <1>1, <1>2 DEF selections_pass
<1> DEFINE part == [header       |-> candidate.header,
                    disposition  |-> candidate.disposition,
                    attestations |-> [i \in 1 .. m |-> all[order[i]]]]
<1>4. [candidate EXCEPT !.attestations = [i \in 1 .. m |-> all[order[i]]]]
         = part
  <2> DEFINE other == [i \in 1 .. m |-> all[order[i]]]
  <2>1. [candidate EXCEPT !.attestations = other]
           = [header       |-> candidate.header,
              disposition  |-> candidate.disposition,
              attestations |-> other]
    <3>1. candidate = [header       |-> candidate.header,
                       disposition  |-> candidate.disposition,
                       attestations |-> all]
      BY <1>2
    <3> HIDE DEF other, all
    <3> QED BY ONLY <3>1, Reselected
  <2> QED BY <2>1
<1>5. m \in Nat /\ t.policy.quorum <= m
  BY <1>2
<1>6. inspect_receipt(request, part, t, now) = OK
  <2> HIDE DEF request, t, n, all
  <2> QED BY <1>2, <1>3, <1>5, SelectionPasses
<1>7. verify_receipt(request, part, t, now) = OK
  <2>1. trust_snapshot(t) = OK
    BY DEF AuthInv, CallInv
  <2>2. parse(request) = OK
    BY <1>1 DEF parse, require
  <2>3. parse(part) = OK
    BY DEF parse, require, Malformed
  <2>4. summarize(part.attestations, t.policy.quorum) = "ALLOW"
    <3>1. part.disposition = "ALLOW"
      OBVIOUS
    <3> HIDE DEF part
    <3> QED BY <1>6, <3>1, InspectionFacts
  <2>5. evaluate(request.intent, t.policy).disposition = "ALLOW"
    BY <1>1, AssembledReceipt
  <2> HIDE DEF part
  <2> QED BY <1>6, <2>1, <2>2, <2>3, <2>4, <2>5, ChainPasses
             DEF verify_receipt, require
<1> QED BY <1>1, <1>4, <1>6, <1>7 DEF passes

-----------------------------------------------------------------------------
LEMMA AuthInitial == Init => AuthInv
<1> SUFFICES ASSUME Init PROVE AuthInv
  OBVIOUS
<1>1. TypeOK
  BY AuthorizationAssumption DEF Init, TypeOK, Status
<1>2. CallInv
  BY DEF Init, CallInv
<1>3. ReceiptsUsable /\ VerdictIsPolicy /\ NoMixedPolicy /\ SurplusRemovable
  BY DEF Init, ReceiptsUsable, HeaderUsable, VerdictIsPolicy, NoMixedPolicy,
         SurplusRemovable
<1> QED BY <1>1, <1>2, <1>3 DEF AuthInv

(* A call begins: it holds a bundle that passed trust_snapshot, and no     *)
(* node has answered.                                                      *)
LEMMA AuthorizeKeepsInv ==
    ASSUME AuthInv, NEW r \in Request, NEW id \in ReceiptId, Authorize(r, id)
    PROVE  AuthInv'
<1> USE DEF AuthInv
<1>1. /\ trust_file \in TrustFile
      /\ r # NoRequest /\ trust_file # NoTrust
      /\ now \in Nat
  BY AuthorizationAssumption DEF Authorize, TypeOK
<1>2. TypeOK'
  BY <1>1 DEF Authorize, TypeOK, Status
<1>3. CallInv'
  <2>1. /\ asked' = r /\ held' = trust_file /\ now' = now
        /\ id \in used' /\ now \in 0 .. now
        /\ trust_snapshot(trust[trust_file]) = OK
        /\ issuing' = new_header(request_data[r], trust[trust_file], now, id)
    BY <1>1 DEF Authorize
  <2>2. \A v \in Verifier : status'[v] # "answered"
    BY DEF Authorize
  <2>3. HeaderUsable'
    <3> DEFINE request == request_data[r]
               header  == new_header(request, trust[trust_file], now, id)
    <3>1. /\ request.intent.created_at \in Nat
          /\ request.intent.expires_at \in Nat
          /\ trust[trust_file].policy.receipt_ttl \in Nat \ {0}
          /\ validate_request(request, trust[trust_file], now) = OK
      BY <1>1, AuthorizationAssumption DEF Authorize
    <3>2. /\ validate_header(header, request, trust[trust_file], now) = OK
          /\ header.issued_at = now
          /\ header.expires_at \in Nat /\ now < header.expires_at
      BY <1>1, <3>1, NewHeaderPasses
    <3> HIDE DEF header, request
    <3>3. \A late \in now .. MaxTime :
             late < header.expires_at =>
                 validate_header(header, request, trust[trust_file], late) = OK
      <4> SUFFICES ASSUME NEW late \in now .. MaxTime,
                          late < header.expires_at
                   PROVE  validate_header(header, request, trust[trust_file],
                                          late) = OK
        OBVIOUS
      <4>1. late \in Nat /\ now <= late
        BY <1>1
      <4> QED BY <1>1, <3>1, <3>2, <4>1, HeaderUntilExpiry
    <3>4. header = issuing' /\ request = request_data[asked']
      BY <2>1 DEF header, request
    <3> QED BY <2>1, <3>2, <3>3, <3>4 DEF HeaderUsable
  <2> QED BY <2>1, <2>2, <2>3 DEF CallInv
<1>4. receipts' = receipts
  BY DEF Authorize
<1> QED BY <1>2, <1>3, <1>4, ReceiptsKept

(* The steps of the threads and their nodes.                               *)
LEMMA ThreadKeepsInv ==
    ASSUME AuthInv, NEW v \in Verifier,
           \/ StartNode(v) \/ ReadTrust(v) \/ IdentityMismatch(v)
           \/ NodeError(v) \/ NodeUnavailable(v)
    PROVE  AuthInv'
<1> USE DEF AuthInv
<1>1. /\ UNCHANGED <<now, trust_file, key_files, asked, held, issuing, used,
                     answer, receipts>>
      /\ \E s \in Status \ {"answered"} : status' = [status EXCEPT ![v] = s]
      /\ \/ UNCHANGED read_trust
         \/ /\ trust_file # Torn
            /\ status[v] = "started"
            /\ read_trust' = [read_trust EXCEPT ![v] = trust_file]
  BY DEF StartNode, ReadTrust, IdentityMismatch, NodeError, NodeUnavailable,
         Fail, Status, Running, Failures
<1>2. TypeOK'
  BY <1>1 DEF TypeOK
<1>3. CallInv'
  BY <1>1 DEF CallInv, HeaderUsable, TypeOK
<1> QED BY <1>1, <1>2, <1>3, ReceiptsKept

LEMMA AttestKeepsInv ==
    ASSUME AuthInv, NEW v \in Verifier, Attest(v)
    PROVE  AuthInv'
<1> USE DEF AuthInv
<1>1. /\ UNCHANGED <<now, trust_file, key_files, asked, held, issuing, used,
                     read_trust, receipts>>
      /\ status' = [status EXCEPT ![v] = "answered"]
      /\ attests(v) = OK
  BY DEF Attest
<1>2. TypeOK'
  BY <1>1 DEF TypeOK, Status
<1>3. asked # NoRequest => trust[read_trust[v]].policy = trust[held].policy
  BY <1>1, AttestingAgrees DEF CallInv, attests
<1>4. CallInv'
  BY <1>1, <1>3 DEF CallInv, HeaderUsable, TypeOK
<1> QED BY <1>1, <1>2, <1>4, ReceiptsKept

LEMMA AssembleKeepsInv ==
    ASSUME AuthInv, Assemble
    PROVE  AuthInv'
<1> USE DEF AuthInv
<1>1. /\ asked # NoRequest /\ inspects = OK /\ AllAnswered
      /\ receipts' = receipts \cup {returned}
      /\ UNCHANGED <<now, trust_file, key_files, used>>
      /\ Ended
  BY DEF Assemble, AllAnswered, filesVars
<1>2. /\ returned.request = asked /\ returned.trust = held
      /\ returned.time = now
  BY DEF returned
<1>3. TypeOK'
  <2>1. returned.receipt.header.receipt_id \in used
    BY <1>1, AssembledReceipt, Zenon
  <2>2. /\ asked \in Request /\ held \in TrustFile /\ now \in 0 .. now
    BY <1>1, AuthorizationAssumption DEF TypeOK
  <2> HIDE DEF AuthInv
  <2>3. \A r \in receipts' :
           /\ r.request \in Request /\ r.trust \in TrustFile
           /\ r.time \in 0 .. now'
           /\ r.receipt.header.receipt_id \in used'
    BY <1>1, <1>2, <2>1, <2>2 DEF TypeOK, AuthInv
  <2> QED BY <1>1, <2>3 DEF TypeOK, Ended, Status, AuthInv
<1>4. CallInv'
  BY <1>1 DEF CallInv, Ended
<1>5. /\ AuthInv /\ ReceiptsUsable /\ VerdictIsPolicy /\ NoMixedPolicy
      /\ SurplusRemovable
  OBVIOUS
<1> HIDE DEF AuthInv
<1>6. ReceiptsUsable'
  <2>1. HeaderUsable'
    BY <1>1 DEF HeaderUsable, Ended
  <2> QED BY <1>1, <1>5, <2>1, AssembledReceipt, Zenon
             DEF ReceiptsUsable, passes
<1>7. VerdictIsPolicy'
  BY <1>1, <1>5, AssembledReceipt, Zenon DEF VerdictIsPolicy
<1>8. NoMixedPolicy'
  BY <1>1, <1>5, AssembledReceipt, Zenon DEF NoMixedPolicy
<1>9. SurplusRemovable'
  BY <1>1, <1>5, AssembledSelection, Zenon DEF SurplusRemovable
<1> QED BY <1>3, <1>4, <1>6, <1>7, <1>8, <1>9 DEF AuthInv

(* The ways a call ends without a receipt.                                 *)
LEMMA FailedCallKeepsInv ==
    ASSUME AuthInv, Raise \/ RejectAssembly \/ CoordinatorDies
    PROVE  AuthInv'
<1> USE DEF AuthInv
<1>1. Ended /\ UNCHANGED <<now, trust_file, key_files, used, receipts>>
  BY DEF Raise, RejectAssembly, CoordinatorDies, filesVars
<1>2. TypeOK'
  BY <1>1 DEF TypeOK, Ended, Status
<1>3. CallInv'
  BY <1>1 DEF CallInv, Ended
<1> QED BY <1>1, <1>2, <1>3, ReceiptsKept

LEMMA CancelKeepsInv ==
    ASSUME AuthInv, Cancel
    PROVE  AuthInv'
<1> USE DEF AuthInv
<1>1. /\ UNCHANGED <<now, trust_file, key_files, asked, held, issuing, used,
                     read_trust, receipts>>
      /\ status' = [v \in Verifier |->
                       IF status[v] = "queued" THEN "cancelled" ELSE status[v]]
  BY DEF Cancel
<1>2. TypeOK'
  BY <1>1 DEF TypeOK, Status
<1>3. CallInv'
  BY <1>1 DEF CallInv, HeaderUsable
<1> QED BY <1>1, <1>2, <1>3, ReceiptsKept

(* The operator, the clock and stuttering.                                 *)
LEMMA OutsideKeepsInv ==
    ASSUME AuthInv,
           \/ WriteTrust
           \/ \E t \in TrustFile : TrustWritten(t)
           \/ \E v \in Verifier, k \in KeyFile : ReplaceKey(v, k)
           \/ Tick
           \/ UNCHANGED vars
    PROVE  AuthInv'
<1> USE DEF AuthInv
<1>1. /\ UNCHANGED <<asked, held, issuing, status, read_trust, used, receipts>>
      /\ trust_file' \in TrustFile \cup {Torn}
      /\ key_files' \in [Verifier -> KeyFile]
      /\ \/ now' = now
         \/ now < MaxTime /\ now' = now + 1
  BY DEF WriteTrust, TrustWritten, ReplaceKey, Tick, vars, callVars, filesVars,
         TypeOK
<1>2. now' \in 0 .. MaxTime /\ \A time \in 0 .. now : time \in 0 .. now'
  BY <1>1, AuthorizationAssumption DEF TypeOK
<1>3. TypeOK'
  BY <1>1, <1>2 DEF TypeOK
<1>4. CallInv'
  BY <1>1, <1>2 DEF CallInv, HeaderUsable
<1> QED BY <1>1, <1>3, <1>4, ReceiptsKept

-----------------------------------------------------------------------------
LEMMA AuthStep == AuthInv /\ [Next]_vars => AuthInv'
BY AuthorizeKeepsInv, ThreadKeepsInv, AttestKeepsInv, AssembleKeepsInv,
   FailedCallKeepsInv, CancelKeepsInv, OutsideKeepsInv
   DEF Next, CoordinatorStep, NodeStep

THEOREM AuthInvariant == Spec => []AuthInv
BY AuthInitial, AuthStep, PTL DEF Spec

(* The types of the coordinator's variables, and that every receipt that   *)
(* was returned has an id that was drawn for it.                           *)
THEOREM AuthorizationTypes == Spec => []TypeOK
BY AuthInvariant, PTL DEF AuthInv

(* A receipt that authorize_processes returned is accepted until it        *)
(* expires, whatever nodes, operator and clock did meanwhile.              *)
THEOREM ReturnedReceiptsUsable == Spec => []ReceiptsUsable
BY AuthInvariant, PTL DEF AuthInv

(* The disposition of a receipt is the verdict of the coordinator's        *)
(* policy, for every quorum and every number of verifiers.                 *)
THEOREM ReceiptsSayVerdict == Spec => []VerdictIsPolicy
BY AuthInvariant, PTL DEF AuthInv

(* No receipt holds the vote of a node that had read another policy.       *)
THEOREM NodesReadHeldPolicy == Spec => []NoMixedPolicy
BY AuthInvariant, PTL DEF AuthInv

(* A receipt that says ALLOW still authorizes when surplus votes are taken *)
(* out of it or its votes are put into another order, for every quorum.    *)
THEOREM SurplusVotesRemovable == Spec => []SurplusRemovable
BY AuthInvariant, PTL DEF AuthInv

=============================================================================

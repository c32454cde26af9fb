--------------------------- MODULE EvidenceProofs ---------------------------
(***************************************************************************)
(* What stands behind a run and behind a record of the executor: a quorum  *)
(* of different verifiers, a permit spent by an authorized call only, and  *)
(* a signature that everybody with the same trust can verify.              *)
(***************************************************************************)
EXTENDS ExecutorProofs

(* What a call that passed the checks of execute() shows.                  *)
LEMMA AcceptedFacts ==
    ASSUME NEW c, NEW t, NEW revision, NEW time, accepts(c, t, revision, time)
    PROVE  /\ verify_receipt(request_data[c], receipt_data[c], trust[t], time)
                 = OK
           /\ inspect_receipt(request_data[c], receipt_data[c], trust[t], time)
                 = OK
           /\ summarize(receipt_data[c].attestations, trust[t].policy.quorum)
                 = "ALLOW"
<1>1. execute_check(c, trust[t], revision, time) = OK
  BY AcceptedParses
<1>2. verify_receipt(request_data[c], receipt_data[c], trust[t], time) = OK
  BY <1>1, ChainPasses DEF execute_check, execute_checks, spec
<1>3. /\ inspect_receipt(request_data[c], receipt_data[c], trust[t], time) = OK
      /\ require(summarize(receipt_data[c].attestations,
                           trust[t].policy.quorum) = "ALLOW", "NOT_ALLOW") = OK
  BY <1>2, ChainPasses DEF verify_receipt
<1> QED BY <1>2, <1>3 DEF require, OK

-----------------------------------------------------------------------------
(* Whoever votes ALLOW in a receipt that passes has signed what allows     *)
(* asks for.                                                               *)
LEMMA VotersAllow ==
    ASSUME NEW request, NEW receipt, NEW t, NEW time, NEW n \in Nat,
           DOMAIN receipt.attestations = 1 .. n,
           inspect_receipt(request, receipt, t, time) = OK
    PROVE  voters(receipt)
              \subseteq {v \in DOMAIN t.verifiers : allows(v, request, receipt, t)}
<1>1. /\ receipt.header.action_digest = digest("intent", request.intent)
      /\ receipt.header.policy_digest = digest("policy", t.policy)
  BY InspectionFacts, ChainPasses DEF validate_header, require, OK
<1> SUFFICES ASSUME NEW i \in 1 .. n,
                    receipt.attestations[i].body.disposition = "ALLOW"
             PROVE  LET v == receipt.attestations[i].body.verifier_id
                    IN  /\ v \in DOMAIN t.verifiers
                        /\ allows(v, request, receipt, t)
  BY DEF voters, deciding
<1> DEFINE body == receipt.attestations[i].body
           v    == body.verifier_id
<1>2. inspect_attestation(i, request, receipt, t) = OK
  BY InspectionFacts, AttestationsPass
<1>3. /\ v \in DOMAIN t.verifiers
      /\ body.header = receipt.header
      /\ verify(t.policy.suite, t.verifiers[v],
                receipt.attestations[i].signatures,
                message("attestation", t.policy.suite, v, body)) = OK
  BY <1>2, AttestationFacts
<1>4. \A algorithm \in components(t.policy.suite) :
         made_by(receipt.attestations[i].signatures[algorithm],
                 t.verifiers[v][algorithm],
                 message("attestation", t.policy.suite, v, body))
  BY <1>3, VerifyPasses
<1> QED BY <1>1, <1>3, <1>4 DEF allows

LEMMA AcceptedHasQuorum ==
    ASSUME NEW c, NEW t, NEW revision, NEW time, accepts(c, t, revision, time)
    PROVE  <<c, t>> \in QuorumBacked
<1> DEFINE request == request_data[c]
           receipt == receipt_data[c]
           bundle  == trust[t]
           named   == {receipt.attestations[i].body.verifier_id :
                          i \in DOMAIN receipt.attestations}
           allowing == {v \in DOMAIN bundle.verifiers :
                           allows(v, request, receipt, bundle)}
<1>1. c \in Call /\ t \in TrustFile /\ parses(c)
  BY AcceptedParses
<1>2. PICK n \in 0 .. 16 : DOMAIN receipt.attestations = 1 .. n
  BY <1>1, ExecutorAssumption
<1>3. bundle.policy.quorum \in Nat
  BY <1>1, ExecutorAssumption
<1>4. /\ inspect_receipt(request, receipt, bundle, time) = OK
      /\ Cardinality(deciding(receipt.attestations, "ALLOW"))
            >= bundle.policy.quorum
  BY AcceptedFacts DEF summarize
<1>5. /\ voters(receipt) \subseteq allowing
      /\ Cardinality(voters(receipt)) >= bundle.policy.quorum
  <2>1. voters(receipt) \subseteq allowing
    BY <1>2, <1>4, VotersAllow
  <2>2. Cardinality(voters(receipt))
           = Cardinality(deciding(receipt.attestations, "ALLOW"))
    BY <1>2, <1>4, VotersAreDistinct, InspectionFacts
  <2> HIDE DEF allowing, receipt, bundle
  <2> QED BY <1>4, <2>1, <2>2
<1>6. IsFiniteSet(allowing)
  <2>1. allowing \in SUBSET named
    BY DEF allows
  <2>2. IsFiniteSet(named)
    <3> DEFINE f == [i \in 1 .. n |-> receipt.attestations[i].body.verifier_id]
    <3>1. f \in Surjection(1 .. n, named)
      BY <1>2 DEF Surjection
    <3>2. IsFiniteSet(1 .. n)
      BY FS_Interval
    <3> HIDE DEF f, named
    <3> QED BY <3>1, <3>2, FS_Surjection
  <2> HIDE DEF allowing, named
  <2> QED BY <2>1, <2>2, FS_Subset
<1>7. Cardinality(allowing) >= bundle.policy.quorum
  <2> HIDE DEF allowing, receipt, bundle
  <2>1. /\ Cardinality(voters(receipt)) \in Nat
        /\ Cardinality(allowing) \in Nat
        /\ Cardinality(voters(receipt)) <= Cardinality(allowing)
    BY <1>5, <1>6, FS_Subset, FS_CardinalityType
  <2> QED BY <1>3, <1>5, <2>1
<1> QED BY <1>1, <1>7 DEF QuorumBacked

(* No run without a quorum of different signers: one vote listed twice, a  *)
(* vote for another receipt or half of a hybrid signature never counts.    *)
THEOREM QuorumStandsBehindRuns == Spec => []QuorumBehindRun
<1>1. ExecutorInv => QuorumBehindRun
  BY AcceptedHasQuorum
     DEF ExecutorInv, PermitInv, AuthorizedWhenRun, QuorumBehindRun
<1> QED BY <1>1, ExecutorInvariant, PTL

-----------------------------------------------------------------------------
(* An action of the executors that changes the table is a commit within a  *)
(* call that passed the checks some time ago.                              *)
LEMMA SpendIsAuthorized ==
    ASSUME ExecutorInv, [Next]_vars
    PROVE  \/ reservations' = reservations
           \/ \E p \in Process : AuthorizedSpend(p)
<1> USE DEF ExecutorInv
<1>0. ASSUME NEW p \in Process, stage[p] = "inserted",
             reservations' = Append(reservations, row[p])
      PROVE  AuthorizedSpend(p)
  <2>1. /\ pc[p] = "reserving" /\ row[p] = reservation(call[p])
        /\ \E time \in 0 .. now :
              accepts(call[p], snapshot[p], adapter[p], time)
    BY <1>0 DEF CallInv
  <2> QED BY <1>0, <2>1 DEF AuthorizedSpend
<1>1. ASSUME NEW p \in Process, Reserving(p) \/ StoreError(p)
      PROVE  reservations' = reservations \/ AuthorizedSpend(p)
  <2>1. CASE Commit(p)
    BY <1>0, <2>1 DEF Commit
  <2>2. CASE CommitUnacknowledged(p)
    BY <1>0, <2>2 DEF CommitUnacknowledged
  <2>3. CASE ~ Commit(p) /\ ~ CommitUnacknowledged(p)
    BY <1>1, <2>3 DEF Reserving, ReserveStep, BeginImmediate, BusyTimeout,
       CheckClock, RejectExpired, Insert, RejectReplay, Rollback, StoreError,
       StoreFails
  <2> QED BY <2>1, <2>2, <2>3
<1>2. ASSUME NEW p \in Process, ExecuteStep(p), ~ Reserving(p)
      PROVE  reservations' = reservations
  BY <1>2 DEF ExecuteStep, ReserveRaised, Start, ExpiredAfterReserve, Return,
              RunAdapter, ReturnResult, RejectCounts, storeVars
<1>3. ASSUME NEW p \in Process,
             \/ \E injected \in InjectedAdapter \cup {NoAdapter} :
                   Construct(p, injected)
             \/ \E c \in Call : Execute(p, c)
             \/ ExecutionError(p) \/ Crash(p)
      PROVE  reservations' = reservations
  BY <1>3 DEF Construct, Execute, Reserve, ExecutionError, Crash, ProcessDies,
              storeVars
<1>4. ASSUME \/ \E t \in TrustFile : EditTrust(t)
             \/ ClockTicks \/ UNCHANGED vars
      PROVE  reservations' = reservations
  BY <1>4 DEF EditTrust, ClockTicks, Tick, vars, storeVars
<1> QED BY <1>1, <1>2, <1>3, <1>4 DEF Next

(* Nothing spends a permit but a call that passed every check of           *)
(* execute(): a refused request leaves its intent free.                    *)
THEOREM PermitsSpentByAuthorized == Spec => SpentOnlyByAuthorized
BY ExecutorInvariant, SpendIsAuthorized, PTL DEF Spec, SpentOnlyByAuthorized

-----------------------------------------------------------------------------
(* Who can sign one message so that it verifies can sign any other: the    *)
(* probe of the constructor stands for every record, whatever either of    *)
(* the signatures drew.                                                    *)
LEMMA ProbeProvesKey ==
    ASSUME NEW suite, NEW public, NEW private, NEW probe, NEW data,
           NEW draw, NEW other,
           verify(suite, public, sign(suite, private, probe, other), probe)
               = OK
    PROVE  verify(suite, public, sign(suite, private, data, draw), data) = OK
<1>1. /\ DOMAIN public = components(suite)
      /\ \A algorithm \in components(suite) :
            made_by(sign(suite, private, probe, other)[algorithm],
                    public[algorithm], probe)
  BY VerifyPasses
<1>2. \A algorithm \in components(suite) :
         private[algorithm] = public[algorithm]
  BY <1>1 DEF sign, made_by
<1>3. /\ DOMAIN sign(suite, private, data, draw) = components(suite)
      /\ \A algorithm \in components(suite) :
            made_by(sign(suite, private, data, draw)[algorithm],
                    public[algorithm], data)
  BY <1>2 DEF sign, made_by
<1> QED BY <1>1, <1>3, VerifyPasses

(* A record made from a call that was accepted at the time it claims.      *)
LEMMA RecordVerifies ==
    ASSUME NEW c, NEW t, NEW revision, NEW time, NEW found, NEW draw,
           accepts(c, t, revision, time),
           construct_check(trust[t], executor_key) = OK,
           check_counts(found, spec(c)) = OK
    PROVE  verify_result(result_record(c, trust[t], time, found, draw),
                         request_data[c], receipt_data[c], trust[t]) = OK
<1> DEFINE bundle  == trust[t]
           request == request_data[c]
           receipt == receipt_data[c]
           body    == result_body(request, receipt, bundle, time, found)
           outcome == result_record(c, bundle, time, found, draw)
           probe   == message("result", executor_key.suite,
                              executor_key.identity, [probe |-> TRUE])
<1>1. outcome.body = body
  BY DEF result_record, record
<1>2. /\ trust_snapshot(bundle) = OK
      /\ executor_key.identity = bundle.executor_id
      /\ executor_key.suite = bundle.policy.suite
      /\ verify(executor_key.suite, bundle.executor_keys,
                sign(executor_key.suite, executor_key.private_keys, probe,
                     any_draw("result")), probe) = OK
  BY ChainPasses DEF construct_check, require, OK
<1>3. verify(body.suite, bundle.executor_keys, outcome.signatures,
             message("result", body.suite, body.executor_id, body)) = OK
  <2>1. /\ body.suite = executor_key.suite
        /\ body.executor_id = executor_key.identity
    BY <1>2 DEF result_body
  <2>2. outcome.signatures =
           sign(executor_key.suite, executor_key.private_keys,
                message("result", executor_key.suite, executor_key.identity,
                        body), draw)
    BY DEF result_record, record
  <2> HIDE DEF body, probe
  <2> QED BY <1>2, <2>1, <2>2, ProbeProvesKey
<1>4. /\ verify_receipt(request, receipt, bundle, time) = OK
      /\ inspect_receipt(request, receipt, bundle, time) = OK
  BY AcceptedFacts
<1>5. request.intent.audience = bundle.policy.audience
  <2>1. validate_request(request, bundle, time) = OK
    BY <1>4, InspectionFacts, ChainPasses DEF validate_header
  <2> QED BY <2>1, ChainPasses DEF validate_request, require, OK
<1>6. /\ body.executor_id = bundle.executor_id
      /\ body.suite = bundle.policy.suite
      /\ body.executed_at = time
      /\ body.counts = found
      /\ body.action_digest = digest("intent", request.intent)
      /\ body.frozen_digest = request.intent.parameters.frozen_digest
      /\ body.receipt_digest = digest("receipt", receipt)
      /\ body.receipt_id = receipt.header.receipt_id
      /\ body.backend = request.intent.parameters.experiment.backend
      /\ body.audience = bundle.policy.audience
  BY <1>5 DEF result_body, spec
<1>7. check_counts(body.counts, request.intent.parameters.experiment) = OK
  BY <1>6 DEF spec
<1> HIDE DEF body, outcome, bundle, request, receipt
<1>8. verify_result(outcome, request, receipt, bundle) = OK
  BY <1>1, <1>2, <1>3, <1>4, <1>6, <1>7, ChainPasses
     DEF verify_result, require
<1> QED BY <1>8 DEF outcome, request, receipt, bundle

(* An executor that is up holds a trust it can sign under.                 *)
ConfiguredInv ==
    \A p \in Process :
        pc[p] # "down" => construct_check(trust[snapshot[p]], executor_key) = OK

RecordInv == ConfiguredInv /\ ProvenanceVerifies

LEMMA RecordInitial == Init => RecordInv
BY DEF Init, RecordInv, ConfiguredInv, ProvenanceVerifies

LEMMA RecordStep == ExecutorInv /\ RecordInv /\ [Next]_vars => RecordInv'
<1> SUFFICES ASSUME ExecutorInv, RecordInv, [Next]_vars PROVE RecordInv'
  OBVIOUS
<1> USE DEF ExecutorInv, RecordInv
<1>1. ASSUME NEW p \in Process,
             NEW injected \in InjectedAdapter \cup {NoAdapter},
             Construct(p, injected)
      PROVE  ConfiguredInv' /\ results' = results
  BY <1>1 DEF Construct, ConfiguredInv, TypeOK
<1>2. ASSUME NEW p \in Process,
             \/ \E c \in Call : Execute(p, c)
             \/ ExecuteStep(p)
             \/ StoreError(p) \/ ExecutionError(p)
      PROVE  ConfiguredInv'
  <2>1. /\ snapshot' = snapshot
        /\ \A q \in Process : pc'[q] # "down" => pc[q] # "down"
    BY <1>2 DEF Execute, ExecuteStep, Reserving, ReserveRaised, Start, RunAdapter,
       ExpiredAfterReserve, ReturnResult, RejectCounts, StoreError,
       ExecutionError, Leave, execVars, TypeOK, Admitted
  <2> QED BY <2>1 DEF ConfiguredInv
<1>3. ASSUME NEW p \in Process, Crash(p)
      PROVE  ConfiguredInv' /\ results' = results
  BY <1>3 DEF Crash, ConfiguredInv, TypeOK
<1>4. ASSUME \/ \E t \in TrustFile : EditTrust(t)
             \/ ClockTicks \/ UNCHANGED vars
      PROVE  ConfiguredInv' /\ results' = results
  BY <1>4 DEF EditTrust, ClockTicks, vars, execVars, ConfiguredInv
<1>5. ASSUME NEW p \in Process,
             \/ \E c \in Call : Execute(p, c)
             \/ ExecuteStep(p) /\ ~ ReturnResult(p)
             \/ StoreError(p) \/ ExecutionError(p)
      PROVE  results' = results
  BY <1>5 DEF Execute, ExecuteStep, Reserving, ReserveRaised, Start, RunAdapter,
     ExpiredAfterReserve, RejectCounts, StoreError, ExecutionError, execVars
<1>6. ASSUME NEW p \in Process, ReturnResult(p)
      PROVE  ProvenanceVerifies'
  <2>0. PICK draw \in Draws["result"] :
           results' = results \cup
              {[call |-> call[p], trust |-> snapshot[p],
                record |-> result_record(call[p], trust[snapshot[p]],
                                         executed_at[p], counts[p], draw)]}
    BY <1>6, Zenon DEF ReturnResult
  <2> DEFINE new == [call |-> call[p], trust |-> snapshot[p],
                     record |-> result_record(call[p], trust[snapshot[p]],
                                              executed_at[p], counts[p], draw)]
  <2>1. /\ pc[p] = "ran"
        /\ check_counts(counts[p], spec(call[p])) = OK
        /\ results' = results \cup {new}
    BY <1>6, <2>0 DEF ReturnResult
  <2>2. accepts(call[p], snapshot[p], adapter[p], executed_at[p])
    BY <2>1 DEF CallInv, Admitted
  <2>3. construct_check(trust[snapshot[p]], executor_key) = OK
    BY <2>1 DEF ConfiguredInv
  <2>4. verify_result(new.record, request_data[new.call],
                      receipt_data[new.call], trust[new.trust]) = OK
    <3>1. verify_result(result_record(call[p], trust[snapshot[p]],
                                      executed_at[p], counts[p], draw),
                        request_data[call[p]], receipt_data[call[p]],
                        trust[snapshot[p]]) = OK
      BY <2>1, <2>2, <2>3, RecordVerifies, Zenon
    <3> QED BY <3>1
  <2> HIDE DEF new
  <2> QED BY <2>1, <2>4 DEF ProvenanceVerifies
<1>7. results' = results => ProvenanceVerifies'
  BY DEF ProvenanceVerifies
<1> QED BY <1>1, <1>2, <1>3, <1>4, <1>5, <1>6, <1>7 DEF Next

(* Every record that execute() returned passes verify_result for anybody   *)
(* who holds the executor's trust.                                         *)
THEOREM RecordsVerify == Spec => []ProvenanceVerifies
<1>1. RecordInv => ProvenanceVerifies
  BY DEF RecordInv
<1> QED BY <1>1, ExecutorInvariant, RecordInitial, RecordStep, PTL DEF Spec

-----------------------------------------------------------------------------
(* The owner of the hardware sees an admission service: a commit admits an *)
(* intent that was not admitted before, a run performs an admitted intent  *)
(* that was not performed before, a returned record delivers it, and every *)
(* other step is invisible.                                                *)

(* A sequence that agrees with f and has one more element.                 *)
LEMMA OneMore ==
    ASSUME NEW T, NEW f \in Seq(T), NEW k \in T, NEW g,
           g = [i \in 1 .. Len(f) + 1 |-> g[i]],
           \A i \in 1 .. Len(f) : g[i] = f[i],
           g[Len(f) + 1] = k
    PROVE  g = Append(f, k)
<1>1. /\ Len(f) \in Nat
      /\ Append(f, k) \in [1 .. Len(f) + 1 -> T]
      /\ \A i \in 1 .. Len(f) : Append(f, k)[i] = f[i]
      /\ Append(f, k)[Len(f) + 1] = k
  <2>1. /\ Len(f) \in Nat
        /\ Append(f, k) \in Seq(T)
        /\ Len(Append(f, k)) = Len(f) + 1
        /\ \A i \in 1 .. Len(f) : Append(f, k)[i] = f[i]
        /\ Append(f, k)[Len(f) + 1] = k
    OBVIOUS
  <2>2. \A s \in Seq(T) : s \in [1 .. Len(s) -> T]
    OBVIOUS
  <2> QED BY <2>1, <2>2
<1>2. \A i \in 1 .. Len(f) + 1 : g[i] = Append(f, k)[i]
  BY <1>1
<1>3. g \in [1 .. Len(f) + 1 -> T]
  BY <1>1, <1>2
<1> QED BY <1>1, <1>2, <1>3

(* The refinement mapping, by name.                                        *)
Admitting  == [i \in DOMAIN reservations |-> reservations[i].intent_key]
Performing == [i \in DOMAIN runs |-> KeyOf(runs[i].call)]
Delivering == {KeyOf(r.call) : r \in results}

(* A permit names its intent.                                              *)
LEMMA KeyOfReservation ==
    ASSUME NEW c PROVE reservation(c).intent_key = KeyOf(c)
BY DEF reservation, permit, KeyOf

LEMMA MappingInitial == Init => Gate!Init
<1> SUFFICES ASSUME Init PROVE Gate!Init
  OBVIOUS
<1>1. reservations = <<>> /\ runs = <<>> /\ results = {}
  BY DEF Init, StoreInit
<1>2. Admitting = <<>> /\ Performing = <<>> /\ Delivering = {}
  BY <1>1 DEF Admitting, Performing, Delivering
<1> QED BY <1>2 DEF Gate!Init, Admitting, Performing, Delivering

(* Steps that change neither table nor histories are invisible.            *)
LEMMA Invisible ==
    ASSUME UNCHANGED <<reservations, runs, results>>
    PROVE  UNCHANGED Gate!admissionVars
BY DEF Gate!admissionVars

(* A commit of p admits the intent of its call, acknowledged or not.       *)
LEMMA CommitAdmits ==
    ASSUME ExecutorInv, NEW p \in Process, stage[p] = "inserted",
           reservations' = Append(reservations, row[p]), UNCHANGED execVars
    PROVE  Gate!Next
<1> USE DEF ExecutorInv
<1> DEFINE k == KeyOf(call[p])
<1>1. /\ stage[p] = "inserted"
      /\ reservations' = Append(reservations, row[p])
      /\ UNCHANGED <<runs, results>>
  BY DEF execVars
<1>2. /\ pc[p] = "reserving" /\ call[p] \in Call /\ parses(call[p])
      /\ row[p] = reservation(call[p]) /\ row[p] \in Row
  BY <1>1, ExecutorAssumption DEF CallInv, InCall
<1>3. k \in Intents
  BY <1>2 DEF Intents
<1>4. \A i \in DOMAIN reservations : reservations[i].intent_key # k
  <2>1. conflicting(row[p]) = {}
    BY <1>1 DEF StoreInv, InsertedFits
  <2>2. \A i \in DOMAIN reservations : ~ conflicts(row[p], reservations[i])
    BY <2>1 DEF conflicting, Range
  <2> QED BY <1>2, <2>2, KeyOfReservation DEF conflicts
<1>5. /\ reservations \in Seq(Row)
      /\ DOMAIN reservations = 1 .. Len(reservations)
      /\ DOMAIN reservations' = 1 .. Len(reservations) + 1
      /\ \A i \in DOMAIN reservations : reservations'[i] = reservations[i]
      /\ reservations'[Len(reservations) + 1] = row[p]
  BY <1>1, <1>2, RangeOfAppend DEF StoreInv, StoreTypeOK
<1>6. k \notin Range(Admitting)
  BY <1>4 DEF Admitting, Range
<1>7. Admitting' = Append(Admitting, k)
  <2> DEFINE T == {reservations[i].intent_key : i \in DOMAIN reservations}
                     \cup {k}
  <2>1. Admitting \in Seq(T) /\ Len(Admitting) = Len(reservations)
    BY <1>5 DEF Admitting
  <2>2. k \in T
    OBVIOUS
  <2>3. /\ Admitting' = [i \in 1 .. Len(Admitting) + 1 |-> Admitting'[i]]
        /\ \A i \in 1 .. Len(Admitting) : Admitting'[i] = Admitting[i]
    BY <1>5, <2>1 DEF Admitting
  <2>4. Admitting'[Len(Admitting) + 1] = k
    BY <1>2, <1>5, <2>1, KeyOfReservation DEF Admitting
  <2> HIDE DEF T, k
  <2> QED BY <2>1, <2>2, <2>3, <2>4, OneMore
<1>8. Gate!Admit(k)
  BY <1>1, <1>6, <1>7 DEF Gate!Admit, Gate!Range, Range, Admitting
<1> QED BY <1>3, <1>8 DEF Gate!Next, Gate!Admit

(* The run of p performs the intent that p's permit admitted.              *)
LEMMA RunPerforms ==
    ASSUME ExecutorInv, NEW p \in Process, NEW output \in Output,
           RunAdapter(p, output)
    PROVE  Gate!Next
<1> USE DEF ExecutorInv
<1> DEFINE Run == [call : Call, trust : TrustFile, adapter : Revision,
                   executed_at : 0 .. MaxTime]
           run == [call |-> call[p], trust |-> snapshot[p],
                   adapter |-> adapter[p], executed_at |-> executed_at[p]]
           k   == KeyOf(call[p])
<1>1. /\ pc[p] = "running"
      /\ runs' = Append(runs, run)
      /\ UNCHANGED <<reservations, results>>
  BY DEF RunAdapter, storeVars
<1>2. /\ call[p] \in Call /\ parses(call[p])
      /\ snapshot[p] \in TrustFile /\ adapter[p] \in Revision
      /\ executed_at[p] \in 0 .. MaxTime
  BY <1>1 DEF CallInv, InCall, Admitted, TypeOK
<1>3. holds(p)
  BY <1>1 DEF holds, Admitted
<1>4. k \in Intents
  BY <1>2 DEF Intents
<1>5. k \in Range(Admitting)
  <2>1. PICK i \in DOMAIN reservations : reservation(call[p]) = reservations[i]
    BY <1>3 DEF PermitInv, PermitsCommitted, Range
  <2> QED BY <2>1, KeyOfReservation DEF Admitting, Range
<1>6. k \notin Range(Performing)
  <2>1. \A i \in DOMAIN runs : compatible(runs[i].call, call[p])
    BY <1>1, <1>3 DEF PermitInv, PermitsUnused
  <2>2. \A i \in DOMAIN runs : KeyOf(runs[i].call) # k
    BY <2>1, KeyOfReservation DEF compatible
  <2> QED BY <2>2 DEF Performing, Range
<1>7. /\ runs \in Seq(Run) /\ run \in Run
  BY <1>2 DEF TypeOK
<1>8. /\ DOMAIN runs = 1 .. Len(runs)
      /\ DOMAIN runs' = 1 .. Len(runs) + 1
      /\ \A i \in DOMAIN runs : runs'[i] = runs[i]
      /\ runs'[Len(runs) + 1] = run
  <2> HIDE DEF Run, run
  <2> QED BY <1>1, <1>7, RangeOfAppend
<1>9. runs'[Len(runs) + 1].call = call[p]
  BY <1>8
<1>10. Performing' = Append(Performing, k)
  <2> DEFINE T == {KeyOf(runs[i].call) : i \in DOMAIN runs} \cup {k}
  <2>1. Len(runs) \in Nat
    BY <1>7
  <2> HIDE DEF Run, run
  <2>2. Performing \in Seq(T) /\ Len(Performing) = Len(runs)
    BY <1>8, <2>1 DEF Performing
  <2>3. k \in T
    OBVIOUS
  <2>4. /\ Performing' = [i \in 1 .. Len(Performing) + 1 |-> Performing'[i]]
        /\ \A i \in 1 .. Len(Performing) : Performing'[i] = Performing[i]
    BY <1>8, <2>1, <2>2 DEF Performing, KeyOf
  <2>5. Performing'[Len(Performing) + 1] = k
    BY <1>8, <1>9, <2>1, <2>2 DEF Performing, KeyOf
  <2> HIDE DEF T, k
  <2> QED BY <2>2, <2>3, <2>4, <2>5, OneMore
<1>11. Gate!Perform(k)
  BY <1>1, <1>5, <1>6, <1>10
     DEF Gate!Perform, Gate!Range, Range, Admitting, Performing
<1> QED BY <1>4, <1>11 DEF Gate!Next

(* The record that p returns delivers what p performed.                    *)
LEMMA ReturnDelivers ==
    ASSUME ExecutorInv, NEW p \in Process, ReturnResult(p)
    PROVE  Gate!Next
<1> USE DEF ExecutorInv
<1>0. PICK draw \in Draws["result"] :
         results' = results \cup
            {[call |-> call[p], trust |-> snapshot[p],
              record |-> result_record(call[p], trust[snapshot[p]],
                                       executed_at[p], counts[p], draw)]}
  BY Zenon DEF ReturnResult
<1> DEFINE k   == KeyOf(call[p])
           new == [call |-> call[p], trust |-> snapshot[p],
                   record |-> result_record(call[p], trust[snapshot[p]],
                                            executed_at[p], counts[p], draw)]
<1>1. /\ pc[p] = "ran"
      /\ results' = results \cup {new}
      /\ UNCHANGED <<reservations, runs>>
  BY <1>0 DEF ReturnResult, storeVars
<1>2. call[p] \in Call /\ parses(call[p]) /\ new.call = call[p]
  BY <1>1 DEF CallInv, InCall, Admitted
<1>3. k \in Intents
  BY <1>2 DEF Intents
<1>4. k \in Range(Performing)
  <2>1. PICK i \in DOMAIN runs : runs[i].call = call[p]
    BY <1>1 DEF PermitInv, RanOnce
  <2> QED BY <2>1 DEF Performing, Range
<1>5. k \notin Delivering
  BY <1>1 DEF PermitInv, RanOnce, Delivering
<1>6. Delivering' = Delivering \cup {k}
  <2> HIDE DEF new
  <2> QED BY <1>1, <1>2 DEF Delivering, KeyOf
<1>7. Gate!Deliver(k)
  BY <1>1, <1>4, <1>5, <1>6
     DEF Gate!Deliver, Gate!Range, Range, Performing, Delivering
<1> QED BY <1>3, <1>7 DEF Gate!Next

-----------------------------------------------------------------------------
LEMMA MappingStep == ExecutorInv /\ [Next]_vars => [Gate!Next]_Gate!admissionVars
<1> SUFFICES ASSUME ExecutorInv, [Next]_vars
             PROVE  [Gate!Next]_Gate!admissionVars
  OBVIOUS
<1>1. ASSUME NEW p \in Process, Reserving(p) \/ StoreError(p)
      PROVE  Gate!Next \/ UNCHANGED <<reservations, runs, results>>
  <2>1. CASE Commit(p) \/ CommitUnacknowledged(p)
    BY <1>1, <2>1, CommitAdmits
       DEF Reserving, StoreError, Commit, CommitUnacknowledged
  <2>2. CASE ~ Commit(p) /\ ~ CommitUnacknowledged(p)
    BY <1>1, <2>2 DEF Reserving, StoreError, ReserveStep, BeginImmediate,
       BusyTimeout, CheckClock, RejectExpired, Insert, RejectReplay, Rollback,
       StoreFails, execVars
  <2> QED BY <2>1, <2>2
<1>2. ASSUME NEW p \in Process,
             ReserveRaised(p) \/ Start(p) \/ ExpiredAfterReserve(p)
                 \/ RejectCounts(p)
      PROVE  UNCHANGED <<reservations, runs, results>>
  BY <1>2 DEF ReserveRaised, Start, ExpiredAfterReserve, Return, RejectCounts,
              storeVars
<1>3. ASSUME NEW p \in Process,
             \/ \E injected \in InjectedAdapter \cup {NoAdapter} :
                   Construct(p, injected)
             \/ \E c \in Call : Execute(p, c)
             \/ ExecutionError(p) \/ Crash(p)
      PROVE  UNCHANGED <<reservations, runs, results>>
  BY <1>3 DEF Construct, Execute, Reserve, ExecutionError, Crash, ProcessDies,
              storeVars
<1>4. ASSUME \/ \E t \in TrustFile : EditTrust(t)
             \/ ClockTicks \/ UNCHANGED vars
      PROVE  UNCHANGED <<reservations, runs, results>>
  BY <1>4 DEF EditTrust, ClockTicks, Tick, vars, storeVars, execVars
<1> QED BY <1>1, <1>2, <1>3, <1>4, Invisible, RunPerforms,
           ReturnDelivers DEF Next, ExecuteStep

(* Every behaviour of the executors is one of the admission service.       *)
THEOREM ExecutorImplementsAdmission == Spec => ImplementsAdmission
BY ExecutorInvariant, MappingInitial, MappingStep, PTL
   DEF Spec, ImplementsAdmission, Gate!Spec

=============================================================================

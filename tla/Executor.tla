------------------------------ MODULE Executor ------------------------------
(***************************************************************************)
(* The protected executor (executor.ProtectedExecutor): verify the         *)
(* receipt, reserve it durably, run the adapter, return a signed result.   *)
(*                                                                         *)
(* Several executor processes share the replay store of one gateway.  Each *)
(* takes a snapshot of the trust file when it is constructed and serves    *)
(* one call of execute() at a time; the trust file may be edited while     *)
(* they run, a process may die at any point and be started again, and the  *)
(* clock moves between any two of their steps.                             *)
(*                                                                         *)
(* A call of execute() presents the bytes of a request and of a receipt.   *)
(* Which bytes occur is the parameter Call, with the two functions that    *)
(* give the request and the receipt of a call; TrustFile and trust do the  *)
(* same for the contents of the trust file.                                *)
(***************************************************************************)
EXTENDS ReplayStore, Results

CONSTANTS
    Call, request_data, receipt_data,
    TrustFile, trust,
    executor_key,      \* the executor's key file
    NoCall, NoTrust,
    NoAdapter,         \* the caller passes no adapter of its own
    InjectedAdapter,   \* the revisions of the adapters it may pass
    Output,            \* the counts an adapter may return
    NoOutput

(* The arguments execute() passes to reserve().                            *)
reservation(c) == permit(request_data[c], receipt_data[c])

parses(c) == request_data[c] # Malformed /\ receipt_data[c] # Malformed

spec(c) == request_data[c].intent.parameters.experiment

ASSUME ExecutorAssumption ==
    /\ NoCall \notin Call
    /\ NoTrust \notin TrustFile
    /\ NoOutput \notin Output
    /\ \A c \in Call : parses(c) =>
          /\ reservation(c) \in Row
          /\ request_data[c].intent.created_at \in Nat
          /\ request_data[c].intent.expires_at \in Nat
          /\ receipt_data[c].header.issued_at \in Nat
          /\ \E n \in 0 .. 16 : DOMAIN receipt_data[c].attestations = 1 .. n
    /\ \A t \in TrustFile : trust[t].policy.quorum \in Nat

VARIABLES
    trust_file,     \* what the trust file holds
    snapshot,       \* snapshot[p]: the trust p was constructed with
    adapter,        \* adapter[p]: the revision of p's adapter
    pc,             \* pc[p]: where p is in execute(), "down" if not running
    call,           \* call[p]: the call p serves
    executed_at,    \* executed_at[p]: the local variable of that name
    counts,         \* counts[p]: what the adapter returned
    runs,           \* history: the adapter runs, in the order they began
    results         \* history: the result records returned to callers

execVars == <<trust_file, snapshot, adapter, pc, call, executed_at, counts,
              runs, results>>
vars == <<now, reservations, writer, stage, row,
          trust_file, snapshot, adapter, pc, call, executed_at, counts,
          runs, results>>

PC == {"down", "idle", "reserving", "running", "ran"}

(* The part of execute() behind a successful reserve().                    *)
Admitted == {"running", "ran"}

Init ==
    /\ StoreInit
    /\ trust_file \in TrustFile
    /\ snapshot = [p \in Process |-> NoTrust]
    /\ adapter = [p \in Process |-> NoAdapter]
    /\ pc = [p \in Process |-> "down"]
    /\ call = [p \in Process |-> NoCall]
    /\ executed_at = [p \in Process |-> 0]
    /\ counts = [p \in Process |-> NoOutput]
    /\ runs = <<>>
    /\ results = {}

-----------------------------------------------------------------------------
(* A process loads the trust file and constructs its executor, with the    *)
(* caller's adapter or the one the policy calls for.                       *)
Construct(p, injected) ==
    /\ pc[p] = "down"
    /\ construct_check(trust[trust_file], executor_key) = OK
    /\ pc' = [pc EXCEPT ![p] = "idle"]
    /\ snapshot' = [snapshot EXCEPT ![p] = trust_file]
    /\ adapter' = [adapter EXCEPT ![p] =
                      IF injected # NoAdapter THEN injected
                      ELSE default_adapter(trust[trust_file].policy)]
    /\ UNCHANGED <<trust_file, call, executed_at, counts, runs, results>>
    /\ UNCHANGED storeVars

(* What execute() checks before it reserves for the call c.                *)
execute_check(c, t, revision, time) ==
    execute_checks(request_data[c], receipt_data[c], t, revision, time)

(* The adapters an executor can have: one per backend, or the caller's.    *)
Revision == {BUILTIN, AER_CPU, AER_GPU} \cup InjectedAdapter

(* The checks depend on nothing but the call, the trust, the adapter and   *)
(* the time; these are the combinations that pass.                         *)
Accepted ==
    {q \in Call \X TrustFile \X Revision \X (0 .. MaxTime) :
        execute_check(q[1], trust[q[2]], q[3], q[4]) = OK}

accepts(c, t, revision, time) == <<c, t, revision, time>> \in Accepted

(* Mutant: the trust file is read again instead of the snapshot.           *)
ExecuteRereadsTrust(p, c) ==
    /\ pc[p] = "idle"
    /\ accepts(c, trust_file, adapter[p], now)
    /\ Reserve(p, reservation(c))
    /\ pc' = [pc EXCEPT ![p] = "reserving"]
    /\ call' = [call EXCEPT ![p] = c]
    /\ UNCHANGED <<trust_file, snapshot, adapter, executed_at, counts,
                   runs, results>>

(* Mutant: the call forgets what it was asked to execute.                  *)
ExecuteForgetsCall(p, c) ==
    /\ pc[p] = "idle"
    /\ accepts(c, snapshot[p], adapter[p], now)
    /\ Reserve(p, reservation(c))
    /\ pc' = [pc EXCEPT ![p] = "reserving"]
    /\ UNCHANGED <<trust_file, snapshot, adapter, call, executed_at, counts,
                   runs, results>>

(* execute() up to the call of reserve().  A call that fails a check       *)
(* raises its code and changes nothing, so it is no step of the model.     *)
Execute(p, c) ==
    /\ pc[p] = "idle"
    /\ accepts(c, snapshot[p], adapter[p], now)
    /\ Reserve(p, reservation(c))
    /\ pc' = [pc EXCEPT ![p] = "reserving"]
    /\ call' = [call EXCEPT ![p] = c]
    /\ UNCHANGED <<trust_file, snapshot, adapter, executed_at, counts,
                   runs, results>>

(* reserve() runs within execute().                                        *)
Reserving(p) ==
    /\ ReserveStep(p)
    /\ UNCHANGED execVars

(* The call of p ends; its local variables are gone.                       *)
Leave(p) ==
    /\ pc' = [pc EXCEPT ![p] = "idle"]
    /\ call' = [call EXCEPT ![p] = NoCall]
    /\ executed_at' = [executed_at EXCEPT ![p] = 0]
    /\ counts' = [counts EXCEPT ![p] = NoOutput]
    /\ UNCHANGED <<trust_file, snapshot, adapter>>

(* reserve() raised REPLAY, RECEIPT_EXPIRED or REPLAY_STORE_ERROR.         *)
ReserveRaised(p) ==
    /\ pc[p] = "reserving"
    /\ stage[p] \in Replies \ {"RESERVED"}
    /\ Return(p)
    /\ Leave(p)
    /\ UNCHANGED <<runs, results>>

(* Mutant: no second look at the clock after reserve().                    *)
StartUnchecked(p) ==
    /\ pc[p] = "reserving"
    /\ stage[p] = "RESERVED"
    /\ Return(p)
    /\ pc' = [pc EXCEPT ![p] = "running"]
    /\ executed_at' = [executed_at EXCEPT ![p] = now]
    /\ UNCHANGED <<trust_file, snapshot, adapter, call, counts, runs, results>>

(* reserve() returned: read the clock again, and start.                    *)
Start(p) ==
    /\ pc[p] = "reserving"
    /\ stage[p] = "RESERVED"
    /\ now < row[p].expires_at
    /\ Return(p)
    /\ pc' = [pc EXCEPT ![p] = "running"]
    /\ executed_at' = [executed_at EXCEPT ![p] = now]
    /\ UNCHANGED <<trust_file, snapshot, adapter, call, counts, runs, results>>

(* The second check fails: RECEIPT_EXPIRED, and the permit stays spent.    *)
ExpiredAfterReserve(p) ==
    /\ pc[p] = "reserving"
    /\ stage[p] = "RESERVED"
    /\ row[p].expires_at <= now
    /\ Return(p)
    /\ Leave(p)
    /\ UNCHANGED <<runs, results>>

(* Mutant: executed_at is taken when the adapter has returned.             *)
RunThenStamp(p, output) ==
    /\ pc[p] = "running"
    /\ runs' = Append(runs, [call |-> call[p], trust |-> snapshot[p],
                             adapter |-> adapter[p],
                             executed_at |-> executed_at[p]])
    /\ counts' = [counts EXCEPT ![p] = output]
    /\ executed_at' = [executed_at EXCEPT ![p] = now]
    /\ pc' = [pc EXCEPT ![p] = "ran"]
    /\ UNCHANGED <<trust_file, snapshot, adapter, call, results>>
    /\ UNCHANGED storeVars

(* adapter.run(spec): the side effect.                                     *)
RunAdapter(p, output) ==
    /\ pc[p] = "running"
    /\ runs' = Append(runs, [call |-> call[p], trust |-> snapshot[p],
                             adapter |-> adapter[p],
                             executed_at |-> executed_at[p]])
    /\ counts' = [counts EXCEPT ![p] = output]
    /\ pc' = [pc EXCEPT ![p] = "ran"]
    /\ UNCHANGED <<trust_file, snapshot, adapter, call, executed_at, results>>
    /\ UNCHANGED storeVars

-----------------------------------------------------------------------------
(* The record execute() signs and returns for the call c.                  *)
result_record(c, t, time, found, draw) ==
    record(request_data[c], receipt_data[c], t, executor_key, time, found,
           draw)

(* execute() checks the counts, signs the record and returns it.           *)
ReturnResult(p) ==
    /\ pc[p] = "ran"
    /\ check_counts(counts[p], spec(call[p])) = OK
    /\ \E draw \in Draws["result"] :
          results' = results \cup
             {[call |-> call[p], trust |-> snapshot[p],
               record |-> result_record(call[p], trust[snapshot[p]],
                                        executed_at[p], counts[p], draw)]}
    /\ Leave(p)
    /\ UNCHANGED runs
    /\ UNCHANGED storeVars

(* RESULT_COUNTS_INVALID: the adapter ran, the caller gets no record.      *)
RejectCounts(p) ==
    /\ pc[p] = "ran"
    /\ check_counts(counts[p], spec(call[p])) # OK
    /\ Leave(p)
    /\ UNCHANGED <<runs, results>>
    /\ UNCHANGED storeVars

(* Mutant: a failed execution is tried once more on the same permit.       *)
ExecutionRetried(p) ==
    /\ pc[p] \in Admitted
    /\ pc' = [pc EXCEPT ![p] = "running"]
    /\ UNCHANGED <<trust_file, snapshot, adapter, call, executed_at, counts,
                   runs, results>>
    /\ UNCHANGED storeVars

(* The adapter or the signer raises, before or after the side effect.      *)
ExecutionError(p) ==
    /\ pc[p] \in Admitted
    /\ Leave(p)
    /\ UNCHANGED <<runs, results>>
    /\ UNCHANGED storeVars

-----------------------------------------------------------------------------
(* A failure of SQLite that reserve() turns into REPLAY_STORE_ERROR.       *)
StoreError(p) ==
    /\ StoreFails(p) \/ CommitUnacknowledged(p)
    /\ UNCHANGED execVars

(* The process dies and loses everything but the replay store.             *)
Crash(p) ==
    /\ pc[p] # "down"
    /\ ProcessDies(p)
    /\ pc' = [pc EXCEPT ![p] = "down"]
    /\ snapshot' = [snapshot EXCEPT ![p] = NoTrust]
    /\ adapter' = [adapter EXCEPT ![p] = NoAdapter]
    /\ call' = [call EXCEPT ![p] = NoCall]
    /\ executed_at' = [executed_at EXCEPT ![p] = 0]
    /\ counts' = [counts EXCEPT ![p] = NoOutput]
    /\ UNCHANGED <<trust_file, runs, results>>

(* The operator replaces the trust file.                                   *)
EditTrust(t) ==
    /\ trust_file # t
    /\ trust_file' = t
    /\ UNCHANGED <<snapshot, adapter, pc, call, executed_at, counts,
                   runs, results>>
    /\ UNCHANGED storeVars

ClockTicks == Tick /\ UNCHANGED execVars

(* The steps p keeps taking once it has begun a call.                      *)
ExecuteStep(p) ==
    \/ Reserving(p)
    \/ ReserveRaised(p) \/ Start(p) \/ ExpiredAfterReserve(p)
    \/ \E output \in Output : RunAdapter(p, output)
    \/ ReturnResult(p) \/ RejectCounts(p)

Next ==
    \/ \E p \in Process :
          \/ \E injected \in InjectedAdapter \cup {NoAdapter} :
                Construct(p, injected)
          \/ \E c \in Call : Execute(p, c)
          \/ ExecuteStep(p)
          \/ StoreError(p) \/ ExecutionError(p) \/ Crash(p)
    \/ \E t \in TrustFile : EditTrust(t)
    \/ ClockTicks

Spec == Init /\ [][Next]_vars

(* A live process is scheduled, and adapters return.                       *)
FairSpec == Spec /\ \A p \in Process : WF_vars(ExecuteStep(p))

-----------------------------------------------------------------------------
TypeOK ==
    /\ StoreTypeOK
    /\ trust_file \in TrustFile
    /\ snapshot \in [Process -> TrustFile \cup {NoTrust}]
    /\ adapter \in [Process -> Revision \cup {NoAdapter}]
    /\ pc \in [Process -> PC]
    /\ call \in [Process -> Call \cup {NoCall}]
    /\ executed_at \in [Process -> 0 .. MaxTime]
    /\ counts \in [Process -> Output \cup {NoOutput}]
    /\ runs \in Seq([call : Call, trust : TrustFile, adapter : Revision,
                     executed_at : 0 .. MaxTime])
    /\ \A r \in results : r.call \in Call /\ r.trust \in TrustFile

(* The hardware acts at most once for an intent and at most once for a     *)
(* receipt, over all executor processes, restarts, reissued receipts and   *)
(* interleavings.                                                          *)
AtMostOneRun ==
    \A i, j \in DOMAIN runs :
        LET first == reservation(runs[i].call)
            again == reservation(runs[j].call)
        IN  i # j => /\ first.receipt_id # again.receipt_id
                     /\ first.intent_key # again.intent_key

(* Every run is covered by a durable reservation that was there before it, *)
(* so a crash between the two never lets a second process run the intent.  *)
RunImpliesReserved ==
    \A i \in DOMAIN runs : reservation(runs[i].call) \in Range(reservations)

(* Every run was authorized at the time its record claims, under the trust *)
(* its executor holds, although the receipt was verified before a call of  *)
(* reserve() that may have blocked for any time, and on the backend that   *)
(* the intent names.                                                       *)
AuthorizedWhenRun ==
    \A i \in DOMAIN runs :
        accepts(runs[i].call, runs[i].trust, runs[i].adapter,
                runs[i].executed_at)

(* v, a verifier of the bundle t, has signed that it allows the intent of  *)
(* the request under the header of the receipt.                            *)
allows(v, request, receipt, t) ==
    \E i \in DOMAIN receipt.attestations :
        LET body == receipt.attestations[i].body IN
        /\ body.verifier_id = v
        /\ body.disposition = "ALLOW"
        /\ body.header.action_digest = digest("intent", request.intent)
        /\ body.header.policy_digest = digest("policy", t.policy)
        /\ body.header.receipt_id = receipt.header.receipt_id
        /\ \A algorithm \in components(t.policy.suite) :
              made_by(receipt.attestations[i].signatures[algorithm],
                      t.verifiers[v][algorithm],
                      message("attestation", t.policy.suite, v, body))

(* The calls and bundles for which that many verifiers have.               *)
QuorumBacked ==
    {q \in Call \X TrustFile :
        LET t == trust[q[2]] IN
        /\ parses(q[1])
        /\ Cardinality({v \in DOMAIN t.verifiers :
                            allows(v, request_data[q[1]], receipt_data[q[1]], t)})
              >= t.policy.quorum}

(* Behind every run stand at least quorum different verifiers, each with   *)
(* its own signature over this intent, this policy and this receipt: no    *)
(* verifier counts twice and no evidence is borrowed from another receipt. *)
QuorumBehindRun ==
    \A i \in DOMAIN runs : <<runs[i].call, runs[i].trust>> \in QuorumBacked

(* A record that execute() returned passes verify_result, later and for    *)
(* anybody who holds the same trust: what the executor signs is consistent *)
(* with the request, the receipt and the time it claims.                   *)
ProvenanceVerifies ==
    \A r \in results :
        verify_result(r.record, request_data[r.call], receipt_data[r.call],
                      trust[r.trust]) = OK

(* Only a call that passed every check of execute() spends a permit: a     *)
(* request refused as stale, denied, malformed or for another backend      *)
(* leaves the intent free to be executed.                                  *)
AuthorizedSpend(p) ==
    /\ pc[p] = "reserving"
    /\ \E time \in 0 .. now :
          accepts(call[p], snapshot[p], adapter[p], time)
    /\ reservations' = Append(reservations, reservation(call[p]))
SpentOnlyByAuthorized ==
    [][reservations' = reservations \/ \E p \in Process : AuthorizedSpend(p)]_vars

(* execute() returns or raises, whatever the other processes do.           *)
CallsReturn ==
    \A p \in Process :
        pc[p] \notin {"down", "idle"} ~> pc[p] \in {"down", "idle"}

-----------------------------------------------------------------------------
(* The executor implements the abstract admission service: the committed   *)
(* rows are the admissions, the adapter runs what was performed, the       *)
(* records returned what was delivered.                                    *)
KeyOf(c) == intent_key(request_data[c])

Intents == {KeyOf(c) : c \in {d \in Call : parses(d)}}

Gate == INSTANCE Admission WITH
    Key       <- Intents,
    admitted  <- [i \in DOMAIN reservations |-> reservations[i].intent_key],
    performed <- [i \in DOMAIN runs |-> KeyOf(runs[i].call)],
    delivered <- {KeyOf(r.call) : r \in results}

(* Every behaviour of the executors is one of the admission service.       *)
ImplementsAdmission == Gate!Spec

=============================================================================

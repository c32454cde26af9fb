--------------------------- MODULE ExecutorProofs ---------------------------
(***************************************************************************)
(* What the protected executor guarantees for every set of processes,      *)
(* calls, trust bundles, adapters and outputs.                             *)
(*                                                                         *)
(* At-most-once execution does not follow from the uniqueness of the rows  *)
(* alone: a call runs the adapter some steps after its commit.  The        *)
(* invariant therefore follows each permit from the commit to the run: who *)
(* holds one has its row in the table, no two processes hold permits that  *)
(* conflict, and a permit that is held and not yet used conflicts with no  *)
(* earlier run.                                                            *)
(***************************************************************************)
EXTENDS Executor, ReplayStoreProofs, ProtocolProofs

InCall == {"reserving"} \cup Admitted

(* p has a committed reservation and its call has not ended.               *)
holds(p) ==
    \/ pc[p] \in Admitted
    \/ pc[p] = "reserving" /\ stage[p] = "RESERVED"

(* Two calls that the replay store can admit both.                         *)
compatible(c, d) ==
    /\ reservation(c).receipt_id # reservation(d).receipt_id
    /\ reservation(c).intent_key # reservation(d).intent_key

(* p itself: its executor is configured, a call under way has its          *)
(* arguments, what it reserves is what it checked some time ago, and from  *)
(* the second look at the clock on it is authorized at executed_at.        *)
CallInv(p) ==
    /\ pc[p] # "down" => snapshot[p] \in TrustFile /\ adapter[p] \in Revision
    /\ pc[p] \in InCall => call[p] \in Call /\ parses(call[p])
    /\ pc[p] = "reserving" <=> stage[p] # "idle"
    /\ pc[p] = "reserving" =>
          /\ row[p] = reservation(call[p])
          /\ \E time \in 0 .. now :
                accepts(call[p], snapshot[p], adapter[p], time)
    /\ pc[p] \in Admitted =>
          accepts(call[p], snapshot[p], adapter[p], executed_at[p])

PermitsCommitted ==
    \A p \in Process :
        holds(p) => reservation(call[p]) \in Range(reservations)

PermitsExclusive ==
    \A p, q \in Process :
        p # q /\ holds(p) /\ holds(q) => compatible(call[p], call[q])

PermitsUnused ==
    \A p \in Process :
        holds(p) /\ pc[p] # "ran" =>
            \A i \in DOMAIN runs : compatible(runs[i].call, call[p])

RunsCommitted ==
    \A i \in DOMAIN runs :
        /\ parses(runs[i].call)
        /\ reservation(runs[i].call) \in Range(reservations)

(* A call that ran the adapter and has not returned.                       *)
RanOnce ==
    \A p \in Process :
        pc[p] = "ran" =>
            /\ \E i \in DOMAIN runs : runs[i].call = call[p]
            /\ \A r \in results : KeyOf(r.call) # KeyOf(call[p])

ResultsFromRuns ==
    \A r \in results :
        \E i \in DOMAIN runs : runs[i].call = r.call

(* The permits and the histories, which relate the processes to each       *)
(* other.                                                                  *)
PermitInv ==
    /\ PermitsCommitted
    /\ PermitsExclusive
    /\ PermitsUnused
    /\ RunsCommitted
    /\ RanOnce
    /\ ResultsFromRuns
    /\ AtMostOneRun
    /\ AuthorizedWhenRun

ExecutorInv ==
    /\ TypeOK
    /\ StoreInv
    /\ \A p \in Process : CallInv(p)
    /\ PermitInv

-----------------------------------------------------------------------------
(* What passed the checks of execute() parsed, and names the call.         *)
LEMMA AcceptedParses ==
    ASSUME NEW c, NEW t, NEW revision, NEW time, accepts(c, t, revision, time)
    PROVE  /\ c \in Call /\ t \in TrustFile /\ revision \in Revision
           /\ time \in 0 .. MaxTime
           /\ execute_check(c, trust[t], revision, time) = OK
           /\ parses(c)
<1>1. /\ c \in Call /\ t \in TrustFile /\ revision \in Revision
      /\ time \in 0 .. MaxTime
      /\ execute_check(c, trust[t], revision, time) = OK
  BY DEF accepts, Accepted
<1>2. verify_receipt(request_data[c], receipt_data[c], trust[t], time) = OK
  BY <1>1, ChainPasses DEF execute_check, execute_checks, spec
<1>3. parse(request_data[c]) = OK /\ parse(receipt_data[c]) = OK
  BY <1>2, ChainPasses DEF verify_receipt
<1>4. parses(c)
  BY <1>3, RequirePasses DEF parses, parse, OK
<1> QED BY <1>1, <1>4

(* What execute() accepted once it accepts until the receipt expires: the  *)
(* only checks that read the clock are windows, and the receipt's window   *)
(* closes first.                                                           *)
THEOREM AcceptedUntilExpiry ==
    ASSUME NEW c, NEW t, NEW revision, NEW early,
           accepts(c, t, revision, early),
           NEW late \in 0 .. MaxTime, early <= late,
           late < reservation(c).expires_at
    PROVE  accepts(c, t, revision, late)
<1> DEFINE request == request_data[c]
           receipt == receipt_data[c]
<1>1. /\ c \in Call /\ t \in TrustFile /\ revision \in Revision
      /\ early \in 0 .. MaxTime
      /\ execute_check(c, trust[t], revision, early) = OK
      /\ parses(c)
  BY AcceptedParses
<1>2. /\ request.intent.created_at \in Nat
      /\ request.intent.expires_at \in Nat
      /\ receipt.header.issued_at \in Nat
      /\ receipt.header.expires_at \in Nat
      /\ late < receipt.header.expires_at
      /\ early \in Nat /\ late \in Nat
  <2>1. reservation(c).expires_at = receipt.header.expires_at
    BY DEF reservation, permit
  <2>2. reservation(c) \in Row
    BY <1>1, ExecutorAssumption
  <2>3. reservation(c).expires_at \in Nat
    BY <2>2, StoreAssumption
  <2> QED BY <1>1, <2>1, <2>3, ExecutorAssumption, StoreAssumption
<1>3. verify_receipt(request, receipt, trust[t], early) = OK
  BY <1>1, ChainPasses DEF execute_check, execute_checks, spec
<1>4. inspect_receipt(request, receipt, trust[t], early) = OK
  BY <1>3, ChainPasses DEF verify_receipt
<1>5. inspect_receipt(request, receipt, trust[t], late) = OK
  BY <1>1, <1>2, <1>4, InspectionUntilExpiry
<1>6. verify_receipt(request, receipt, trust[t], late) = OK
  BY <1>3, <1>4, <1>5, ChainPasses DEF verify_receipt
<1>7. execute_check(c, trust[t], revision, late) = OK
  BY <1>1, <1>3, <1>6, ChainPasses DEF execute_check, execute_checks, spec
<1> QED BY <1>1, <1>7 DEF accepts, Accepted

-----------------------------------------------------------------------------
LEMMA CompatibleSymmetric ==
    ASSUME NEW c, NEW d PROVE compatible(c, d) <=> compatible(d, c)
BY DEF compatible

(* The executor uses the store as its callers may: every step of its       *)
(* processes is a step of the store, or none.                              *)
LEMMA StepIsStoreStep == [Next]_vars => [StoreNext]_storeVars
<1> SUFFICES ASSUME [Next]_vars PROVE [StoreNext]_storeVars
  OBVIOUS
<1>1. ASSUME NEW p \in Process, NEW c \in Call, Execute(p, c)
      PROVE  StoreNext
  <2>1. parses(c)
    BY <1>1, AcceptedParses DEF Execute
  <2>2. reservation(c) \in Row
    BY <2>1, ExecutorAssumption
  <2> QED BY <1>1, <2>2 DEF Execute, StoreNext
<1>2. ASSUME NEW p \in Process, ExecuteStep(p)
      PROVE  [StoreNext]_storeVars
  BY <1>2 DEF ExecuteStep, Reserving, ReserveRaised, Start, RunAdapter,
              ExpiredAfterReserve, ReturnResult, RejectCounts, StoreNext
<1>3. ASSUME NEW p \in Process, StoreError(p) \/ ExecutionError(p) \/ Crash(p)
      PROVE  [StoreNext]_storeVars
  BY <1>3 DEF StoreError, ExecutionError, Crash, StoreNext
<1>4. ASSUME NEW p \in Process,
             NEW injected \in InjectedAdapter \cup {NoAdapter},
             Construct(p, injected)
      PROVE  UNCHANGED storeVars
  BY <1>4 DEF Construct
<1>5. ASSUME NEW t \in TrustFile, EditTrust(t) PROVE UNCHANGED storeVars
  BY <1>5 DEF EditTrust
<1>6. CASE ClockTicks
  BY <1>6 DEF ClockTicks, StoreNext
<1>7. CASE UNCHANGED vars
  BY <1>7 DEF vars, storeVars
<1> QED BY <1>1, <1>2, <1>3, <1>4, <1>5, <1>6, <1>7 DEF Next

LEMMA ExecutorInitial == Init => ExecutorInv
<1> SUFFICES ASSUME Init PROVE ExecutorInv
  OBVIOUS
<1> USE StoreAssumption, ExecutorAssumption DEF Init
<1>1. StoreInv
  BY StoreInitial
<1>2. TypeOK
  BY <1>1 DEF StoreInv, TypeOK, PC
<1>3. \A p \in Process : CallInv(p)
  BY DEF CallInv, InCall, Admitted, StoreInit
<1>4. PermitInv
  BY DEF PermitInv, PermitsCommitted, PermitsExclusive, PermitsUnused,
         RunsCommitted, RanOnce, ResultsFromRuns, AtMostOneRun,
         AuthorizedWhenRun, holds, Admitted
<1> QED BY <1>1, <1>2, <1>3, <1>4 DEF ExecutorInv

-----------------------------------------------------------------------------
(* A step of p leaves the other processes where they are.                  *)
Private(p) ==
    \A q \in Process :
        q # p =>
            /\ pc'[q] = pc[q] /\ stage'[q] = stage[q] /\ row'[q] = row[q]
            /\ call'[q] = call[q] /\ executed_at'[q] = executed_at[q]
            /\ snapshot'[q] = snapshot[q] /\ adapter'[q] = adapter[q]

LEMMA OthersKeepCallInv ==
    ASSUME NEW p \in Process, Private(p), now' = now,
           NEW q \in Process, q # p, CallInv(q)
    PROVE  CallInv(q)'
<1>1. /\ pc'[q] = pc[q] /\ stage'[q] = stage[q] /\ row'[q] = row[q]
      /\ call'[q] = call[q] /\ executed_at'[q] = executed_at[q]
      /\ snapshot'[q] = snapshot[q] /\ adapter'[q] = adapter[q]
  BY DEF Private
<1> QED BY <1>1 DEF CallInv

(* A step of p that ends without a permit for p and leaves the table and   *)
(* the histories alone disturbs nobody's permit.                           *)
LEMMA PrivateStepKeepsPermits ==
    ASSUME PermitInv, NEW p \in Process, Private(p), ~ holds(p)',
           UNCHANGED <<reservations, runs, results>>
    PROVE  PermitInv'
<1>1. \A q \in Process : q # p => (holds(q)' <=> holds(q))
  BY DEF Private, holds
<1>2. pc'[p] # "ran"
  BY DEF holds, Admitted
<1> USE <1>1, <1>2 DEF Private, PermitInv
<1>3. PermitsCommitted'
  BY DEF PermitsCommitted
<1>4. PermitsExclusive'
  BY DEF PermitsExclusive
<1>5. PermitsUnused'
  BY DEF PermitsUnused
<1>6. RanOnce'
  BY DEF RanOnce
<1>7. RunsCommitted' /\ ResultsFromRuns' /\ AtMostOneRun' /\ AuthorizedWhenRun'
  BY DEF RunsCommitted, ResultsFromRuns, AtMostOneRun, AuthorizedWhenRun
<1> QED BY <1>3, <1>4, <1>5, <1>6, <1>7

(* The steps that leave p without a permit: the beginning of a call, the   *)
(* ways it fails, and the death and the restart of the process.            *)
LEMMA PermitlessStepKeepsInv ==
    ASSUME ExecutorInv, StoreInv', NEW p \in Process,
           \/ \E injected \in InjectedAdapter \cup {NoAdapter} :
                 Construct(p, injected)
           \/ \E c \in Call : Execute(p, c)
           \/ ReserveRaised(p) \/ ExpiredAfterReserve(p)
           \/ RejectCounts(p) \/ ExecutionError(p) \/ Crash(p)
    PROVE  ExecutorInv'
<1> USE DEF ExecutorInv
<1>1. ASSUME NEW injected \in InjectedAdapter \cup {NoAdapter},
             Construct(p, injected)
      PROVE  /\ TypeOK' /\ Private(p) /\ ~ holds(p)' /\ CallInv(p)'
             /\ UNCHANGED <<now, reservations, runs, results>>
  BY <1>1 DEF Construct, TypeOK, PC, Private, storeVars, StoreInv, holds,
              Admitted, InCall, CallInv, Revision, default_adapter
<1>2. ASSUME NEW c \in Call, Execute(p, c)
      PROVE  /\ TypeOK' /\ Private(p) /\ ~ holds(p)' /\ CallInv(p)'
             /\ UNCHANGED <<now, reservations, runs, results>>
  <2>1. parses(c) /\ accepts(c, snapshot[p], adapter[p], now)
    BY <1>2, AcceptedParses DEF Execute
  <2>2. /\ TypeOK' /\ Private(p) /\ ~ holds(p)'
        /\ UNCHANGED <<now, reservations, runs, results>>
    BY <1>2 DEF Execute, Reserve, TypeOK, PC, Private, StoreInv, StoreTypeOK,
                holds, Admitted
  <2>3. now \in 0 .. now
    BY StoreAssumption DEF StoreInv, StoreTypeOK
  <2>4. /\ pc[p] = "idle" /\ pc'[p] = "reserving" /\ stage'[p] = "opening"
        /\ call'[p] = c /\ row'[p] = reservation(c)
        /\ snapshot' = snapshot /\ adapter' = adapter /\ now' = now
    BY <1>2 DEF Execute, Reserve, TypeOK, PC, StoreInv, StoreTypeOK
  <2>5. CallInv(p)'
    BY <2>1, <2>3, <2>4 DEF CallInv, InCall, Admitted
  <2> QED BY <2>2, <2>5
<1>3. CASE \/ ReserveRaised(p) \/ ExpiredAfterReserve(p)
           \/ RejectCounts(p) \/ ExecutionError(p)
  <2>1. /\ pc' = [pc EXCEPT ![p] = "idle"]
        /\ call' = [call EXCEPT ![p] = NoCall]
        /\ executed_at' = [executed_at EXCEPT ![p] = 0]
        /\ counts' = [counts EXCEPT ![p] = NoOutput]
        /\ UNCHANGED <<trust_file, snapshot, adapter, runs, results, now,
                       reservations>>
        /\ \/ pc[p] = "reserving" /\ Return(p)
           \/ pc[p] \in Admitted /\ UNCHANGED <<stage, row>>
    BY <1>3 DEF ReserveRaised, ExpiredAfterReserve, RejectCounts, Admitted,
                ExecutionError, Leave, Return, storeVars
  <2>2. TypeOK' /\ Private(p) /\ ~ holds(p)' /\ CallInv(p)'
    BY <2>1, StoreAssumption DEF TypeOK, PC, Private, StoreInv, StoreTypeOK,
       holds, Return, CallInv, InCall, Admitted
  <2> QED BY <2>1, <2>2, OthersKeepCallInv, PrivateStepKeepsPermits
<1>4. ASSUME Crash(p)
      PROVE  /\ TypeOK' /\ Private(p) /\ ~ holds(p)' /\ CallInv(p)'
             /\ UNCHANGED <<now, reservations, runs, results>>
  BY <1>4, StoreAssumption DEF Crash, ProcessDies, TypeOK, PC, Private,
     StoreInv, StoreTypeOK, holds, Admitted, InCall, CallInv
<1> QED BY <1>1, <1>2, <1>3, <1>4, OthersKeepCallInv, PrivateStepKeepsPermits

(* Inside reserve(): every step but a commit leaves p without a permit.    *)
LEMMA ReservingKeepsInv ==
    ASSUME ExecutorInv, StoreInv', NEW p \in Process,
           Reserving(p) \/ StoreError(p),
           ~ Commit(p) /\ ~ CommitUnacknowledged(p)
    PROVE  ExecutorInv'
<1> USE DEF ExecutorInv
<1>1. /\ UNCHANGED execVars
      /\ UNCHANGED <<now, reservations, row>>
      /\ stage[p] # "idle"
      /\ \E s \in {"locked", "checked", "inserted", "REPLAY_STORE_ERROR",
                   "RECEIPT_EXPIRED", "REPLAY"} :
            stage' = [stage EXCEPT ![p] = s]
  BY DEF Reserving, StoreError, ReserveStep, BeginImmediate, BusyTimeout,
         CheckClock, RejectExpired, Insert, RejectReplay, Rollback, StoreFails,
         Transaction
<1>2. pc[p] = "reserving"
  BY <1>1 DEF CallInv
<1>3. TypeOK'
  BY <1>1 DEF TypeOK, StoreInv, execVars
<1>4. Private(p) /\ ~ holds(p)'
  BY <1>1, <1>2 DEF Private, execVars, StoreInv, StoreTypeOK, holds, Admitted
<1>5. CallInv(p)'
  BY <1>1, <1>2 DEF CallInv, execVars, StoreInv, StoreTypeOK, Admitted
<1> QED BY <1>1, <1>3, <1>4, <1>5, OthersKeepCallInv, PrivateStepKeepsPermits
           DEF execVars

(* A commit gives p its permit, or burns it if SQLite reports an error.    *)
(* The row conflicts with no committed row, so with no call that holds a   *)
(* permit and with no run.                                                 *)
LEMMA CommitKeepsExecutorInv ==
    ASSUME ExecutorInv, StoreInv', NEW p \in Process,
           \/ Reserving(p) /\ Commit(p)
           \/ StoreError(p) /\ CommitUnacknowledged(p)
    PROVE  ExecutorInv'
<1> USE DEF ExecutorInv
<1>1. /\ UNCHANGED execVars
      /\ UNCHANGED <<now, row>>
      /\ stage[p] = "inserted"
      /\ \E s \in {"RESERVED", "REPLAY_STORE_ERROR"} :
            stage' = [stage EXCEPT ![p] = s]
      /\ reservations' = Append(reservations, row[p])
  BY DEF Reserving, StoreError, Commit, CommitUnacknowledged
<1>2. /\ pc[p] = "reserving" /\ call[p] \in Call /\ parses(call[p])
      /\ row[p] = reservation(call[p])
  BY <1>1 DEF CallInv, InCall
<1>3. Range(reservations') = Range(reservations) \cup {row[p]}
  <2>1. row[p] \in Row
    BY <1>2, ExecutorAssumption
  <2> QED BY <1>1, <2>1, RangeOfAppend DEF StoreInv, StoreTypeOK
<1>4. ASSUME NEW c, reservation(c) \in Range(reservations)
      PROVE  compatible(c, call[p])
  <2>1. conflicting(row[p]) = {}
    BY <1>1 DEF StoreInv, InsertedFits
  <2>2. ~ conflicts(row[p], reservation(c))
    BY <1>4, <2>1 DEF conflicting
  <2> QED BY <1>2, <2>2 DEF conflicts, compatible
<1>5. TypeOK' /\ Private(p)
  BY <1>1 DEF TypeOK, StoreInv, StoreTypeOK, execVars, Private
<1>6. CallInv(p)'
  BY <1>1, <1>2 DEF CallInv, execVars, StoreInv, StoreTypeOK, Admitted
<1>7. PermitInv'
  <2> USE DEF PermitInv, execVars
  <2>1. /\ \A q \in Process : q # p => (holds(q)' <=> holds(q))
        /\ pc' = pc /\ call' = call
    BY <1>1 DEF holds, StoreInv, StoreTypeOK
  <2>2. PermitsCommitted'
    BY <1>2, <1>3, <2>1 DEF PermitsCommitted
  <2>3. PermitsExclusive'
    BY <1>4, <2>1, CompatibleSymmetric DEF PermitsExclusive, PermitsCommitted
  <2>4. PermitsUnused'
    BY <1>1, <1>4, <2>1 DEF PermitsUnused, RunsCommitted
  <2>5. RunsCommitted'
    BY <1>1, <1>3 DEF RunsCommitted
  <2>6. RanOnce' /\ ResultsFromRuns' /\ AtMostOneRun' /\ AuthorizedWhenRun'
    BY <1>1 DEF RanOnce, ResultsFromRuns, AtMostOneRun, AuthorizedWhenRun
  <2> QED BY <2>2, <2>3, <2>4, <2>5, <2>6
<1> QED BY <1>1, <1>5, <1>6, <1>7, OthersKeepCallInv

-----------------------------------------------------------------------------
(* The second look at the clock: what was accepted some time ago is still  *)
(* accepted, because the receipt has not expired.                          *)
LEMMA StartKeepsInv ==
    ASSUME ExecutorInv, StoreInv', NEW p \in Process, Start(p)
    PROVE  ExecutorInv'
<1> USE DEF ExecutorInv
<1>1. /\ pc[p] = "reserving" /\ stage[p] = "RESERVED"
      /\ now < row[p].expires_at
      /\ stage' = [stage EXCEPT ![p] = "idle"]
      /\ row' = [row EXCEPT ![p] = NoRow]
      /\ pc' = [pc EXCEPT ![p] = "running"]
      /\ executed_at' = [executed_at EXCEPT ![p] = now]
      /\ UNCHANGED <<now, reservations, writer>>
      /\ UNCHANGED <<trust_file, snapshot, adapter, call, counts, runs, results>>
  BY DEF Start, Return
<1>2. /\ call[p] \in Call /\ parses(call[p]) /\ row[p] = reservation(call[p])
      /\ snapshot[p] \in TrustFile /\ adapter[p] \in Revision
  BY <1>1 DEF CallInv, InCall
<1>3. now \in 0 .. MaxTime /\ MaxTime \in Nat
  BY StoreAssumption DEF StoreInv, StoreTypeOK
<1>4. accepts(call[p], snapshot[p], adapter[p], now)
  <2>1. PICK time \in 0 .. now :
           accepts(call[p], snapshot[p], adapter[p], time)
    BY <1>1 DEF CallInv
  <2>2. time <= now
    BY <1>3
  <2> QED BY <1>1, <1>2, <1>3, <2>1, <2>2, AcceptedUntilExpiry
<1>5. TypeOK' /\ Private(p)
  BY <1>1, <1>3 DEF TypeOK, PC, StoreInv, StoreTypeOK, Private
<1>6. CallInv(p)'
  BY <1>1, <1>2, <1>4 DEF CallInv, InCall, Admitted, TypeOK, StoreInv,
     StoreTypeOK
<1>7. PermitInv'
  <2> USE DEF PermitInv
  <2>1. /\ \A q \in Process : holds(q)' <=> holds(q)
        /\ \A q \in Process : pc'[q] = "ran" <=> pc[q] = "ran"
    BY <1>1 DEF holds, Admitted, TypeOK, StoreInv, StoreTypeOK
  <2>2. PermitsCommitted' /\ PermitsExclusive' /\ PermitsUnused' /\ RanOnce'
    BY <1>1, <2>1 DEF PermitsCommitted, PermitsExclusive, PermitsUnused, RanOnce
  <2>3. RunsCommitted' /\ ResultsFromRuns' /\ AtMostOneRun'
        /\ AuthorizedWhenRun'
    BY <1>1 DEF RunsCommitted, ResultsFromRuns, AtMostOneRun, AuthorizedWhenRun
  <2> QED BY <2>2, <2>3
<1> QED BY <1>1, <1>5, <1>6, <1>7, OthersKeepCallInv

(* The side effect uses up the permit of p.                                *)
LEMMA RunKeepsInv ==
    ASSUME ExecutorInv, StoreInv', NEW p \in Process, NEW output \in Output,
           RunAdapter(p, output)
    PROVE  ExecutorInv'
<1> USE DEF ExecutorInv
<1> DEFINE Run == [call : Call, trust : TrustFile, adapter : Revision,
                   executed_at : 0 .. MaxTime]
           run == [call |-> call[p], trust |-> snapshot[p],
                   adapter |-> adapter[p], executed_at |-> executed_at[p]]
<1>1. /\ pc[p] = "running"
      /\ runs' = Append(runs, run)
      /\ counts' = [counts EXCEPT ![p] = output]
      /\ pc' = [pc EXCEPT ![p] = "ran"]
      /\ UNCHANGED <<trust_file, snapshot, adapter, call, executed_at, results>>
      /\ UNCHANGED <<now, reservations, writer, stage, row>>
  BY DEF RunAdapter, storeVars
<1>2. /\ call[p] \in Call /\ parses(call[p])
      /\ snapshot[p] \in TrustFile /\ adapter[p] \in Revision
      /\ accepts(call[p], snapshot[p], adapter[p], executed_at[p])
      /\ executed_at[p] \in 0 .. MaxTime
  BY <1>1 DEF CallInv, InCall, Admitted, TypeOK
<1>3. run \in Run /\ runs \in Seq(Run)
  BY <1>2 DEF TypeOK
<1>4. /\ runs' \in Seq(Run)
      /\ DOMAIN runs' = 1 .. Len(runs) + 1
      /\ DOMAIN runs = 1 .. Len(runs)
      /\ \A i \in DOMAIN runs : runs'[i] = runs[i]
      /\ runs'[Len(runs) + 1] = run
  <2> HIDE DEF Run, run
  <2> QED BY <1>1, <1>3, RangeOfAppend
<1>5. /\ Len(runs) + 1 \in DOMAIN runs'
      /\ \A i \in DOMAIN runs' : i \in DOMAIN runs \/ i = Len(runs) + 1
      /\ \A i \in DOMAIN runs : i \in DOMAIN runs'
  BY <1>3, <1>4
<1>6. runs'[Len(runs) + 1].call = call[p]
  BY <1>4
<1>7. holds(p) /\ \A q \in Process : holds(q)' <=> holds(q)
  BY <1>1 DEF holds, Admitted, TypeOK, PC
<1>8. TypeOK'
  BY <1>1, <1>4 DEF TypeOK, PC, StoreInv
<1>9. Private(p) /\ CallInv(p)'
  BY <1>1, <1>2 DEF Private, CallInv, InCall, Admitted, TypeOK
<1>10. PermitsCommitted' /\ PermitsExclusive'
  BY <1>1, <1>7 DEF PermitInv, PermitsCommitted, PermitsExclusive
<1>11. PermitsUnused'
  <2> SUFFICES ASSUME NEW q \in Process, holds(q), pc'[q] # "ran",
                      NEW i \in DOMAIN runs'
               PROVE  compatible(runs'[i].call, call[q])
    BY <1>1, <1>7 DEF PermitsUnused
  <2>1. q # p /\ pc[q] # "ran"
    BY <1>1 DEF TypeOK
  <2>2. CASE i \in DOMAIN runs
    BY <1>4, <2>1, <2>2 DEF PermitInv, PermitsUnused
  <2>3. CASE i = Len(runs) + 1
    BY <1>6, <1>7, <2>1, <2>3 DEF PermitInv, PermitsExclusive
  <2> QED BY <1>5, <2>2, <2>3
<1>12. RunsCommitted'
  BY <1>1, <1>2, <1>4, <1>5, <1>6, <1>7
     DEF PermitInv, RunsCommitted, PermitsCommitted
<1>13. ResultsFromRuns'
  BY <1>1, <1>4, <1>5 DEF PermitInv, ResultsFromRuns
<1>14. RanOnce'
  <2>1. \A i \in DOMAIN runs : compatible(runs[i].call, call[p])
    BY <1>1, <1>7 DEF PermitInv, PermitsUnused
  <2>2. \A r \in results : compatible(r.call, call[p])
    BY <2>1 DEF PermitInv, ResultsFromRuns
  <2>3. \A r \in results : KeyOf(r.call) # KeyOf(call[p])
    BY <2>2 DEF compatible, reservation, permit, KeyOf
  <2>4. \E i \in DOMAIN runs' : runs'[i].call = call'[p]
    BY <1>1, <1>5, <1>6
  <2>5. ASSUME NEW q \in Process, q # p, pc'[q] = "ran"
        PROVE  \E i \in DOMAIN runs' : runs'[i].call = call'[q]
    <3>1. pc[q] = "ran"
      BY <1>1, <2>5 DEF TypeOK
    <3>2. PICK i \in DOMAIN runs : runs[i].call = call[q]
      BY <3>1 DEF PermitInv, RanOnce
    <3> QED BY <1>1, <1>4, <1>5, <3>2
  <2>6. ASSUME NEW q \in Process, q # p, pc'[q] = "ran"
        PROVE  \A r \in results' : KeyOf(r.call) # KeyOf(call'[q])
    BY <1>1, <2>6 DEF TypeOK, PermitInv, RanOnce
  <2> QED BY <1>1, <2>3, <2>4, <2>5, <2>6 DEF RanOnce
<1>15. AtMostOneRun'
  <2>1. \A i \in DOMAIN runs : compatible(runs[i].call, call[p])
    BY <1>1, <1>7 DEF PermitInv, PermitsUnused
  <2>2. \A i, j \in DOMAIN runs :
           i # j => compatible(runs[i].call, runs[j].call)
    BY DEF PermitInv, AtMostOneRun, compatible
  <2>3. \A i, j \in DOMAIN runs' :
           i # j => compatible(runs'[i].call, runs'[j].call)
    BY <1>4, <1>5, <1>6, <2>1, <2>2, CompatibleSymmetric
  <2> QED BY <2>3 DEF AtMostOneRun, compatible
<1>16. AuthorizedWhenRun'
  BY <1>2, <1>4, <1>5 DEF PermitInv, AuthorizedWhenRun
<1> QED BY <1>1, <1>8, <1>9, <1>10, <1>11, <1>12, <1>13, <1>14, <1>15, <1>16,
           OthersKeepCallInv DEF PermitInv

LEMMA ReturnResultKeepsInv ==
    ASSUME ExecutorInv, StoreInv', NEW p \in Process, ReturnResult(p)
    PROVE  ExecutorInv'
<1> USE DEF ExecutorInv
<1>0. PICK draw \in Draws["result"] :
         results' = results \cup
            {[call |-> call[p], trust |-> snapshot[p],
              record |-> result_record(call[p], trust[snapshot[p]],
                                       executed_at[p], counts[p], draw)]}
  BY Zenon DEF ReturnResult
<1> DEFINE new == [call |-> call[p], trust |-> snapshot[p],
                   record |-> result_record(call[p], trust[snapshot[p]],
                                            executed_at[p], counts[p], draw)]
<1>1. /\ pc[p] = "ran"
      /\ results' = results \cup {new}
      /\ pc' = [pc EXCEPT ![p] = "idle"]
      /\ call' = [call EXCEPT ![p] = NoCall]
      /\ executed_at' = [executed_at EXCEPT ![p] = 0]
      /\ counts' = [counts EXCEPT ![p] = NoOutput]
      /\ UNCHANGED <<trust_file, snapshot, adapter, runs>>
      /\ UNCHANGED <<now, reservations, writer, stage, row>>
  BY <1>0 DEF ReturnResult, Leave, storeVars
<1>2. /\ call[p] \in Call /\ snapshot[p] \in TrustFile
      /\ new.call = call[p] /\ new.trust = snapshot[p]
  BY <1>1 DEF CallInv, InCall, Admitted
<1>3. TypeOK'
  BY <1>1, <1>2, StoreAssumption DEF TypeOK, PC, StoreInv
<1>4. Private(p) /\ CallInv(p)'
  BY <1>1 DEF Private, CallInv, InCall, Admitted, TypeOK
<1>5. /\ holds(p) /\ ~ holds(p)'
      /\ \A q \in Process : q # p => /\ holds(q)' <=> holds(q)
                                     /\ pc'[q] = pc[q] /\ call'[q] = call[q]
  BY <1>1 DEF holds, Admitted, TypeOK
<1> HIDE DEF new
<1>6. PermitsCommitted' /\ PermitsExclusive' /\ PermitsUnused'
  BY <1>1, <1>5
     DEF PermitInv, PermitsCommitted, PermitsExclusive, PermitsUnused
<1>7. RunsCommitted' /\ AtMostOneRun' /\ AuthorizedWhenRun'
  BY <1>1 DEF PermitInv, RunsCommitted, AtMostOneRun, AuthorizedWhenRun
<1>8. ResultsFromRuns'
  BY <1>1, <1>2 DEF PermitInv, ResultsFromRuns, RanOnce
<1>9. RanOnce'
  <2> SUFFICES ASSUME NEW q \in Process, pc'[q] = "ran"
               PROVE  /\ \E i \in DOMAIN runs : runs[i].call = call[q]
                      /\ \A r \in results' : KeyOf(r.call) # KeyOf(call[q])
                      /\ call'[q] = call[q]
    BY <1>1 DEF RanOnce
  <2>1. q # p /\ pc[q] = "ran" /\ call'[q] = call[q]
    BY <1>1 DEF TypeOK
  <2>2. holds(q)
    BY <2>1 DEF holds, Admitted
  <2>3. compatible(call[p], call[q])
    BY <1>5, <2>1, <2>2 DEF PermitInv, PermitsExclusive
  <2>4. KeyOf(new.call) # KeyOf(call[q])
    BY <1>2, <2>3 DEF compatible, reservation, permit, KeyOf
  <2> QED BY <1>1, <2>1, <2>4 DEF PermitInv, RanOnce
<1> QED BY <1>1, <1>3, <1>4, <1>6, <1>7, <1>8, <1>9, OthersKeepCallInv
           DEF PermitInv

(* The clock, the trust file and stuttering.                               *)
LEMMA OutsideStepKeepsInv ==
    ASSUME ExecutorInv, StoreInv',
           \/ ClockTicks
           \/ \E t \in TrustFile : EditTrust(t)
           \/ UNCHANGED vars
    PROVE  ExecutorInv'
<1> USE DEF ExecutorInv
<1>1. /\ UNCHANGED <<snapshot, adapter, pc, call, executed_at, counts, runs,
                     results, reservations, stage, row>>
      /\ trust_file' \in TrustFile
      /\ now' = now \/ now' = now + 1
  BY DEF ClockTicks, Tick, EditTrust, vars, execVars, storeVars, TypeOK
<1>2. TypeOK'
  BY <1>1 DEF TypeOK, StoreInv
<1>3. \A time \in 0 .. now : time \in 0 .. now'
  BY <1>1, StoreAssumption DEF StoreInv, StoreTypeOK
<1>4. \A p \in Process : CallInv(p)'
  BY <1>1, <1>3 DEF CallInv
<1>5. PermitInv'
  BY <1>1 DEF PermitInv, PermitsCommitted, PermitsExclusive, PermitsUnused,
              RunsCommitted, RanOnce, ResultsFromRuns, AtMostOneRun,
              AuthorizedWhenRun, holds
<1> QED BY <1>2, <1>4, <1>5

-----------------------------------------------------------------------------
LEMMA ExecutorStep == ExecutorInv /\ [Next]_vars => ExecutorInv'
<1> SUFFICES ASSUME ExecutorInv, [Next]_vars PROVE ExecutorInv'
  OBVIOUS
<1>1. StoreInv'
  BY StepIsStoreStep, StoreStep DEF ExecutorInv
<1>2. ASSUME NEW p \in Process, Reserving(p) \/ StoreError(p)
      PROVE  ExecutorInv'
  <2>1. CASE Commit(p) \/ CommitUnacknowledged(p)
    <3>1. \/ Reserving(p) /\ Commit(p)
          \/ StoreError(p) /\ CommitUnacknowledged(p)
      BY <1>2, <2>1 DEF Reserving, StoreError, ReserveStep, Commit,
                        CommitUnacknowledged
    <3> QED BY <1>1, <3>1, CommitKeepsExecutorInv
  <2>2. CASE ~ Commit(p) /\ ~ CommitUnacknowledged(p)
    BY <1>1, <1>2, <2>2, ReservingKeepsInv
  <2> QED BY <2>1, <2>2
<1>3. ASSUME NEW p \in Process, ExecuteStep(p) PROVE ExecutorInv'
  BY <1>1, <1>2, <1>3, PermitlessStepKeepsInv, StartKeepsInv, RunKeepsInv,
     ReturnResultKeepsInv DEF ExecuteStep
<1> QED BY <1>1, <1>2, <1>3, PermitlessStepKeepsInv, OutsideStepKeepsInv
           DEF Next

THEOREM ExecutorInvariant == Spec => []ExecutorInv
BY ExecutorInitial, ExecutorStep, PTL DEF Spec

(* The types of the executor's variables.                                  *)
THEOREM ExecutorTypes == Spec => []TypeOK
BY ExecutorInvariant, PTL DEF ExecutorInv

(* At most one run per intent and per receipt, for any number of executor  *)
(* processes, calls, restarts and trust bundles.                           *)
THEOREM OneRunPerIntent == Spec => []AtMostOneRun
BY ExecutorInvariant, PTL DEF ExecutorInv, PermitInv

(* The hardware never acts for an intent without a durable reservation.    *)
THEOREM RunsAreReserved == Spec => []RunImpliesReserved
<1>1. ExecutorInv => RunImpliesReserved
  BY DEF ExecutorInv, PermitInv, RunsCommitted, RunImpliesReserved
<1> QED BY <1>1, ExecutorInvariant, PTL

(* Whatever ran was authorized at executed_at, under the trust its         *)
(* executor holds.                                                         *)
THEOREM RunsAreAuthorized == Spec => []AuthorizedWhenRun
BY ExecutorInvariant, PTL DEF ExecutorInv, PermitInv

=============================================================================

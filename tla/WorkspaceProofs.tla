-------------------------- MODULE WorkspaceProofs --------------------------
(***************************************************************************)
(* What holds in a workspace for any number of processes and commands,     *)
(* any programs, and any documents in the files they read.                 *)
(*                                                                         *)
(* Permits: a frozen intent runs once at the most, and a run has a receipt *)
(* for its action under its policy within both lifetimes.  An execute()    *)
(* that passed its reserve() holds an intent key that is spent, that no    *)
(* other execute() holds and that no run has; the second look at the clock *)
(* finds the receipt not expired, and all other facts are those of the     *)
(* first checks.                                                           *)
(*                                                                         *)
(* Intents: only what was frozen is run, though intent.json may be edited  *)
(* at any time between freezing and signing.  Every intent that is in a    *)
(* file, in the memory of a command or in a signed request is a frozen one *)
(* but for its experiment; the policy that execute() evaluates compares    *)
(* the digest of the experiment with the frozen one, and the digest tells  *)
(* experiments apart.                                                      *)
(*                                                                         *)
(* Results: every result is the record of a run, of its intent and         *)
(* receipt, its time, its counts, and on Aer of the device that the intent *)
(* names.                                                                  *)
(*                                                                         *)
(* Documents: what provisioning, freeze, sign_intent, authorize and        *)
(* execute make of documents of their models is of its own model.          *)
(***************************************************************************)
EXTENDS Workspace, ProtocolProofs

Holds(p) == executing[p] # Nothing

HeldKey(p) == intent_key(executing[p].request)

SpentKeys == {row.intent_key : row \in spent}

RunKey(i) == intent_key(runs[i].request)

Shape ==
    /\ now \in Instants
    /\ executing = [p \in Process |-> executing[p]]
    /\ runs \in Seq(Range(runs))

(* Who holds a key has spent it, alone, and has not used it.               *)
HeldKeysFresh ==
    \A p \in Process : Holds(p) =>
        /\ HeldKey(p) \in SpentKeys
        /\ \A q \in Process : Holds(q) /\ HeldKey(q) = HeldKey(p) => q = p
        /\ \A i \in DOMAIN runs : RunKey(i) # HeldKey(p)

RunKeysSpent == \A i \in DOMAIN runs : RunKey(i) \in SpentKeys

(* The receipt of call is for its action and policy, and neither it nor    *)
(* its intent begins after time.                                           *)
Permitted(call, time) ==
    LET header == call.receipt.header
        intent == call.request.intent
    IN  /\ header.action_digest = digest("intent", intent)
        /\ header.policy_digest = digest("policy", call.trust.policy)
        /\ {header.issued_at, header.expires_at, intent.created_at,
            intent.expires_at} \subseteq Nat
        /\ header.issued_at <= time
        /\ intent.created_at <= time
        /\ header.expires_at <= intent.expires_at

HeldPermitted == \A p \in Process : Holds(p) => Permitted(executing[p], now)

WorkspaceInv ==
    /\ Shape
    /\ HeldKeysFresh
    /\ RunKeysSpent
    /\ OneRunPerIntent
    /\ HeldPermitted
    /\ PermitCoversRun

-----------------------------------------------------------------------------
(* Append, without a set that the elements are taken from.                 *)
LEMMA OneMoreRun ==
    ASSUME NEW s, s \in Seq(Range(s)), NEW e
    PROVE  /\ Append(s, e) \in Seq(Range(Append(s, e)))
           /\ DOMAIN Append(s, e) = DOMAIN s \cup {Len(s) + 1}
           /\ Len(s) + 1 \notin DOMAIN s
           /\ \A i \in DOMAIN s : Append(s, e)[i] = s[i]
           /\ Append(s, e)[Len(s) + 1] = e
<1> DEFINE S == Range(s) \cup {e}
<1>1. s \in Seq(S) /\ e \in S
  OBVIOUS
<1> HIDE DEF S
<1>2. /\ Append(s, e) \in Seq(S)
      /\ DOMAIN Append(s, e) = DOMAIN s \cup {Len(s) + 1}
      /\ Len(s) + 1 \notin DOMAIN s
      /\ \A i \in DOMAIN s : Append(s, e)[i] = s[i]
      /\ Append(s, e)[Len(s) + 1] = e
  BY <1>1
<1> DEFINE t == Append(s, e)
<1>3. t \in Seq(S)
  BY <1>2
<1> HIDE DEF t
<1>4. t \in Seq(Range(t))
  BY <1>3 DEF Range
<1> QED BY <1>2, <1>4 DEF t

(* What execute() has checked when its reserve() returns.                  *)
LEMMA AdmittedFacts ==
    ASSUME NEW p, NEW request, SignedIntent(request),
           Receipt(memory[p].receipt), admission(p, request) = OK
    PROVE  /\ \A other \in spent : other.intent_key # intent_key(request)
           /\ Permitted([request |-> request, receipt |-> memory[p].receipt,
                         trust |-> memory[p].trust], now)
<1> DEFINE receipt == memory[p].receipt
           trust   == memory[p].trust
           row     == permit(request, receipt)
           header  == receipt.header
           intent  == request.intent
<1>1. /\ execute_checks(request, receipt, trust, memory[p].adapter, now) = OK
      /\ reserve(row) = OK
  BY ChainPasses DEF admission
<1>2. \A other \in spent : other.intent_key # row.intent_key
  <2> DEFINE free == \A other \in spent :
                        /\ other.receipt_id # row.receipt_id
                        /\ other.intent_key # row.intent_key
  <2>1. (require(now < row.expires_at, "RECEIPT_EXPIRED")
            ?? require(free, "REPLAY")) = OK
    BY <1>1, Zenon DEF reserve
  <2>2. free
    <3> HIDE DEF free
    <3>1. require(free, "REPLAY") = OK
      BY ONLY <2>1, ChainPasses
    <3> QED BY <3>1, RequirePasses DEF OK
  <2> QED BY <2>2
<1>3. verify_receipt(request, receipt, trust, now) = OK
  BY <1>1, ChainPasses DEF execute_checks
<1>4. inspect_receipt(request, receipt, trust, now) = OK
  BY <1>3, ChainPasses DEF verify_receipt
<1>5. validate_header(header, request, trust, now) = OK
  BY <1>4, InspectionFacts
<1>6. /\ validate_request(request, trust, now) = OK
      /\ header.action_digest = digest("intent", intent)
      /\ header.policy_digest = digest("policy", trust.policy)
      /\ header.issued_at <= now
      /\ header.expires_at <= intent.expires_at
  BY <1>5, ChainPasses DEF validate_header, require, OK
<1>7. intent.created_at <= now
  BY <1>6, ChainPasses DEF validate_request, require, OK
<1>8. {header.issued_at, header.expires_at, intent.created_at,
       intent.expires_at} \subseteq Nat
  BY WorkspaceAssumption
     DEF SignedIntent, Receipt, Intent, Header, Time
<1>9. row.intent_key = intent_key(request)
  BY DEF permit
<1> QED BY <1>2, <1>6, <1>7, <1>8, <1>9 DEF Permitted

-----------------------------------------------------------------------------
LEMMA WorkspaceInitial == Init => WorkspaceInv
<1> SUFFICES ASSUME Init PROVE WorkspaceInv
  OBVIOUS
<1>1. runs = <<>> /\ DOMAIN runs = {} /\ now = 0
  BY DEF Init
<1>2. \A p \in Process : ~ Holds(p)
  BY DEF Init, Holds
<1>3. Shape
  BY <1>1, WorkspaceAssumption DEF Init, Shape
<1> QED BY <1>1, <1>2, <1>3 DEF WorkspaceInv, HeldKeysFresh, RunKeysSpent,
                                OneRunPerIntent, HeldPermitted, PermitCoversRun

(* Most steps let execute() alone, or end it, and the clock does not go    *)
(* back.                                                                   *)
LEMMA OthersKeepInv ==
    ASSUME WorkspaceInv, UNCHANGED <<spent, runs>>,
           now' \in Instants, now <= now',
           executing' = [p \in Process |-> executing'[p]],
           \A p \in Process : executing'[p] \in {executing[p], Nothing}
    PROVE  WorkspaceInv'
<1>1. /\ now \in Nat /\ now' \in Nat
  BY WorkspaceAssumption DEF WorkspaceInv, Shape
<1>2. \A p \in Process : Holds(p)' =>
         Holds(p) /\ executing'[p] = executing[p]
  BY DEF Holds
<1>3. SpentKeys' = SpentKeys
  BY DEF SpentKeys
<1>4. Shape'
  BY DEF WorkspaceInv, Shape
<1>5. HeldKeysFresh'
  BY <1>2, <1>3 DEF WorkspaceInv, HeldKeysFresh, HeldKey, RunKey
<1>6. RunKeysSpent' /\ OneRunPerIntent' /\ PermitCoversRun'
  BY <1>3 DEF WorkspaceInv, RunKeysSpent, RunKey, OneRunPerIntent,
              PermitCoversRun
<1>7. HeldPermitted'
  <2> SUFFICES ASSUME NEW p \in Process, Holds(p)'
               PROVE  Permitted(executing'[p], now')
    BY DEF HeldPermitted
  <2>1. executing'[p] = executing[p] /\ Permitted(executing[p], now)
    BY <1>2 DEF WorkspaceInv, HeldPermitted
  <2> QED BY <1>1, <2>1 DEF Permitted
<1> QED BY <1>4, <1>5, <1>6, <1>7 DEF WorkspaceInv

LEMMA AdmitKeepsInv ==
    ASSUME WorkspaceInv, NEW p \in Process, Admit(p)
    PROVE  WorkspaceInv'
<1> DEFINE request == memory[p].request
           receipt == memory[p].receipt
           row     == permit(request, receipt)
           call    == [request |-> request, receipt |-> receipt,
                       trust |-> memory[p].trust]
<1>1. /\ SignedIntent(request) /\ Receipt(receipt)
      /\ admission(p, request) = OK
      /\ spent' = spent \cup {row}
      /\ executing' = [executing EXCEPT ![p] = call]
      /\ UNCHANGED <<now, runs>>
  BY DEF Admit
<1>2. executing = [q \in Process |-> executing[q]]
  BY DEF WorkspaceInv, Shape
<1>3. /\ \A other \in spent : other.intent_key # intent_key(request)
      /\ Permitted(call, now)
  BY <1>1, AdmittedFacts
<1>4. intent_key(request) \notin SpentKeys
  BY <1>3 DEF SpentKeys
<1>5. SpentKeys' = SpentKeys \cup {intent_key(request)}
  <2>1. row.intent_key = intent_key(request)
    BY DEF permit
  <2> HIDE DEF row
  <2> QED BY <1>1, <2>1 DEF SpentKeys
<1>6. /\ executing'[p] = call
      /\ \A q \in Process \ {p} : executing'[q] = executing[q]
      /\ executing' = [q \in Process |-> executing'[q]]
  BY <1>1, <1>2
<1>7. HeldKey(p)' = intent_key(request)
  BY <1>6 DEF HeldKey
<1>8. \A q \in Process \ {p} : HeldKey(q)' = HeldKey(q)
                               /\ (Holds(q)' <=> Holds(q))
  BY <1>6 DEF HeldKey, Holds
<1> HIDE DEF request, receipt, row, call
<1>9. Shape'
  BY <1>1, <1>6 DEF WorkspaceInv, Shape
<1>10. \A i \in DOMAIN runs' :
          RunKey(i)' = RunKey(i) /\ RunKey(i) \in SpentKeys
  BY <1>1 DEF WorkspaceInv, RunKeysSpent, RunKey
<1>11. HeldKeysFresh'
  <2> SUFFICES ASSUME NEW q \in Process, Holds(q)'
               PROVE  /\ HeldKey(q)' \in SpentKeys'
                      /\ \A o \in Process :
                            Holds(o)' /\ HeldKey(o)' = HeldKey(q)' => o = q
                      /\ \A i \in DOMAIN runs' : RunKey(i)' # HeldKey(q)'
    BY DEF HeldKeysFresh
  <2>1. \A o \in Process \ {p} : Holds(o)' => HeldKey(o)' \in SpentKeys
    BY <1>8 DEF WorkspaceInv, HeldKeysFresh
  <2>2. CASE q = p
    BY <1>4, <1>5, <1>7, <1>10, <2>1, <2>2
  <2>3. CASE q # p
    <3>1. /\ HeldKey(q)' = HeldKey(q) /\ HeldKey(q) \in SpentKeys
          /\ \A o \in Process : Holds(o) /\ HeldKey(o) = HeldKey(q) => o = q
          /\ \A i \in DOMAIN runs : RunKey(i) # HeldKey(q)
      BY <1>8, <2>3 DEF WorkspaceInv, HeldKeysFresh
    <3> QED BY <1>1, <1>4, <1>5, <1>7, <1>8, <1>10, <3>1
  <2> QED BY <2>2, <2>3
<1>12. RunKeysSpent'
  BY <1>5, <1>10 DEF RunKeysSpent
<1>13. OneRunPerIntent' /\ PermitCoversRun'
  BY <1>1 DEF WorkspaceInv, OneRunPerIntent, PermitCoversRun
<1>14. HeldPermitted'
  BY <1>1, <1>3, <1>6, <1>8 DEF WorkspaceInv, HeldPermitted
<1> QED BY <1>9, <1>11, <1>12, <1>13, <1>14 DEF WorkspaceInv

(* The job uses the key up, and whatever becomes of the answer, execute()  *)
(* is over.                                                                *)
LEMMA SimulateKeepsInv ==
    ASSUME WorkspaceInv, NEW p \in Process, NEW answer, Simulate(p, answer),
           executing' = [executing EXCEPT ![p] = Nothing],
           UNCHANGED <<now, spent>>
    PROVE  WorkspaceInv'
<1> DEFINE call == executing[p]
           new  == job(p, answer)
<1>1. /\ Holds(p)
      /\ now < call.receipt.header.expires_at
      /\ runs' = Append(runs, new)
  BY DEF Simulate, Holds
<1>2. /\ executing = [q \in Process |-> executing[q]]
      /\ now \in Instants /\ now \in Nat
      /\ runs \in Seq(Range(runs))
  BY WorkspaceAssumption DEF WorkspaceInv, Shape
<1>3. /\ executing' = [q \in Process |-> executing'[q]]
      /\ ~ Holds(p)'
      /\ \A q \in Process \ {p} : executing'[q] = executing[q]
  BY <1>2 DEF Holds
<1>4. /\ new.request = call.request /\ new.receipt = call.receipt
      /\ new.policy = call.trust.policy /\ new.time = now
  BY DEF job
<1> HIDE DEF new, call
<1>5. /\ runs' \in Seq(Range(runs'))
      /\ \A i \in DOMAIN runs : i \in DOMAIN runs' /\ runs'[i] = runs[i]
      /\ \A i \in DOMAIN runs' \ DOMAIN runs :
            /\ runs'[i] = new
            /\ \A j \in DOMAIN runs' \ DOMAIN runs : i = j
  BY <1>1, <1>2, OneMoreRun
<1>6. /\ \A i \in DOMAIN runs : RunKey(i)' = RunKey(i)
      /\ \A i \in DOMAIN runs' \ DOMAIN runs : RunKey(i)' = HeldKey(p)
  BY <1>4, <1>5 DEF RunKey, HeldKey, call
<1>7. SpentKeys' = SpentKeys
  BY DEF SpentKeys
<1>8. /\ HeldKey(p) \in SpentKeys
      /\ \A q \in Process : Holds(q) /\ HeldKey(q) = HeldKey(p) => q = p
      /\ \A i \in DOMAIN runs : RunKey(i) # HeldKey(p)
  BY <1>1 DEF WorkspaceInv, HeldKeysFresh
<1>9. Shape'
  BY <1>2, <1>3, <1>5 DEF Shape
<1>10. HeldKeysFresh'
  <2> SUFFICES ASSUME NEW q \in Process, Holds(q)'
               PROVE  /\ HeldKey(q)' \in SpentKeys'
                      /\ \A o \in Process :
                            Holds(o)' /\ HeldKey(o)' = HeldKey(q)' => o = q
                      /\ \A i \in DOMAIN runs' : RunKey(i)' # HeldKey(q)'
    BY DEF HeldKeysFresh
  <2>1. \A o \in Process : Holds(o)' =>
           o # p /\ Holds(o) /\ HeldKey(o)' = HeldKey(o)
    BY <1>3 DEF Holds, HeldKey
  <2>2. /\ q # p /\ HeldKey(q)' = HeldKey(q) /\ HeldKey(q) \in SpentKeys
        /\ \A o \in Process : Holds(o) /\ HeldKey(o) = HeldKey(q) => o = q
        /\ \A i \in DOMAIN runs : RunKey(i) # HeldKey(q)
    BY <2>1 DEF WorkspaceInv, HeldKeysFresh
  <2>3. HeldKey(q) # HeldKey(p)
    BY <1>8, <2>1, <2>2
  <2> QED BY <1>5, <1>6, <1>7, <2>1, <2>2, <2>3
<1>11. RunKeysSpent'
  BY <1>5, <1>6, <1>7, <1>8 DEF WorkspaceInv, RunKeysSpent
<1>12. OneRunPerIntent'
  <2>1. \A i, j \in DOMAIN runs : i # j => RunKey(i) # RunKey(j)
    BY DEF WorkspaceInv, OneRunPerIntent, RunKey
  <2>2. \A i, j \in DOMAIN runs' : i # j => RunKey(i)' # RunKey(j)'
    BY <1>5, <1>6, <1>8, <2>1
  <2> QED BY <2>2 DEF OneRunPerIntent, RunKey
<1>13. HeldPermitted'
  BY <1>3 DEF WorkspaceInv, HeldPermitted, Holds
<1>14. PermitCoversRun'
  <2>1. Permitted(call, now)
    BY <1>1 DEF WorkspaceInv, HeldPermitted, call
  <2>2. LET header == new.receipt.header
            intent == new.request.intent
        IN  /\ header.action_digest = digest("intent", intent)
            /\ header.policy_digest = digest("policy", new.policy)
            /\ new.time \in header.issued_at .. header.expires_at - 1
            /\ new.time \in intent.created_at .. intent.expires_at - 1
    BY <1>1, <1>2, <1>4, <2>1 DEF Permitted
  <2> QED BY <1>5, <2>2 DEF WorkspaceInv, PermitCoversRun
<1> QED BY <1>9, <1>10, <1>11, <1>12, <1>13, <1>14 DEF WorkspaceInv

-----------------------------------------------------------------------------
LEMMA WorkspaceStep == WorkspaceInv /\ [Next]_vars => WorkspaceInv'
<1> SUFFICES ASSUME WorkspaceInv, [Next]_vars PROVE WorkspaceInv'
  OBVIOUS
<1> USE DEF Exit, Assign, Advance, Check
<1>1. /\ executing = [p \in Process |-> executing[p]]
      /\ now \in Instants
      /\ \A time \in Instants : time \in Nat
  BY WorkspaceAssumption DEF WorkspaceInv, Shape
<1>2. ASSUME UNCHANGED <<now, executing, spent, runs>> PROVE WorkspaceInv'
  BY <1>1, <1>2, OthersKeepInv
<1>3. ASSUME NEW p \in Process, Exit(p), UNCHANGED <<now, spent, runs>>
      PROVE  WorkspaceInv'
  <2>1. executing' = [executing EXCEPT ![p] = Nothing]
    BY <1>3
  <2>2. /\ executing' = [q \in Process |-> executing'[q]]
        /\ \A q \in Process : executing'[q] \in {executing[q], Nothing}
    BY <1>1, <2>1
  <2> QED BY <1>1, <1>3, <2>2, OthersKeepInv
<1>4. CASE UNCHANGED vars
  BY <1>2, <1>4 DEF vars
<1>5. ASSUME NEW p \in Process, NEW c \in Command[p], Start(p, c)
      PROVE  WorkspaceInv'
  BY <1>2, <1>5 DEF Start
<1>6. ASSUME NEW p \in Process, Return(p) \/ Stop(p) PROVE WorkspaceInv'
  BY <1>3, <1>6 DEF Return, Stop
<1>7. ASSUME NEW p \in Process,
             Load(p) \/ Open(p) \/ Fill(p) \/ RequireNew(p) \/ Mkdir(p)
      PROVE  WorkspaceInv'
  BY <1>2, <1>7 DEF Load, Open, Fill, RequireNew, Mkdir
<1>8. ASSUME NEW p \in Process,
             \/ \E identity \in Range(Identities) : Generate(p, identity)
             \/ Bundle(p) \/ Bell(p) \/ Accelerate(p) \/ Workload(p)
      PROVE  WorkspaceInv'
  BY <1>2, <1>8 DEF Generate, Bundle, Bell, Accelerate, Workload
<1>9. ASSUME NEW p \in Process,
             Freeze(p) \/ Sign(p) \/ Issue(p) \/ Attest(p)
      PROVE  WorkspaceInv'
  BY <1>2, <1>9 DEF Freeze, Sign, Issue, Attest
<1>10. ASSUME NEW p \in Process, Preflight(p) \/ Construct(p) \/ Summarize(p)
       PROVE  WorkspaceInv'
  BY <1>2, <1>10 DEF Preflight, Construct, Summarize
<1>11. ASSUME NEW p \in Process, Inspect(p) \/ Verify(p) \/ VerifyResult(p)
       PROVE  WorkspaceInv'
  BY <1>2, <1>11 DEF Inspect, Verify, VerifyResult
<1>12. ASSUME NEW p \in Process, Admit(p) PROVE WorkspaceInv'
  BY <1>12, AdmitKeepsInv
<1>13. ASSUME NEW p \in Process, NEW answer,
              Run(p, answer) \/ RunFails(p, answer)
       PROVE  WorkspaceInv'
  BY <1>13, SimulateKeepsInv DEF Run, RunFails
<1>14. ASSUME NEW p \in Process, TryAltered(p) \/ TryReplay(p)
       PROVE  WorkspaceInv'
  BY <1>2, <1>3, <1>14 DEF TryAltered, TryReplay, Try
<1>15. ASSUME NEW e, EditExperiment(e) \/ EditIntent(e) PROVE WorkspaceInv'
  BY <1>2, <1>15 DEF EditExperiment, EditIntent
<1>16. CASE Tick
  <2>1. /\ now' \in Instants /\ now < now'
        /\ UNCHANGED <<executing, spent, runs>>
    BY <1>16 DEF Tick
  <2> QED BY <1>1, <2>1, OthersKeepInv
<1>17. ASSUME NEW p \in Process, Step(p) PROVE WorkspaceInv'
  BY <1>7, <1>8, <1>9, <1>10, <1>11, <1>12, <1>13, <1>14, <1>17 DEF Step
<1> QED BY <1>4, <1>5, <1>6, <1>15, <1>16, <1>17 DEF Next

(* The inductive invariant: what is held is fresh and permitted, what ran  *)
(* is spent, different and covered.                                        *)
THEOREM WorkspaceInvariant == Spec => []WorkspaceInv
BY WorkspaceInitial, WorkspaceStep, PTL DEF Spec

(* A frozen intent is run once at the most, by however many commands with  *)
(* whatever receipts: the replay store is asked before every run, and who  *)
(* passed it runs once.                                                    *)
THEOREM CommandsRunIntentOnce == Spec => []OneRunPerIntent
<1>1. WorkspaceInv => OneRunPerIntent
  BY DEF WorkspaceInv
<1> QED BY <1>1, WorkspaceInvariant, PTL

(* A run has a receipt for exactly its action under its policy, and takes  *)
(* place before receipt and intent expire, whatever became of the files    *)
(* while execute() had their contents in memory.                           *)
THEOREM CommandsRunPermitted == Spec => []PermitCoversRun
<1>1. WorkspaceInv => PermitCoversRun
  BY DEF WorkspaceInv
<1> QED BY <1>1, WorkspaceInvariant, PTL

-----------------------------------------------------------------------------
edited(intent, experiment) ==
    [intent EXCEPT !.parameters.experiment = experiment]

(* An intent of made, with any experiment.                                 *)
Derived(intent, made) ==
    \E original \in made : \E experiment :
        intent = edited(original, experiment)

FrozenShape ==
    /\ files = [n \in File |-> files[n]]
    /\ memory = [p \in Process |-> [n \in Local |-> memory[p][n]]]
    /\ executing = [p \in Process |-> executing[p]]
    /\ runs \in Seq(Range(runs))

(* freeze() makes nothing else.                                            *)
FrozenMade ==
    \A intent \in frozen : \E experiment, t, time, nonce :
        intent = freeze(experiment, t, time, nonce)

(* The intents that are about, by file or by variable.                     *)
FilesDerived ==
    /\ files["intent"] \notin {Nothing, Torn} =>
           Derived(files["intent"], frozen)
    /\ files["request"] \notin {Nothing, Torn} =>
           Derived(files["request"].intent, frozen)

MemoryDerived ==
    \A p \in Process :
        /\ memory[p].intent # Nothing => Derived(memory[p].intent, frozen)
        /\ memory[p].request # Nothing =>
               Derived(memory[p].request.intent, frozen)

(* What execute() holds behind its reserve() is unedited.                  *)
HeldFrozen ==
    \A p \in Process :
        executing[p] # Nothing => executing[p].request.intent \in frozen

FrozenInv ==
    /\ FrozenShape
    /\ FrozenMade
    /\ FilesDerived
    /\ MemoryDerived
    /\ HeldFrozen
    /\ RunIsFrozen

-----------------------------------------------------------------------------
(* An intent as freeze() makes it, and with another experiment in it.      *)
LEMMA EditedFields ==
    ASSUME NEW experiment, NEW t, NEW time, NEW nonce, NEW other
    PROVE  LET original == freeze(experiment, t, time, nonce)
               intent   == edited(original, other)
           IN  /\ intent.parameters.experiment = other
               /\ intent.parameters.frozen_digest
                     = digest("experiment", experiment)
               /\ edited(original, experiment) = original
               /\ \A third : edited(intent, third) = edited(original, third)
<1> DEFINE digested == digest("experiment", experiment)
           target == t.policy.target
           audience == t.policy.audience
           context == t.policy.context
           ends == time + smaller(300, t.policy.max_intent_ttl)
           reference == t.policy.reference
           needed == t.policy.suite
           made(e) == [subject |-> "scientist", target |-> target,
                       audience |-> audience,
                       parameters |-> [experiment |-> e,
                                       frozen_digest |-> digested],
                       context |-> context, nonce |-> nonce,
                       created_at |-> time, expires_at |-> ends,
                       policy |-> reference, required_suite |-> needed]
<1>1. freeze(experiment, t, time, nonce) = made(experiment)
  BY Zenon DEF freeze
<1> HIDE DEF digested, target, audience, context, ends, reference, needed
<1>2. ASSUME NEW e, NEW f PROVE edited(made(e), f) = made(f)
  BY SMT DEF edited
<1>3. ASSUME NEW e
      PROVE  /\ made(e).parameters.experiment = e
             /\ made(e).parameters.frozen_digest = digested
  OBVIOUS
<1> HIDE DEF made
<1> QED BY <1>1, <1>2, <1>3 DEF digested

(* A frozen intent is derived from itself, ...                             *)
LEMMA FrozenDerived ==
    ASSUME FrozenMade, NEW intent \in frozen
    PROVE  Derived(intent, frozen)
<1>1. PICK experiment, t, time, nonce :
         intent = freeze(experiment, t, time, nonce)
  BY DEF FrozenMade
<1>2. intent = edited(intent, experiment)
  BY <1>1, EditedFields
<1> QED BY <1>2 DEF Derived

(* ... an edited one from whatever it was derived from, ...                *)
LEMMA EditedDerived ==
    ASSUME FrozenMade, NEW intent, NEW experiment, Derived(intent, frozen)
    PROVE  Derived(edited(intent, experiment), frozen)
<1>1. PICK original \in frozen :
         \E other : intent = edited(original, other)
  BY DEF Derived
<1>2. edited(intent, experiment) = edited(original, experiment)
  BY <1>1, EditedFields DEF FrozenMade
<1> QED BY <1>2 DEF Derived

(* ... and more that is frozen changes nothing in that.                    *)
LEMMA DerivedStays ==
    ASSUME NEW intent, NEW made, NEW more, Derived(intent, made),
           made \subseteq more
    PROVE  Derived(intent, more)
BY DEF Derived

(* A derived intent with the digest of its experiment is the frozen one.   *)
LEMMA DigestMatches ==
    ASSUME FrozenMade, NEW intent, Derived(intent, frozen),
           intent.parameters.frozen_digest
              = digest("experiment", intent.parameters.experiment)
    PROVE  intent \in frozen
<1>1. PICK original \in frozen :
         \E other : intent = edited(original, other)
  BY DEF Derived
<1>2. PICK experiment, t, time, nonce :
         original = freeze(experiment, t, time, nonce)
  BY DEF FrozenMade
<1>3. PICK other : intent = edited(original, other)
  BY <1>1
<1>4. /\ intent.parameters.experiment = other
      /\ intent.parameters.frozen_digest = digest("experiment", experiment)
      /\ edited(original, experiment) = original
  BY <1>2, <1>3, EditedFields
<1>5. digest("experiment", experiment) = digest("experiment", other)
  BY <1>4
<1>6. experiment = other
  BY <1>5 DEF digest
<1> QED BY <1>3, <1>4, <1>6

(* What execute() finds out about the experiment.                          *)
LEMMA AdmittedDigest ==
    ASSUME NEW p, NEW request, admission(p, request) = OK
    PROVE  request.intent.parameters.frozen_digest
              = digest("experiment", request.intent.parameters.experiment)
<1> DEFINE receipt == memory[p].receipt
           t       == memory[p].trust
           found   == predicates(request.intent, t.policy)
<1>1. execute_checks(request, receipt, t, memory[p].adapter, now) = OK
  BY ChainPasses DEF admission
<1>2. verify_receipt(request, receipt, t, now) = OK
  BY <1>1, ChainPasses DEF execute_checks
<1>3. require(evaluate(request.intent, t.policy).disposition = "ALLOW",
              "POLICY_NOT_ALLOW") = OK
  BY <1>2, ChainPasses DEF verify_receipt
<1>4. disposition(found) = "ALLOW"
  BY <1>3, RequirePasses DEF OK, evaluate
<1>5. found.frozen_spec_matches /\ "frozen_spec_matches" \in DOMAIN found
  BY <1>4 DEF disposition, predicates
<1> QED BY <1>5 DEF predicates

-----------------------------------------------------------------------------
LEMMA FrozenInitial == Init => FrozenInv
<1> SUFFICES ASSUME Init PROVE FrozenInv
  OBVIOUS
<1>1. /\ runs = <<>> /\ frozen = {}
      /\ \A n \in File : files[n] = Nothing
      /\ \A p \in Process : executing[p] = Nothing
      /\ \A p \in Process : \A n \in Local : memory[p][n] = Nothing
  BY DEF Init
<1>2. {"intent", "request"} \subseteq File /\ File \subseteq Local
  BY DEF File, Local
<1>3. FrozenShape
  BY <1>1 DEF Init, FrozenShape
<1> QED BY <1>1, <1>2, <1>3
        DEF FrozenInv, FrozenMade, FilesDerived, MemoryDerived, HeldFrozen,
            RunIsFrozen

(* A step that gives a variable a value other than an intent.              *)
LEMMA AssignKeepsInv ==
    ASSUME FrozenInv, NEW p \in Process, NEW name, NEW value,
           Assign(p, name, value),
           UNCHANGED <<files, frozen>>,
           name = "intent" /\ value # Nothing => Derived(value, frozen),
           name = "request" /\ value # Nothing =>
               Derived(value.intent, frozen)
    PROVE  /\ memory' = [q \in Process |-> [n \in Local |-> memory'[q][n]]]
           /\ MemoryDerived'
<1>1. /\ memory = [q \in Process |-> [n \in Local |-> memory[q][n]]]
      /\ memory' = [memory EXCEPT ![p][name] = value]
  BY DEF Assign, FrozenInv, FrozenShape
<1>2. /\ memory' = [q \in Process |-> [n \in Local |-> memory'[q][n]]]
      /\ \A q \in Process : \A n \in Local :
            memory'[q][n] = IF q = p /\ n = name THEN value
                            ELSE memory[q][n]
  BY <1>1
<1>3. "intent" \in Local /\ "request" \in Local
  BY DEF Local, File
<1>4. MemoryDerived'
  BY <1>2, <1>3 DEF FrozenInv, MemoryDerived
<1> QED BY <1>2, <1>4

(* The same when nothing else happens, ...                                 *)
LEMMA AssignmentStep ==
    ASSUME FrozenInv, NEW p \in Process, NEW name, NEW value,
           Assign(p, name, value),
           UNCHANGED <<files, executing, frozen, runs>>,
           name = "intent" /\ value # Nothing => Derived(value, frozen),
           name = "request" /\ value # Nothing =>
               Derived(value.intent, frozen)
    PROVE  FrozenInv'
<1>1. /\ memory' = [q \in Process |-> [n \in Local |-> memory'[q][n]]]
      /\ MemoryDerived'
  BY AssignKeepsInv
<1> QED BY <1>1 DEF FrozenInv, FrozenShape, FrozenMade, FilesDerived,
                    HeldFrozen, RunIsFrozen

(* ... and when a process ends.                                            *)
LEMMA ExitKeepsInv ==
    ASSUME FrozenInv, NEW p \in Process, Exit(p), UNCHANGED <<files, frozen>>
    PROVE  /\ memory' = [q \in Process |-> [n \in Local |-> memory'[q][n]]]
           /\ executing' = [q \in Process |-> executing'[q]]
           /\ MemoryDerived'
           /\ HeldFrozen'
<1>1. /\ memory = [q \in Process |-> [n \in Local |-> memory[q][n]]]
      /\ memory' = [memory EXCEPT ![p] = [n \in Local |-> Nothing]]
      /\ executing = [q \in Process |-> executing[q]]
      /\ executing' = [executing EXCEPT ![p] = Nothing]
  BY DEF Exit, FrozenInv, FrozenShape
<1>2. \A q \in Process : \A n \in Local :
         memory'[q][n] = IF q = p THEN Nothing ELSE memory[q][n]
  BY <1>1
<1>3. "intent" \in Local /\ "request" \in Local
  BY DEF Local, File
<1>4. memory' = [q \in Process |-> [n \in Local |-> memory'[q][n]]]
  <2>1. memory' = [q \in Process |-> IF q = p THEN [n \in Local |-> Nothing]
                                     ELSE [n \in Local |-> memory[q][n]]]
    BY <1>1
  <2> QED BY <2>1
<1>5. MemoryDerived'
  BY <1>2, <1>3 DEF FrozenInv, MemoryDerived
<1>6. /\ executing' = [q \in Process |-> executing'[q]]
      /\ \A q \in Process :
            executing'[q] = IF q = p THEN Nothing ELSE executing[q]
  BY <1>1
<1>7. HeldFrozen'
  BY <1>6 DEF FrozenInv, HeldFrozen
<1> QED BY <1>4, <1>5, <1>6, <1>7

(* What is read from a file or written into it is as derived as it was.    *)
LEMMA LoadKeepsInv ==
    ASSUME FrozenInv, NEW p \in Process, Load(p)
    PROVE  FrozenInv'
<1> DEFINE name == instruction(p)[2]
<1>1. /\ file(name) \notin {Nothing, Torn}
      /\ Assign(p, name, file(name))
      /\ UNCHANGED <<files, executing, frozen, runs>>
  BY DEF Load, readable
<1>2. name # "issuer" => file(name) = files[name]
  BY DEF file
<1> HIDE DEF name
<1>3. /\ name = "intent" => Derived(file(name), frozen)
      /\ name = "request" => Derived(file(name).intent, frozen)
  BY <1>1, <1>2 DEF FrozenInv, FilesDerived
<1> QED BY <1>1, <1>3, AssignmentStep

LEMMA FilesKeepInv ==
    ASSUME FrozenInv, UNCHANGED <<memory, executing, frozen, runs>>,
           NEW name, NEW content, files' = [files EXCEPT ![name] = content],
           name = "intent" /\ content \notin {Nothing, Torn} =>
               Derived(content, frozen),
           name = "request" /\ content \notin {Nothing, Torn} =>
               Derived(content.intent, frozen)
    PROVE  FrozenInv'
<1>1. /\ files' = [n \in File |-> files'[n]]
      /\ \A n \in File : files'[n] = IF n = name THEN content ELSE files[n]
  BY DEF FrozenInv, FrozenShape
<1>2. "intent" \in File /\ "request" \in File
  BY DEF File
<1>3. FilesDerived'
  BY <1>1, <1>2 DEF FrozenInv, FilesDerived
<1> QED BY <1>1, <1>3 DEF FrozenInv, FrozenShape, FrozenMade, MemoryDerived,
                          HeldFrozen, RunIsFrozen

LEMMA FillKeepsInv ==
    ASSUME FrozenInv, NEW p \in Process, Fill(p)
    PROVE  FrozenInv'
<1> DEFINE name == instruction(p)[2]
<1>1. PICK content \in {memory[p][name], Torn} :
         files' = [files EXCEPT ![name] = content]
  BY DEF Fill
<1>2. UNCHANGED <<memory, executing, frozen, runs>>
  BY DEF Fill
<1> HIDE DEF name
<1>3. /\ name = "intent" /\ content \notin {Nothing, Torn} =>
            Derived(content, frozen)
      /\ name = "request" /\ content \notin {Nothing, Torn} =>
            Derived(content.intent, frozen)
  BY <1>1 DEF FrozenInv, MemoryDerived
<1> QED BY <1>1, <1>2, <1>3, FilesKeepInv

(* The operator's edit of intent.json changes the experiment alone.        *)
LEMMA EditKeepsInv ==
    ASSUME FrozenInv, NEW experiment, EditIntent(experiment)
    PROVE  FrozenInv'
<1> DEFINE content == edited(files["intent"], experiment)
<1>1. /\ files["intent"] \notin {Nothing, Torn}
      /\ UNCHANGED <<memory, executing, frozen, runs>>
  BY DEF EditIntent
<1>2. files' = [files EXCEPT !["intent"] = content]
  BY DEF EditIntent, edited
<1>3. Derived(content, frozen)
  BY <1>1, EditedDerived DEF FrozenInv, FilesDerived
<1> HIDE DEF content
<1> QED BY <1>1, <1>2, <1>3, FilesKeepInv

LEMMA FreezeKeepsInv ==
    ASSUME FrozenInv, NEW p \in Process, Freeze(p)
    PROVE  FrozenInv'
<1> DEFINE intent == freeze(memory[p].experiment, memory[p].trust, now,
                            secrets)
<1>1. /\ Assign(p, "intent", intent)
      /\ frozen' = frozen \cup {intent}
      /\ UNCHANGED <<files, executing, runs>>
  BY DEF Freeze
<1>2. \E experiment, t, time, nonce :
         intent = freeze(experiment, t, time, nonce)
  OBVIOUS
<1> HIDE DEF intent
<1>3. FrozenMade'
  BY <1>1, <1>2 DEF FrozenInv, FrozenMade
<1>4. Derived(intent, frozen')
  <2>1. PICK experiment, t, time, nonce :
           intent = freeze(experiment, t, time, nonce)
    BY <1>2
  <2>2. intent = edited(intent, experiment)
    BY <2>1, EditedFields
  <2> QED BY <1>1, <2>2 DEF Derived
<1>5. ASSUME NEW other, Derived(other, frozen) PROVE Derived(other, frozen')
  BY <1>1, <1>5, DerivedStays
<1>6. /\ memory' = [q \in Process |-> [n \in Local |-> memory'[q][n]]]
      /\ \A q \in Process : \A n \in Local :
            memory'[q][n] = IF q = p /\ n = "intent" THEN intent
                            ELSE memory[q][n]
  <2>1. /\ memory = [q \in Process |-> [n \in Local |-> memory[q][n]]]
        /\ memory' = [memory EXCEPT ![p]["intent"] = intent]
    BY <1>1 DEF Assign, FrozenInv, FrozenShape
  <2> QED BY <2>1
<1>7. "intent" \in Local /\ "request" \in Local
  BY DEF Local, File
<1>8. MemoryDerived'
  BY <1>4, <1>5, <1>6, <1>7 DEF FrozenInv, MemoryDerived
<1>9. FilesDerived'
  BY <1>1, <1>5 DEF FrozenInv, FilesDerived
<1>10. FrozenShape'
  BY <1>1, <1>6 DEF FrozenInv, FrozenShape
<1>11. HeldFrozen' /\ RunIsFrozen'
  BY <1>1 DEF FrozenInv, HeldFrozen, RunIsFrozen
<1> QED BY <1>3, <1>8, <1>9, <1>10, <1>11 DEF FrozenInv

(* The signature is over the intent as it is, edited or not.               *)
LEMMA SignKeepsInv ==
    ASSUME FrozenInv, NEW p \in Process, Sign(p)
    PROVE  FrozenInv'
<1>1. PICK request :
         /\ request.intent = memory[p].intent
         /\ Assign(p, "request", request)
  BY DEF Sign
<1>2. /\ memory[p].intent # Nothing
      /\ UNCHANGED <<files, executing, frozen, runs>>
  BY DEF Sign
<1>3. Derived(request.intent, frozen)
  BY <1>1, <1>2 DEF FrozenInv, MemoryDerived
<1> QED BY <1>1, <1>2, <1>3, AssignmentStep

(* execute() goes on with requests that were not edited.                   *)
LEMMA AdmitKeepsFrozen ==
    ASSUME FrozenInv, NEW p \in Process, Admit(p)
    PROVE  FrozenInv'
<1> DEFINE intent == memory[p].request.intent
<1>1. PICK call :
         /\ call.request = memory[p].request
         /\ executing' = [executing EXCEPT ![p] = call]
  BY DEF Admit
<1>2. /\ memory[p].request # Nothing
      /\ admission(p, memory[p].request) = OK
      /\ UNCHANGED <<files, memory, frozen, runs>>
  BY DEF Admit
<1>3. intent.parameters.frozen_digest
         = digest("experiment", intent.parameters.experiment)
  BY <1>2, AdmittedDigest
<1>4. Derived(intent, frozen) /\ FrozenMade
  BY <1>2 DEF FrozenInv, MemoryDerived
<1>5. intent \in frozen
  BY <1>3, <1>4, DigestMatches
<1>6. /\ executing' = [q \in Process |-> executing'[q]]
      /\ \A q \in Process :
            executing'[q] = IF q = p THEN call ELSE executing[q]
  BY <1>1 DEF FrozenInv, FrozenShape
<1>7. HeldFrozen'
  BY <1>1, <1>2, <1>5, <1>6 DEF FrozenInv, HeldFrozen
<1> QED BY <1>2, <1>6, <1>7 DEF FrozenInv, FrozenShape, FrozenMade,
                                FilesDerived, MemoryDerived, RunIsFrozen

(* The job is for the request that execute() holds.                        *)
LEMMA SimulateFrozen ==
    ASSUME FrozenInv, NEW p \in Process, NEW answer, Simulate(p, answer),
           UNCHANGED frozen
    PROVE  runs' \in Seq(Range(runs')) /\ RunIsFrozen'
<1>1. /\ executing[p].request.intent \in frozen
      /\ runs' = Append(runs, job(p, answer))
      /\ runs \in Seq(Range(runs))
  BY DEF Simulate, FrozenInv, HeldFrozen, FrozenShape
<1>2. job(p, answer).request = executing[p].request
  BY DEF job
<1> DEFINE new == job(p, answer)
<1> HIDE DEF new
<1>3. /\ runs' \in Seq(Range(runs'))
      /\ \A i \in DOMAIN runs' :
            \/ runs'[i] = new
            \/ i \in DOMAIN runs /\ runs'[i] = runs[i]
  <2>1. runs' = Append(runs, new)
    BY <1>1 DEF new
  <2> QED BY <1>1, <2>1, OneMoreRun
<1>4. new.request.intent \in frozen
  BY <1>1, <1>2 DEF new
<1> QED BY <1>3, <1>4 DEF FrozenInv, RunIsFrozen

LEMMA RunKeepsFrozen ==
    ASSUME FrozenInv, NEW p \in Process, NEW answer, Run(p, answer)
    PROVE  FrozenInv'
<1>1. PICK value :
         /\ Simulate(p, answer)
         /\ Assign(p, "result", value)
         /\ executing' = [executing EXCEPT ![p] = Nothing]
         /\ UNCHANGED <<files, frozen>>
  BY DEF Run
<1>2. /\ memory' = [q \in Process |-> [n \in Local |-> memory'[q][n]]]
      /\ MemoryDerived'
  BY <1>1, AssignKeepsInv
<1>3. /\ executing' = [q \in Process |-> executing'[q]]
      /\ \A q \in Process :
            executing'[q] = IF q = p THEN Nothing ELSE executing[q]
  BY <1>1 DEF FrozenInv, FrozenShape
<1>4. HeldFrozen'
  BY <1>1, <1>3 DEF FrozenInv, HeldFrozen
<1>5. runs' \in Seq(Range(runs')) /\ RunIsFrozen'
  BY <1>1, SimulateFrozen
<1> QED BY <1>1, <1>2, <1>3, <1>4, <1>5
        DEF FrozenInv, FrozenShape, FrozenMade, FilesDerived

LEMMA FailureKeepsFrozen ==
    ASSUME FrozenInv, NEW p \in Process, NEW answer, RunFails(p, answer)
    PROVE  FrozenInv'
<1>1. Simulate(p, answer) /\ Exit(p) /\ UNCHANGED <<files, frozen>>
  BY DEF RunFails
<1>2. runs' \in Seq(Range(runs')) /\ RunIsFrozen'
  BY <1>1, SimulateFrozen
<1> QED BY <1>1, <1>2, ExitKeepsInv
        DEF FrozenInv, FrozenShape, FrozenMade, FilesDerived

-----------------------------------------------------------------------------
LEMMA FrozenStep == FrozenInv /\ [Next]_vars => FrozenInv'
<1> SUFFICES ASSUME FrozenInv, [Next]_vars PROVE FrozenInv'
  OBVIOUS
<1>1. ASSUME UNCHANGED <<files, memory, executing, frozen, runs>>
      PROVE  FrozenInv'
  BY <1>1 DEF FrozenInv, FrozenShape, FrozenMade, FilesDerived, MemoryDerived,
              HeldFrozen, RunIsFrozen
<1>2. ASSUME NEW p \in Process, Exit(p), UNCHANGED <<files, frozen, runs>>
      PROVE  FrozenInv'
  BY <1>2, ExitKeepsInv
     DEF FrozenInv, FrozenShape, FrozenMade, FilesDerived, RunIsFrozen
<1>3. ASSUME NEW p \in Process, NEW name, NEW value, Assign(p, name, value),
             name \notin {"intent", "request"},
             UNCHANGED <<files, executing, frozen, runs>>
      PROVE  FrozenInv'
  BY <1>3, AssignmentStep
<1>4. CASE UNCHANGED vars
  BY <1>1, <1>4 DEF vars
<1>5. ASSUME NEW p \in Process, NEW c \in Command[p], Start(p, c)
      PROVE  FrozenInv'
  BY <1>1, <1>5 DEF Start
<1>6. ASSUME NEW p \in Process, Return(p) \/ Stop(p) PROVE FrozenInv'
  BY <1>2, <1>6 DEF Return, Stop
<1>7. ASSUME NEW p \in Process, Load(p) \/ Fill(p) PROVE FrozenInv'
  BY <1>7, LoadKeepsInv, FillKeepsInv
<1>8. ASSUME NEW p \in Process, Open(p) PROVE FrozenInv'
  <2>1. /\ files' = [files EXCEPT ![instruction(p)[2]] = Torn]
        /\ UNCHANGED <<memory, executing, frozen, runs>>
    BY <1>8 DEF Open
  <2> QED BY <2>1, FilesKeepInv
<1>9. ASSUME NEW p \in Process, RequireNew(p) \/ Mkdir(p) PROVE FrozenInv'
  BY <1>1, <1>9 DEF RequireNew, Mkdir, Advance
<1>10. ASSUME NEW p \in Process, NEW identity \in Range(Identities),
              Generate(p, identity)
       PROVE  FrozenInv'
  <2>1. PICK value : /\ Assign(p, identity, value)
                     /\ UNCHANGED <<files, executing, frozen, runs>>
    BY <1>10 DEF Generate
  <2>2. identity \notin {"intent", "request"}
    BY DEF Range, Identities
  <2> QED BY <1>3, <2>1, <2>2
<1>11. ASSUME NEW p \in Process,
              \/ Bundle(p) \/ Bell(p) \/ Accelerate(p) \/ Workload(p)
              \/ Issue(p) \/ Attest(p)
              \/ Preflight(p) \/ Construct(p) \/ Summarize(p)
       PROVE  FrozenInv'
  <2>1. PICK name \in {"trust", "experiment", "header", "receipt", "adapter",
                       "summary"} :
           /\ \E value : Assign(p, name, value)
           /\ UNCHANGED <<files, executing, frozen, runs>>
    BY <1>11, Zenon DEF Bundle, Bell, Accelerate, Workload, Issue, Attest,
                        Preflight, Construct, Summarize
  <2> QED BY <1>3, <2>1
<1>12. ASSUME NEW p \in Process, Freeze(p) \/ Sign(p) \/ Admit(p)
       PROVE  FrozenInv'
  BY <1>12, FreezeKeepsInv, SignKeepsInv, AdmitKeepsFrozen
<1>13. ASSUME NEW p \in Process, NEW answer,
              Run(p, answer) \/ RunFails(p, answer)
       PROVE  FrozenInv'
  BY <1>13, RunKeepsFrozen, FailureKeepsFrozen
<1>14. ASSUME NEW p \in Process, Inspect(p) \/ Verify(p) \/ VerifyResult(p)
       PROVE  FrozenInv'
  BY <1>1, <1>14 DEF Inspect, Verify, VerifyResult, Check
<1>15. ASSUME NEW p \in Process, TryAltered(p) \/ TryReplay(p)
       PROVE  FrozenInv'
  BY <1>1, <1>2, <1>15 DEF TryAltered, TryReplay, Try
<1>16. ASSUME NEW e, EditExperiment(e) PROVE FrozenInv'
  <2>1. /\ files' = [files EXCEPT !["experiment"] = e]
        /\ UNCHANGED <<memory, executing, frozen, runs>>
    BY <1>16 DEF EditExperiment
  <2> QED BY <2>1, FilesKeepInv
<1>17. CASE Tick
  BY <1>1, <1>17 DEF Tick
<1>18. ASSUME NEW p \in Process, Step(p) PROVE FrozenInv'
  BY <1>7, <1>8, <1>9, <1>10, <1>11, <1>12, <1>13, <1>14, <1>15, <1>18
     DEF Step
<1> QED BY <1>4, <1>5, <1>6, <1>16, <1>17, <1>18, EditKeepsInv DEF Next

(* The inductive invariant: all intents about are frozen ones but for      *)
(* their experiments, those behind reserve() without exception.            *)
THEOREM FrozenInvariant == Spec => []FrozenInv
BY FrozenInitial, FrozenStep, PTL DEF Spec

(* What runs is what freeze() saw, whatever commands wrote in between and  *)
(* whatever experiments the operator put into intent.json.                 *)
THEOREM CommandsRunFrozen == Spec => []RunIsFrozen
<1>1. FrozenInv => RunIsFrozen
  BY DEF FrozenInv
<1> QED BY <1>1, FrozenInvariant, PTL

-----------------------------------------------------------------------------
(* The result is about this run.                                           *)
RecordOf(result, run) ==
    LET body       == result.body
        experiment == run.request.intent.parameters.experiment
    IN  /\ body.action_digest = digest("intent", run.request.intent)
        /\ body.receipt_digest = digest("receipt", run.receipt)
        /\ body.receipt_id = run.receipt.header.receipt_id
        /\ body.counts = run.answer.counts
        /\ body.executed_at = run.time
        /\ experiment.backend = BUILTIN
               \/ run.answer.device = DeviceOf(experiment.backend)

Recorded(result, done) == \E i \in DOMAIN done : RecordOf(result, done[i])

(* Whatever result.json holds, when it is there and whole, ...             *)
FileRecorded ==
    files["result"] \notin {Nothing, Torn} => Recorded(files["result"], runs)

(* ... and whatever a command has of it.                                   *)
MemoryRecorded ==
    \A p \in Process :
        memory[p].result # Nothing => Recorded(memory[p].result, runs)

HeldSigned ==
    \A p \in Process :
        executing[p] # Nothing => SignedIntent(executing[p].request)

RecordInv == FileRecorded /\ MemoryRecorded /\ HeldSigned

-----------------------------------------------------------------------------
LEMMA RecordInitial == Init => RecordInv
<1> SUFFICES ASSUME Init PROVE RecordInv
  OBVIOUS
<1>1. "result" \in File /\ "result" \in Local
  BY DEF File, Local
<1>2. /\ files["result"] = Nothing
      /\ \A p \in Process : memory[p].result = Nothing
      /\ \A p \in Process : executing[p] = Nothing
  BY <1>1 DEF Init
<1> QED BY <1>2 DEF RecordInv, FileRecorded, MemoryRecorded, HeldSigned

(* Another run changes nothing in what a result is the record of.          *)
LEMMA RecordedStays ==
    ASSUME NEW result, NEW done, NEW run, done \in Seq(Range(done)),
           Recorded(result, done)
    PROVE  Recorded(result, Append(done, run))
BY OneMoreRun DEF Recorded

LEMMA NewlyRecorded ==
    ASSUME NEW result, NEW done, NEW run, done \in Seq(Range(done)),
           RecordOf(result, run)
    PROVE  Recorded(result, Append(done, run))
BY OneMoreRun DEF Recorded

(* The record that execute() signs, of a job on the device it asked for.   *)
LEMMA RunRecorded ==
    ASSUME NEW p, NEW answer, NEW draw, SignedIntent(executing[p].request),
           run_check(memory[p].adapter,
                     executing[p].request.intent.parameters.experiment,
                     answer) = OK
    PROVE  RecordOf(record(executing[p].request, executing[p].receipt,
                           executing[p].trust, memory[p].executor, now,
                           answer.counts, draw),
                    job(p, answer))
<1> DEFINE call       == executing[p]
           experiment == call.request.intent.parameters.experiment
           revision   == memory[p].adapter
<1>1. experiment.backend = BUILTIN
         \/ answer.device = DeviceOf(experiment.backend)
  <2>1. CASE revision = BUILTIN
    <3>1. experiment \in Experiment \cup AerExperiment
      BY DEF SignedIntent, Intent, Parameters
    <3>2. experiment.schema_version = 1
      BY <2>1, RequirePasses DEF run_check, OK
    <3> HIDE DEF experiment
    <3>3. experiment \in Experiment => experiment.backend = BUILTIN
      BY DEF Experiment
    <3>4. experiment \in AerExperiment => experiment.schema_version = 2
      BY DEF AerExperiment
    <3> QED BY <3>1, <3>2, <3>3, <3>4
  <2>2. CASE revision # BUILTIN
    <3>1. run_aer(revision, experiment, answer) = OK
      BY <2>2 DEF run_check
    <3>2. /\ require(experiment.backend = revision, "BACKEND_MISMATCH") = OK
          /\ require(answer.device = DeviceOf(revision),
                     "SIMULATOR_DEVICE_MISMATCH") = OK
      BY <3>1, ChainPasses DEF run_aer
    <3> QED BY <3>2, RequirePasses DEF OK
  <2> QED BY <2>1, <2>2
<1> QED BY <1>1 DEF RecordOf, record, result_body, job

-----------------------------------------------------------------------------
LEMMA AssignKeepsRecords ==
    ASSUME FrozenShape, RecordInv, NEW p \in Process, NEW name, NEW value,
           Assign(p, name, value), UNCHANGED <<files, executing>>,
           \A result : Recorded(result, runs) => Recorded(result, runs'),
           name = "result" /\ value # Nothing => Recorded(value, runs')
    PROVE  RecordInv'
<1>1. /\ memory = [q \in Process |-> [n \in Local |-> memory[q][n]]]
      /\ memory' = [memory EXCEPT ![p][name] = value]
  BY DEF Assign, FrozenShape
<1>2. \A q \in Process : \A n \in Local :
         memory'[q][n] = IF q = p /\ n = name THEN value ELSE memory[q][n]
  BY <1>1
<1>3. "result" \in Local
  BY DEF Local, File
<1>4. MemoryRecorded'
  BY <1>2, <1>3 DEF RecordInv, MemoryRecorded
<1> QED BY <1>4 DEF RecordInv, FileRecorded, HeldSigned

LEMMA ExitKeepsRecords ==
    ASSUME FrozenShape, RecordInv, NEW p \in Process, Exit(p),
           UNCHANGED files,
           \A result : Recorded(result, runs) => Recorded(result, runs')
    PROVE  RecordInv'
<1>1. /\ memory = [q \in Process |-> [n \in Local |-> memory[q][n]]]
      /\ memory' = [memory EXCEPT ![p] = [n \in Local |-> Nothing]]
      /\ executing = [q \in Process |-> executing[q]]
      /\ executing' = [executing EXCEPT ![p] = Nothing]
  BY DEF Exit, FrozenShape
<1>2. \A q \in Process : \A n \in Local :
         memory'[q][n] = IF q = p THEN Nothing ELSE memory[q][n]
  BY <1>1
<1>3. \A q \in Process :
         executing'[q] = IF q = p THEN Nothing ELSE executing[q]
  BY <1>1
<1>4. "result" \in Local
  BY DEF Local, File
<1>5. MemoryRecorded'
  BY <1>2, <1>4 DEF RecordInv, MemoryRecorded
<1>6. HeldSigned'
  BY <1>3 DEF RecordInv, HeldSigned
<1> QED BY <1>5, <1>6 DEF RecordInv, FileRecorded

LEMMA FilesKeepRecords ==
    ASSUME FrozenShape, RecordInv, UNCHANGED <<memory, executing, runs>>,
           NEW name, NEW content, files' = [files EXCEPT ![name] = content],
           name = "result" /\ content \notin {Nothing, Torn} =>
               Recorded(content, runs)
    PROVE  RecordInv'
<1>1. files' = [n \in File |-> IF n = name THEN content ELSE files[n]]
  BY DEF FrozenShape
<1>2. "result" \in File
  BY DEF File
<1>3. FileRecorded'
  BY <1>1, <1>2 DEF RecordInv, FileRecorded
<1> QED BY <1>3 DEF RecordInv, MemoryRecorded, HeldSigned

LEMMA LoadFillKeepRecords ==
    ASSUME FrozenShape, RecordInv, NEW p \in Process, Load(p) \/ Fill(p)
    PROVE  RecordInv'
<1> DEFINE name == instruction(p)[2]
<1>1. CASE Load(p)
  <2>1. /\ file(name) \notin {Nothing, Torn}
        /\ Assign(p, name, file(name))
        /\ UNCHANGED <<files, executing, runs>>
    BY <1>1 DEF Load, readable
  <2>2. name # "issuer" => file(name) = files[name]
    BY DEF file
  <2> HIDE DEF name
  <2>3. name = "result" => Recorded(file(name), runs')
    BY <2>1, <2>2 DEF RecordInv, FileRecorded
  <2> QED BY <2>1, <2>3, AssignKeepsRecords
<1>2. CASE Fill(p)
  <2>1. PICK content \in {memory[p][name], Torn} :
           files' = [files EXCEPT ![name] = content]
    BY <1>2 DEF Fill
  <2>2. UNCHANGED <<memory, executing, runs>>
    BY <1>2 DEF Fill
  <2> HIDE DEF name
  <2>3. name = "result" /\ content \notin {Nothing, Torn} =>
           Recorded(content, runs)
    BY <2>1 DEF RecordInv, MemoryRecorded
  <2> QED BY <2>1, <2>2, <2>3, FilesKeepRecords
<1> QED BY <1>1, <1>2

LEMMA AdmitKeepsRecords ==
    ASSUME FrozenShape, RecordInv, NEW p \in Process, Admit(p)
    PROVE  RecordInv'
<1>1. PICK call : /\ SignedIntent(call.request)
                  /\ executing' = [executing EXCEPT ![p] = call]
  BY DEF Admit
<1>2. UNCHANGED <<files, memory, runs>>
  BY DEF Admit
<1>3. \A q \in Process :
         executing'[q] = IF q = p THEN call ELSE executing[q]
  BY <1>1 DEF FrozenShape
<1>4. HeldSigned'
  BY <1>1, <1>3 DEF RecordInv, HeldSigned
<1> QED BY <1>2, <1>4 DEF RecordInv, FileRecorded, MemoryRecorded

LEMMA RunKeepsRecords ==
    ASSUME FrozenShape, RecordInv, NEW p \in Process, NEW answer,
           Run(p, answer)
    PROVE  RecordInv'
<1> DEFINE made(draw) == record(executing[p].request, executing[p].receipt,
                                executing[p].trust, memory[p].executor, now,
                                answer.counts, draw)
           run == job(p, answer)
<1>0. PICK draw \in Draws["result"] : Assign(p, "result", made(draw))
  BY Zenon DEF Run
<1> DEFINE value == made(draw)
<1>1. /\ executing[p] # Nothing
      /\ runs' = Append(runs, run)
      /\ Assign(p, "result", value)
      /\ executing' = [executing EXCEPT ![p] = Nothing]
      /\ run_check(memory[p].adapter,
                   executing[p].request.intent.parameters.experiment,
                   answer) = OK
      /\ UNCHANGED files
  BY <1>0 DEF Run, Simulate
<1>2. RecordOf(value, run)
  BY <1>1, RunRecorded DEF RecordInv, HeldSigned
<1>3. runs \in Seq(Range(runs))
  BY DEF FrozenShape
<1> HIDE DEF value, run, made
<1>4. /\ Recorded(value, runs')
      /\ \A result : Recorded(result, runs) => Recorded(result, runs')
  BY <1>1, <1>2, <1>3, RecordedStays, NewlyRecorded
<1>5. \A q \in Process :
         executing'[q] = IF q = p THEN Nothing ELSE executing[q]
  BY <1>1 DEF FrozenShape
<1>6. \A q \in Process : \A n \in Local :
         memory'[q][n] = IF q = p /\ n = "result" THEN value
                         ELSE memory[q][n]
  <2>1. /\ memory = [q \in Process |-> [n \in Local |-> memory[q][n]]]
        /\ memory' = [memory EXCEPT ![p]["result"] = value]
    BY <1>1 DEF Assign, FrozenShape
  <2> QED BY <2>1
<1>7. MemoryRecorded'
  <2>1. "result" \in Local
    BY DEF Local, File
  <2> QED BY <1>4, <1>6, <2>1 DEF RecordInv, MemoryRecorded
<1>8. HeldSigned' /\ FileRecorded'
  BY <1>1, <1>4, <1>5 DEF RecordInv, HeldSigned, FileRecorded
<1> QED BY <1>7, <1>8 DEF RecordInv

LEMMA RecordStep ==
    FrozenInv /\ RecordInv /\ [Next]_vars => RecordInv'
<1> SUFFICES ASSUME FrozenInv, RecordInv, [Next]_vars PROVE RecordInv'
  OBVIOUS
<1>0. FrozenShape
  BY DEF FrozenInv
<1>1. ASSUME UNCHANGED <<files, memory, executing, runs>> PROVE RecordInv'
  BY <1>1 DEF RecordInv, FileRecorded, MemoryRecorded, HeldSigned
<1>2. ASSUME NEW p \in Process, Exit(p), UNCHANGED <<files, runs>>
      PROVE  RecordInv'
  BY <1>0, <1>2, ExitKeepsRecords
<1>3. ASSUME NEW p \in Process, NEW name, NEW value, Assign(p, name, value),
             name # "result", UNCHANGED <<files, executing, runs>>
      PROVE  RecordInv'
  BY <1>0, <1>3, AssignKeepsRecords
<1>4. CASE UNCHANGED vars
  BY <1>1, <1>4 DEF vars
<1>5. ASSUME NEW p \in Process, NEW c \in Command[p], Start(p, c)
      PROVE  RecordInv'
  BY <1>1, <1>5 DEF Start
<1>6. ASSUME NEW p \in Process, Return(p) \/ Stop(p) PROVE RecordInv'
  BY <1>2, <1>6 DEF Return, Stop
<1>7. ASSUME NEW p \in Process, Open(p) PROVE RecordInv'
  <2>1. /\ files' = [files EXCEPT ![instruction(p)[2]] = Torn]
        /\ UNCHANGED <<memory, executing, runs>>
    BY <1>7 DEF Open
  <2> QED BY <1>0, <2>1, FilesKeepRecords
<1>8. ASSUME NEW p \in Process, RequireNew(p) \/ Mkdir(p) PROVE RecordInv'
  BY <1>1, <1>8 DEF RequireNew, Mkdir, Advance
<1>9. ASSUME NEW p \in Process, NEW identity \in Range(Identities),
             Generate(p, identity)
      PROVE  RecordInv'
  <2>1. PICK value : /\ Assign(p, identity, value)
                     /\ UNCHANGED <<files, executing, runs>>
    BY <1>9 DEF Generate
  <2>2. identity # "result"
    BY DEF Range, Identities
  <2> QED BY <1>3, <2>1, <2>2
<1>10. ASSUME NEW p \in Process,
              \/ Bundle(p) \/ Bell(p) \/ Accelerate(p) \/ Workload(p)
              \/ Freeze(p) \/ Sign(p) \/ Issue(p) \/ Attest(p)
              \/ Preflight(p) \/ Construct(p) \/ Summarize(p)
       PROVE  RecordInv'
  <2>1. PICK name \in {"trust", "experiment", "intent", "request", "header",
                       "receipt", "adapter", "summary"} :
           /\ \E value : Assign(p, name, value)
           /\ UNCHANGED <<files, executing, runs>>
    BY <1>10, Zenon
       DEF Bundle, Bell, Accelerate, Workload, Freeze, Sign, Issue, Attest,
           Preflight, Construct, Summarize
  <2> QED BY <1>3, <2>1
<1>11. ASSUME NEW p \in Process, NEW answer, RunFails(p, answer)
       PROVE  RecordInv'
  <2>1. /\ runs' = Append(runs, job(p, answer))
        /\ Exit(p) /\ UNCHANGED files
    BY <1>11 DEF RunFails, Simulate
  <2>2. \A result : Recorded(result, runs) => Recorded(result, runs')
    BY <1>0, <2>1, RecordedStays DEF FrozenShape
  <2> QED BY <1>0, <2>1, <2>2, ExitKeepsRecords
<1>12. ASSUME NEW p \in Process, Inspect(p) \/ Verify(p) \/ VerifyResult(p)
       PROVE  RecordInv'
  BY <1>1, <1>12 DEF Inspect, Verify, VerifyResult, Check, Advance
<1>13. ASSUME NEW p \in Process, TryAltered(p) \/ TryReplay(p)
       PROVE  RecordInv'
  BY <1>1, <1>2, <1>13 DEF TryAltered, TryReplay, Try, Advance
<1>14. ASSUME NEW e, EditExperiment(e) PROVE RecordInv'
  <2>1. /\ files' = [files EXCEPT !["experiment"] = e]
        /\ UNCHANGED <<memory, executing, runs>>
    BY <1>14 DEF EditExperiment
  <2> QED BY <1>0, <2>1, FilesKeepRecords
<1>15. ASSUME NEW e, EditIntent(e) PROVE RecordInv'
  <2>1. PICK content : files' = [files EXCEPT !["intent"] = content]
    BY <1>15 DEF EditIntent
  <2>2. UNCHANGED <<memory, executing, runs>>
    BY <1>15 DEF EditIntent
  <2> QED BY <1>0, <2>1, <2>2, FilesKeepRecords
<1>16. CASE Tick
  BY <1>1, <1>16 DEF Tick
<1>17. ASSUME NEW p \in Process, Step(p) PROVE RecordInv'
  BY <1>0, <1>7, <1>8, <1>9, <1>10, <1>11, <1>12, <1>13, <1>17,
     LoadFillKeepRecords, AdmitKeepsRecords, RunKeepsRecords DEF Step
<1> QED BY <1>4, <1>5, <1>6, <1>14, <1>15, <1>16, <1>17 DEF Next

(* A result document exists only of a run: result.json and what commands   *)
(* have in memory name the intent, the receipt, the time and the counts of *)
(* one, whichever command wrote the file and whatever else was replaced.   *)
THEOREM ResultsRecordRuns == Spec => []RecordInv
<1>1. FrozenInv /\ RecordInv /\ [Next]_vars => RecordInv'
  BY RecordStep
<1> QED BY RecordInitial, <1>1, FrozenInvariant, PTL DEF Spec

(* A result of Aer is of a run on the device its signed experiment names.  *)
THEOREM ResultsNameDevice == Spec => []SignedDevice
<1>1. RecordInv => SignedDevice
  BY DEF RecordInv, MemoryRecorded, Recorded, RecordOf, SignedDevice
<1> QED BY <1>1, ResultsRecordRuns, PTL

-----------------------------------------------------------------------------
(* The documents that commands make of documents they read.                *)

(* The algorithms of a suite name the components of keys and signatures.   *)
LEMMA ComponentNames ==
    ASSUME NEW s \in Suites
    PROVE  components(s) \subseteq STRING
<1>1. {"ed25519", "ml-dsa-65"} \subseteq STRING
  BY LabelAssumption
<1> QED BY <1>1 DEF components, Suites

(* crypto.generate makes key files.                                        *)
LEMMA KeyFileMade ==
    ASSUME NEW k \in Range(Identities), NEW s \in Suites, NEW p
    PROVE  KeyFile(key_file(k, s, p))
<1> DEFINE keys == [algorithm \in components(s) |-> <<k, p>>]
           file_k == [identity |-> k, suite |-> s, private_keys |-> keys]
<1>1. k \in STRING
  BY LabelAssumption
<1>2. is_dict(keys)
  BY ComponentNames DEF is_dict
<1>3. key_file(k, s, p) = file_k
  BY DEF key_file
<1> HIDE DEF keys
<1>4. KeyFile(file_k)
  BY <1>1, <1>2 DEF KeyFile, Identifier
<1> QED BY <1>3, <1>4

(* What crypto.sign makes is a dictionary.                                 *)
LEMMA SignatureDict ==
    ASSUME NEW s \in Suites, NEW private, NEW data, NEW draw
    PROVE  is_dict(sign(s, private, data, draw))
BY ComponentNames DEF is_dict, sign

(* The fields that a policy and a policy for Aer share.                    *)
LEMMA SharedFields ==
    ASSUME NEW subjects, NEW qubits, NEW q \in PolicyFields(subjects, qubits)
    PROVE  /\ q.reference \in PolicyRef /\ q.suite \in Suites
           /\ q.audience \in Identifier /\ q.target \in Identifier
           /\ q.context \in Context
           /\ q.verifier_ids \in list(Identifier, 16) /\ q.quorum \in 1 .. 16
           /\ q.max_intent_ttl \in 1 .. 3600 /\ q.receipt_ttl \in 1 .. 600
<1> DEFINE names == Identifier
           lists == list(names, 16)
           versions == {1, 2}
           shots == 1 .. 4096
           maximum == 1 .. 3600
           ttl == 1 .. 600
           votes == 1 .. 16
           sizes == 1 .. qubits
<1>1. PolicyFields(subjects, qubits)
         = [schema_version : versions, reference : PolicyRef, suite : Suites,
            audience : names, target : names, context : Context,
            subjects : {subjects}, verifier_ids : lists, quorum : votes,
            max_qubits : sizes, max_shots : shots, human_above_shots : shots,
            max_intent_ttl : maximum, receipt_ttl : ttl]
  BY DEF PolicyFields
<1> HIDE DEF names, lists, versions, shots, maximum, ttl, votes, sizes
<1>2. /\ q.reference \in PolicyRef /\ q.suite \in Suites
      /\ q.audience \in names /\ q.target \in names
      /\ q.context \in Context /\ q.verifier_ids \in lists
      /\ q.quorum \in votes /\ q.max_intent_ttl \in maximum
      /\ q.receipt_ttl \in ttl
  BY <1>1
<1> QED BY <1>2 DEF names, lists, votes, maximum, ttl

(* Their names.                                                            *)
LEMMA FieldNames ==
    ASSUME NEW subjects, NEW qubits, NEW q \in PolicyFields(subjects, qubits)
    PROVE  DOMAIN q = {"schema_version", "reference", "suite", "audience",
                       "target", "context", "subjects", "verifier_ids",
                       "quorum", "max_qubits", "max_shots",
                       "human_above_shots", "max_intent_ttl", "receipt_ttl"}
BY DEF PolicyFields

(* The fields of a policy that others are made of.                         *)
LEMMA PolicyFacts ==
    ASSUME NEW p, Policy(p)
    PROVE  /\ p.reference \in PolicyRef /\ p.suite \in Suites
           /\ p.audience \in STRING /\ p.target \in STRING
           /\ p.context \in Context
           /\ p.verifier_ids \in list(STRING, 16) /\ p.quorum \in 1 .. 16
           /\ p.max_intent_ttl \in 1 .. 3600 /\ p.receipt_ttl \in 1 .. 600
           /\ {"verifier_ids", "quorum", "subjects", "human_above_shots",
               "max_shots", "receipt_ttl", "max_intent_ttl", "suite"}
                  \subseteq DOMAIN p
<1> DEFINE q == [f \in DOMAIN p \ {"backend"} |-> p[f]]
           aer == p.schema_version = 2
           top == IF aer THEN 26 ELSE 8
<1>1. q \in PolicyFields(p.subjects, top)
  BY Zenon DEF Policy
<1>2. DOMAIN q = DOMAIN p \ {"backend"} /\ \A f \in DOMAIN q : q[f] = p[f]
  OBVIOUS
<1> HIDE DEF q, top
<1>3. DOMAIN q = {"schema_version", "reference", "suite", "audience",
                  "target", "context", "subjects", "verifier_ids", "quorum",
                  "max_qubits", "max_shots", "human_above_shots",
                  "max_intent_ttl", "receipt_ttl"}
  BY <1>1, FieldNames
<1>4. /\ q.reference \in PolicyRef /\ q.suite \in Suites
      /\ q.audience \in Identifier /\ q.target \in Identifier
      /\ q.context \in Context
      /\ q.verifier_ids \in list(Identifier, 16) /\ q.quorum \in 1 .. 16
      /\ q.max_intent_ttl \in 1 .. 3600 /\ q.receipt_ttl \in 1 .. 600
  <2> HIDE DEF aer
  <2> QED BY <1>1, SharedFields
<1>5. /\ \A f \in DOMAIN q : f \in DOMAIN p /\ p[f] = q[f]
  BY <1>2
<1>6. /\ p.reference = q.reference /\ p.suite = q.suite
      /\ p.audience = q.audience /\ p.target = q.target
      /\ p.context = q.context /\ p.verifier_ids = q.verifier_ids
      /\ p.quorum = q.quorum /\ p.max_intent_ttl = q.max_intent_ttl
      /\ p.receipt_ttl = q.receipt_ttl
  BY <1>3, <1>5
<1>7. {"verifier_ids", "quorum", "subjects", "human_above_shots",
       "max_shots", "receipt_ttl", "max_intent_ttl", "suite"}
          \subseteq DOMAIN p
  BY <1>3, <1>5
<1> HIDE DEF aer
<1> QED BY <1>4, <1>6, <1>7, SMTT(40) DEF Identifier

(* What trust_snapshot reads of a bundle.                                  *)
LEMMA SnapshotReads ==
    ASSUME NEW t, NEW u,
           t.verifiers = u.verifiers, t.requesters = u.requesters,
           t.executor_id = u.executor_id,
           t.executor_keys = u.executor_keys,
           \A f \in {"verifier_ids", "quorum", "subjects",
                     "human_above_shots", "max_shots", "receipt_ttl",
                     "max_intent_ttl", "suite"} : t.policy[f] = u.policy[f]
    PROVE  trust_snapshot(t) = trust_snapshot(u)
<1>1. owned_keys(t) = owned_keys(u)
  BY DEF owned_keys
<1>2. distinct_keys(t) = distinct_keys(u)
  BY <1>1, SMT DEF distinct_keys
<1>3. /\ t.policy.verifier_ids = u.policy.verifier_ids
      /\ t.policy.quorum = u.policy.quorum
      /\ t.policy.subjects = u.policy.subjects
      /\ t.policy.human_above_shots = u.policy.human_above_shots
      /\ t.policy.max_shots = u.policy.max_shots
      /\ t.policy.receipt_ttl = u.policy.receipt_ttl
      /\ t.policy.max_intent_ttl = u.policy.max_intent_ttl
      /\ t.policy.suite = u.policy.suite
  OBVIOUS
<1> DEFINE owners(keys, s) ==
               \A owner \in keys : check_public(s, owner[3]) = OK
           snapshot(ids, votes, subjects, human, shots, receipt, intent,
                    verifiers, requesters, signed, distinct) ==
                  require(ids = SelectSeq(VerifierOrder,
                                          LAMBDA i : i \in Range(ids)),
                          "TRUST_VERIFIER_IDENTITIES")
               ?? require(votes <= Len(ids), "TRUST_QUORUM")
               ?? require(DOMAIN verifiers = Range(ids),
                          "TRUST_VERIFIER_IDENTITIES")
               ?? require(DOMAIN requesters = subjects, "TRUST_REQUESTERS")
               ?? require(human <= shots, "TRUST_LIMITS")
               ?? require(receipt <= intent, "TRUST_LIMITS")
               ?? require(signed, "KEY_COMPONENTS")
               ?? require(distinct, "TRUST_DUPLICATE_KEY")
<1>4. ASSUME NEW v
      PROVE  trust_snapshot(v)
                = snapshot(v.policy.verifier_ids, v.policy.quorum,
                           v.policy.subjects, v.policy.human_above_shots,
                           v.policy.max_shots, v.policy.receipt_ttl,
                           v.policy.max_intent_ttl, v.verifiers,
                           v.requesters,
                           owners(owned_keys(v), v.policy.suite),
                           distinct_keys(v))
  BY Zenon DEF trust_snapshot
<1> HIDE DEF owners, snapshot
<1> QED BY <1>1, <1>2, <1>3, <1>4

(* provision_accelerated writes a bundle that can be read.                 *)
LEMMA AcceleratedBundle ==
    ASSUME NEW t, TrustBundle(t), trust_snapshot(t) = OK, NEW device,
           Policy(accelerated_policy(t.policy, device))
    PROVE  LET policy == accelerated_policy(t.policy, device)
               u == [t EXCEPT !.policy = policy]
           IN  TrustBundle(u) /\ trust_snapshot(u) = OK
<1> DEFINE policy == accelerated_policy(t.policy, device)
           u == [t EXCEPT !.policy = policy]
<1>1. /\ DOMAIN t = {"policy", "verifiers", "requesters", "executor_id",
                     "executor_keys"}
      /\ Policy(t.policy)
  BY DEF TrustBundle
<1>2. \A f \in {"verifier_ids", "quorum", "subjects", "human_above_shots",
                "max_shots", "receipt_ttl", "max_intent_ttl", "suite"} :
         policy[f] = t.policy[f]
  <2>1. \A f \in {"verifier_ids", "quorum", "subjects", "human_above_shots",
                  "max_shots", "receipt_ttl", "max_intent_ttl", "suite"} :
           f \in DOMAIN t.policy
    <3> DEFINE old == t.policy
    <3>1. Policy(old)
      BY <1>1
    <3> HIDE DEF old, policy, u
    <3>2. {"verifier_ids", "quorum", "subjects", "human_above_shots",
            "max_shots", "receipt_ttl", "max_intent_ttl", "suite"}
               \subseteq DOMAIN old
      BY <3>1, PolicyFacts
    <3> QED BY <3>2 DEF old
  <2> QED BY <2>1 DEF accelerated_policy
<1>3. Policy(policy)
  OBVIOUS
<1> HIDE DEF policy
<1>4. /\ DOMAIN u = DOMAIN t /\ u.policy = policy
      /\ u.verifiers = t.verifiers /\ u.requesters = t.requesters
      /\ u.executor_id = t.executor_id
      /\ u.executor_keys = t.executor_keys
  BY <1>1
<1> HIDE DEF u
<1>5. TrustBundle(u)
  BY <1>1, <1>3, <1>4, Zenon DEF TrustBundle
<1>6. trust_snapshot(u) = trust_snapshot(t)
  BY <1>2, <1>4, SnapshotReads
<1> QED BY <1>5, <1>6 DEF u, policy

(* A sequence that is short enough is a list.                              *)
LEMMA Listed ==
    ASSUME NEW X, NEW s \in Seq(X), NEW limit, Len(s) \in 1 .. limit
    PROVE  s \in list(X, limit)
BY DEF list

(* Policies name the verifiers among the identities.                       *)
LEMMA FirstNames ==
    SubSeq(Identities, 1, 3) \in list(STRING, 16)
    /\ Range(SubSeq(Identities, 1, 3)) \subseteq Range(Identities)
<1> DEFINE v == SubSeq(Identities, 1, 3)
<1>1. ASSUME NEW X, Range(Identities) \subseteq X
      PROVE  v \in Seq(X) /\ Len(v) = 3
  <2>1. Range(Identities) = {"verifier-1", "verifier-2", "verifier-3",
                             "scientist", "executor"}
    BY DEF Range, Identities
  <2>2. {"verifier-1", "verifier-2", "verifier-3", "scientist", "executor"}
           \subseteq X
    BY <1>1, <2>1
  <2>3. Identities \in Seq(X)
    BY <2>2 DEF Identities
  <2>4. Len(Identities) = 5
    BY DEF Identities
  <2> HIDE DEF Identities
  <2> QED BY <2>3, <2>4, SMTT(40)
<1>2. v \in Seq(STRING) /\ Len(v) \in 1 .. 16
  <2>1. Range(Identities) \subseteq STRING
    BY LabelAssumption
  <2> HIDE DEF v
  <2>2. v \in Seq(STRING) /\ Len(v) = 3
    BY <1>1, <2>1
  <2> QED BY <2>2
<1>3. v \in Seq(Range(Identities))
  BY <1>1
<1> HIDE DEF v
<1>4. v \in list(STRING, 16)
  BY <1>2, Listed
<1>5. Range(v) \subseteq Range(Identities)
  <2>1. \A n \in DOMAIN v : v[n] \in Range(Identities)
    BY <1>3
  <2> QED BY <2>1, Zenon DEF Range
<1> QED BY <1>4, <1>5 DEF v

(* The policy of provision() is one of the document model.                 *)
LEMMA LocalPolicy ==
    ASSUME NEW c, quorum(c) \in {2, 3}, suite(c) \in Suites
    PROVE  Policy(local_policy(c))
<1> DEFINE p == local_policy(c)
           q == [f \in DOMAIN p \ {"backend"} |-> p[f]]
           v == SubSeq(Identities, 1, 3)
           subjects == {"scientist"}
           context == [environment |-> "local", project |-> "bell-study"]
           reference == [id |-> "quantum-local", version |-> 1]
<1>1. {"quantum-local", "lab-executor", "simulator:local", "local",
       "bell-study", "scientist"} \subseteq STRING
  <2>1. "scientist" \in Range(Identities)
    BY DEF Range, Identities
  <2> QED BY <2>1, LabelAssumption
<1>2. context \in Context /\ reference \in PolicyRef
  BY <1>1 DEF Context, PolicyRef, Identifier
<1>3. v \in list(STRING, 16)
  BY FirstNames
<1>4. subjects \subseteq Identifier /\ Cardinality(subjects) \in 1 .. 32
  <2>1. Cardinality(subjects) = 1
    BY FS_Singleton
  <2> QED BY <1>1, <2>1 DEF Identifier
<1> HIDE DEF context, reference, v, subjects
<1>5. p = [schema_version |-> 1, reference |-> reference, suite |-> suite(c),
           audience |-> "lab-executor", target |-> "simulator:local",
           context |-> context, subjects |-> subjects, verifier_ids |-> v,
           quorum |-> quorum(c), max_qubits |-> 8, max_shots |-> 4096,
           human_above_shots |-> 2048, max_intent_ttl |-> 600,
           receipt_ttl |-> 120]
  BY ZenonT(40) DEF local_policy, context, reference, v, subjects
<1> HIDE DEF p
<1>6. p.schema_version = 1 /\ "backend" \notin DOMAIN p
      /\ p.subjects = subjects
  BY <1>5
<1>7. p \in PolicyFields(subjects, 8)
  BY <1>1, <1>2, <1>3, <1>5, SMTT(40) DEF Identifier, PolicyFields
<1>8. q = p
  BY <1>5, <1>6
<1>9. Policy(p)
         <=> /\ "backend" \in DOMAIN p <=> p.schema_version = 2
             /\ p.schema_version = 2 => p.backend \in {AER_CPU, AER_GPU}
             /\ q \in PolicyFields(p.subjects, IF p.schema_version = 2
                                               THEN 26 ELSE 8)
             /\ p.subjects \subseteq Identifier
             /\ Cardinality(p.subjects) \in 1 .. 32
  BY Zenon DEF Policy
<1> HIDE DEF q
<1>10. p.schema_version = 2 <=> FALSE
  BY <1>6
<1>11. q \in PolicyFields(p.subjects, IF p.schema_version = 2
                                     THEN 26 ELSE 8)
  BY <1>6, <1>7, <1>8, <1>10
<1>12. Policy(p)
  BY <1>4, <1>6, <1>9, <1>10, <1>11
<1> QED BY <1>12 DEF p

(* The bundle of provision() is one that can be read.                      *)
LEMMA LocalBundle ==
    ASSUME NEW c, quorum(c) \in {2, 3}, suite(c) \in Suites, NEW keys,
           \A k \in Range(Identities) : is_dict(keys[k].private_keys)
    PROVE  TrustBundle(local_trust(c, keys))
<1> DEFINE t == local_trust(c, keys)
<1>1. Policy(local_policy(c))
  BY LocalPolicy
<1>2. {"scientist", "executor"} \subseteq Range(Identities)
  BY DEF Range, Identities
<1>3. /\ DOMAIN t = {"policy", "verifiers", "requesters", "executor_id",
                     "executor_keys"}
      /\ t.policy = local_policy(c)
      /\ t.verifiers = [i \in Range(SubSeq(Identities, 1, 3)) |->
                           keys[i].private_keys]
      /\ t.requesters = [i \in {"scientist"} |-> keys[i].private_keys]
      /\ t.executor_id = "executor"
      /\ t.executor_keys = keys["executor"].private_keys
  BY DEF local_trust
<1> HIDE DEF t
<1>4. is_dict(t.verifiers)
      /\ \A i \in DOMAIN t.verifiers : is_dict(t.verifiers[i])
  <2>1. DOMAIN t.verifiers \subseteq Range(Identities)
        /\ \A i \in DOMAIN t.verifiers :
              t.verifiers[i] = keys[i].private_keys
    BY <1>3, FirstNames
  <2>2. is_dict(t.verifiers)
    BY <2>1, LabelAssumption DEF is_dict
  <2> QED BY <2>1, <2>2
<1>5. is_dict(t.requesters)
      /\ \A i \in DOMAIN t.requesters : is_dict(t.requesters[i])
  <2>1. DOMAIN t.requesters \subseteq Range(Identities)
        /\ \A i \in DOMAIN t.requesters :
              t.requesters[i] = keys[i].private_keys
    BY <1>2, <1>3
  <2>2. is_dict(t.requesters)
    BY <2>1, LabelAssumption DEF is_dict
  <2> QED BY <2>1, <2>2
<1>6. t.executor_id \in Identifier /\ is_dict(t.executor_keys)
  BY <1>2, <1>3, LabelAssumption DEF Identifier
<1>7. TrustBundle(t)
  BY <1>1, <1>3, <1>4, <1>5, <1>6, Zenon DEF TrustBundle
<1> QED BY <1>7 DEF t

(* The Bell experiment is one of the document model.                       *)
LEMMA BellModel == bell_experiment \in Experiment
<1> DEFINE a == gate("H", <<0>>)
           b == gate("CX", <<0, 1>>)
           g == <<a, b>>
           one_qubit == <<0>>
           two_qubits == <<0, 1>>
<1>1. one_qubit \in list(Int, 2) /\ two_qubits \in list(Int, 2)
  <2>1. /\ one_qubit \in Seq(Int) /\ Len(one_qubit) \in 1 .. 2
        /\ two_qubits \in Seq(Int) /\ Len(two_qubits) \in 1 .. 2
    OBVIOUS
  <2> HIDE DEF one_qubit, two_qubits
  <2> QED BY <2>1, Listed
<1>2. a = [op |-> "H", qubits |-> one_qubit]
      /\ b = [op |-> "CX", qubits |-> two_qubits]
  BY DEF gate
<1> HIDE DEF a, b, one_qubit, two_qubits
<1>3. a \in Gate /\ b \in Gate
  BY <1>1, <1>2 DEF Gate
<1>4. g \in Seq(Gate) /\ Len(g) \in 1 .. 256
  BY <1>3
<1> HIDE DEF g
<1>5. g \in list(Gate, 256)
  BY <1>4, Listed
<1>6. bell_experiment = [schema_version |-> 1, backend |-> BUILTIN,
                         qubits |-> 2, gates |-> g, shots |-> 1024,
                         seed |-> 7]
  BY DEF bell_experiment, g, a, b, one_qubit, two_qubits
<1>7. 7 \in 0 .. MAX_SEED
  BY WorkspaceAssumption
<1> QED BY <1>5, <1>6, <1>7 DEF Experiment

(* A second at which freeze() or a header may end, and the clock itself,   *)
(* are times of documents.                                                 *)
LEMMA ClockTime ==
    ASSUME NEW time \in Instants
    PROVE  time \in Time
BY WorkspaceAssumption, RangeAssumption DEF Time

LEMMA ReceiptEnds ==
    ASSUME NEW time \in Instants, NEW ends \in Time, NEW ttl \in 1 .. 600
    PROVE  smaller(ends, time + ttl) \in Time
BY WorkspaceAssumption, RangeAssumption DEF smaller, Time

(* What freeze() makes under a bundle that was read is an intent.          *)
LEMMA FrozenIntent ==
    ASSUME NEW t, TrustBundle(t), NEW time \in Instants, NEW nonce \in Nat,
           NEW e \in Experiment \cup AerExperiment
    PROVE  Intent(freeze(e, t, time, nonce))
<1> DEFINE i == freeze(e, t, time, nonce)
           p == t.policy
           frozen_digest == digest("experiment", e)
           parameters == [experiment |-> e, frozen_digest |-> frozen_digest]
           ends == time + smaller(300, p.max_intent_ttl)
<1>1. Policy(p)
  BY DEF TrustBundle
<1>2. /\ p.reference \in PolicyRef /\ p.suite \in Suites
      /\ p.audience \in STRING /\ p.target \in STRING
      /\ p.context \in Context /\ p.max_intent_ttl \in 1 .. 3600
  <2> HIDE DEF i, p, frozen_digest, parameters, ends
  <2> QED BY <1>1, PolicyFacts, SMTT(40)
<1>3. "scientist" \in STRING
  <2>1. "scientist" \in Range(Identities)
    BY DEF Range, Identities
  <2> QED BY <2>1, LabelAssumption
<1>4. time \in Time /\ ends \in Time
  <2> DEFINE ttl == p.max_intent_ttl
  <2>1. ttl \in 1 .. 3600
    <3> HIDE DEF i, p, frozen_digest, parameters, ends
    <3> QED BY <1>2
  <2>2. time \in Nat /\ time + 300 <= MAX_INTEGER /\ MAX_INTEGER \in Nat
    BY WorkspaceAssumption, RangeAssumption
  <2>3. time \in Time /\ time + smaller(300, ttl) \in Time
    <3> HIDE DEF ttl
    <3> QED BY ONLY <2>1, <2>2 DEF smaller, Time
  <2> QED BY <2>3
<1>5. is_hash(frozen_digest)
  BY DEF is_hash, digest
<1> HIDE DEF frozen_digest
<1>6. Parameters(parameters)
  <2>1. /\ parameters.frozen_digest = frozen_digest
        /\ parameters \in [experiment : Experiment \cup AerExperiment,
                           frozen_digest : {frozen_digest}]
    OBVIOUS
  <2> HIDE DEF parameters
  <2> QED BY <1>5, <2>1 DEF Parameters
<1>7. i = [subject |-> "scientist", target |-> p.target,
           audience |-> p.audience, parameters |-> parameters,
           context |-> p.context, nonce |-> nonce, created_at |-> time,
           expires_at |-> ends, policy |-> p.reference,
           required_suite |-> p.suite]
  BY Zenon DEF freeze, frozen_digest
<1> HIDE DEF i, p, parameters, ends
<1>8. i \in [subject : Identifier, target : Identifier,
             audience : Identifier, parameters : {parameters},
             context : Context, nonce : Nonce, created_at : Time,
             expires_at : Time, policy : PolicyRef, required_suite : Suites]
  BY <1>2, <1>3, <1>4, <1>7 DEF Identifier, Nonce
<1>9. i.parameters = parameters
  BY <1>7
<1>10. Intent(i)
  BY <1>6, <1>8, <1>9 DEF Intent
<1> QED BY <1>10 DEF i

(* What the fields of an intent are.                                       *)
LEMMA IntentFacts ==
    ASSUME NEW i, Intent(i)
    PROVE  /\ i.audience \in STRING /\ i.expires_at \in Time
           /\ i.parameters.experiment \in Experiment \cup AerExperiment
           /\ is_hash(i.parameters.frozen_digest)
BY DEF Intent, Parameters, Identifier

(* What sign_intent() makes of an intent is a request.                     *)
LEMMA SignedRequest ==
    ASSUME NEW i, Intent(i), NEW s \in Suites, NEW private, NEW data,
           NEW draw
    PROVE  SignedIntent([intent     |-> i,
                         signatures |-> sign(s, private, data, draw)])
<1> DEFINE signatures == sign(s, private, data, draw)
           r == [intent |-> i, signatures |-> signatures]
<1>1. is_dict(signatures)
  BY SignatureDict
<1> HIDE DEF signatures
<1>2. /\ DOMAIN r = {"intent", "signatures"} /\ r.intent = i
      /\ r.signatures = signatures
  OBVIOUS
<1> HIDE DEF r
<1>3. SignedIntent(r)
  BY <1>1, <1>2 DEF SignedIntent
<1> QED BY <1>3 DEF r, signatures

(* What new_header() makes for a request is a header.                      *)
LEMMA IssuedHeader ==
    ASSUME NEW request, SignedIntent(request), NEW t, TrustBundle(t),
           NEW time \in Instants, NEW id \in Nat
    PROVE  Header(new_header(request, t, time, id))
<1> DEFINE h == new_header(request, t, time, id)
           p == t.policy
           action == digest("intent", request.intent)
           about == digest("policy", p)
           ends == smaller(request.intent.expires_at, time + p.receipt_ttl)
<1>1. Policy(p)
  BY DEF TrustBundle
<1>2. /\ p.reference \in PolicyRef /\ p.suite \in Suites
      /\ p.audience \in STRING /\ p.verifier_ids \in list(STRING, 16)
      /\ p.quorum \in 1 .. 16 /\ p.receipt_ttl \in 1 .. 600
  <2> HIDE DEF h, p, action, about, ends
  <2> QED BY <1>1, PolicyFacts, SMTT(40)
<1>3. request.intent.expires_at \in Time
  BY IntentFacts DEF SignedIntent
<1>4. time \in Time /\ ends \in Time
  <2> DEFINE last == request.intent.expires_at
             ttl == p.receipt_ttl
  <2>1. last \in Time /\ ttl \in 1 .. 600
    BY <1>2, <1>3
  <2>2. time \in Time /\ smaller(last, time + ttl) \in Time
    <3> HIDE DEF ttl, last
    <3>1. time \in Time
      BY ClockTime
    <3>2. smaller(last, time + ttl) \in Time
      BY ONLY time \in Instants, <2>1, ReceiptEnds
    <3> QED BY <3>1, <3>2
  <2> QED BY <2>2
<1>5. is_hash(action) /\ is_hash(about)
  BY DEF is_hash, digest
<1>6. h = [action_digest |-> action, policy |-> p.reference,
           policy_digest |-> about, suite |-> p.suite,
           audience |-> p.audience, verifier_set |-> p.verifier_ids,
           quorum |-> p.quorum, issued_at |-> time, expires_at |-> ends,
           receipt_id |-> id]
  BY Zenon DEF new_header
<1> HIDE DEF h, p, action, about, ends
<1>7. h \in [action_digest : {action}, policy : PolicyRef,
             policy_digest : {about}, suite : Suites,
             audience : Identifier, verifier_set : list(Identifier, 16),
             quorum : 1 .. 16, issued_at : Time, expires_at : Time,
             receipt_id : Nonce]
  BY <1>2, <1>4, <1>6 DEF Identifier, Nonce
<1>8. h.action_digest = action /\ h.policy_digest = about
  BY <1>6
<1>9. Header(h)
  BY <1>5, <1>7, <1>8 DEF Header
<1> QED BY <1>9 DEF h

(* What the fields of a receipt and its header are.                        *)
LEMMA ReceiptFacts ==
    ASSUME NEW r, Receipt(r)
    PROVE  r.header.receipt_id \in Nat /\ r.disposition \in Disposition
<1>1. Header(r.header) /\ r.disposition \in Disposition
  BY DEF Receipt
<1>2. r.header.receipt_id \in Nat
  BY <1>1 DEF Header, Nonce
<1> QED BY <1>1, <1>2

(* What execute() signs for documents that were read is a result.          *)
LEMMA SignedResult ==
    ASSUME NEW request, SignedIntent(request), NEW receipt, Receipt(receipt),
           NEW t, TrustBundle(t), NEW key, KeyFile(key),
           NEW time \in Instants, NEW found, Range(found) \subseteq Int,
           NEW draw
    PROVE  ResultRecord(record(request, receipt, t, key, time, found, draw))
<1> DEFINE b == result_body(request, receipt, t, time, found)
           r == record(request, receipt, t, key, time, found, draw)
           i == request.intent
           spec == i.parameters.experiment
           action == digest("intent", i)
           about == digest("receipt", receipt)
<1>1. Intent(i)
  BY DEF SignedIntent
<1>2. /\ i.audience \in STRING /\ is_hash(i.parameters.frozen_digest)
      /\ spec \in Experiment \cup AerExperiment
  BY <1>1, IntentFacts
<1>3. spec.backend \in {BUILTIN, AER_CPU, AER_GPU}
  <2> HIDE DEF spec
  <2> QED BY <1>2, SMTT(40) DEF Experiment, AerExperiment
<1>4. Policy(t.policy) /\ t.executor_id \in STRING
  BY DEF TrustBundle, Identifier
<1>5. t.policy.suite \in Suites
  BY <1>4, PolicyFacts
<1>6. is_hash(action) /\ is_hash(about)
  BY DEF is_hash, digest
<1>7. receipt.header.receipt_id \in Nat
  BY ReceiptFacts
<1>8. time \in Time
  BY ClockTime
<1>9. b = [executor_id |-> t.executor_id, suite |-> t.policy.suite,
           audience |-> i.audience, action_digest |-> action,
           frozen_digest |-> i.parameters.frozen_digest,
           receipt_digest |-> about,
           receipt_id |-> receipt.header.receipt_id,
           backend |-> spec.backend, executed_at |-> time, counts |-> found]
  BY Zenon DEF result_body
<1>10. key.suite \in Suites
  BY DEF KeyFile
<1>11. r = [body |-> b,
            signatures |-> sign(key.suite, key.private_keys,
                                message("result", key.suite, key.identity, b),
                                draw)]
  BY Zenon DEF record
<1> HIDE DEF b, r, i, spec, action, about
<1>12. /\ b \in [executor_id : Identifier, suite : Suites,
                  audience : Identifier, action_digest : {action},
                  frozen_digest : {i.parameters.frozen_digest},
                  receipt_digest : {about}, receipt_id : Nonce,
                  backend : {BUILTIN, AER_CPU, AER_GPU},
                  executed_at : Time, counts : {found}]
       /\ b.action_digest = action /\ b.receipt_digest = about
       /\ b.frozen_digest = i.parameters.frozen_digest
       /\ b.counts = found
  BY <1>2, <1>3, <1>4, <1>5, <1>7, <1>8, <1>9 DEF Identifier, Nonce
<1>13. ResultBody(b)
  BY <1>2, <1>6, <1>12 DEF ResultBody
<1>14. is_dict(r.signatures) /\ r.body = b
       /\ DOMAIN r = {"body", "signatures"}
  BY <1>10, <1>11, SignatureDict
<1>15. ResultRecord(r)
  BY <1>13, <1>14 DEF ResultRecord
<1> QED BY <1>15 DEF r

(* The predicates of a verdict are truth values with names.                *)
LEMMA PredicateDict ==
    ASSUME NEW i, NEW p
    PROVE  /\ is_dict(evaluate(i, p).predicates)
           /\ Range(evaluate(i, p).predicates) \subseteq BOOLEAN
<1> DEFINE found == evaluate(i, p).predicates
           names == {"requester_allowed", "target_allowed",
                     "audience_matches", "context_allowed",
                     "frozen_spec_matches", "resources_within_limits",
                     "circuit_well_formed", "backend_supported",
                     "automatic_review_limit"}
<1>1. found = predicates(i, p)
  BY DEF evaluate
<1>2. predicates(i, p)
         \in [requester_allowed : BOOLEAN, target_allowed : BOOLEAN,
              audience_matches : BOOLEAN, context_allowed : BOOLEAN,
              frozen_spec_matches : BOOLEAN,
              resources_within_limits : BOOLEAN,
              circuit_well_formed : BOOLEAN, backend_supported : BOOLEAN,
              automatic_review_limit : BOOLEAN]
  <2> DEFINE spec == i.parameters.experiment
             a == i.subject \in p.subjects
             b == i.target = p.target
             c == i.audience = p.audience
             d == i.context = p.context
             e == i.parameters.frozen_digest = digest("experiment", spec)
             f == /\ spec.qubits <= p.max_qubits
                  /\ spec.shots <= p.max_shots
             g == \A n \in DOMAIN spec.gates :
                     gate_valid(spec.gates[n], spec.qubits)
             h == /\ spec.schema_version = p.schema_version
                  /\ spec.backend = policy_backend(p)
             m == spec.shots <= p.human_above_shots
  <2>1. /\ a \in BOOLEAN /\ b \in BOOLEAN /\ c \in BOOLEAN
        /\ d \in BOOLEAN /\ e \in BOOLEAN /\ f \in BOOLEAN
        /\ g \in BOOLEAN /\ h \in BOOLEAN /\ m \in BOOLEAN
    BY SMT
  <2>2. predicates(i, p)
           = [requester_allowed |-> a, target_allowed |-> b,
              audience_matches |-> c, context_allowed |-> d,
              frozen_spec_matches |-> e, resources_within_limits |-> f,
              circuit_well_formed |-> g, backend_supported |-> h,
              automatic_review_limit |-> m]
    BY Zenon DEF predicates
  <2> HIDE DEF a, b, c, d, e, f, g, h, m
  <2> QED BY <2>1, <2>2, SMT
<1> HIDE DEF found
<1>3. DOMAIN found = names /\ \A n \in names : found[n] \in BOOLEAN
  BY <1>1, <1>2, SMT
<1>4. names \subseteq STRING
  BY LabelAssumption
<1> HIDE DEF names
<1>5. is_dict(found) /\ Range(found) \subseteq BOOLEAN
  BY <1>3, <1>4, Zenon DEF is_dict, Range
<1> QED BY <1>5 DEF found

(* What a node attests with a key it read is an attestation.               *)
LEMMA MadeAttestation ==
    ASSUME NEW request, NEW h, Header(h), NEW t, NEW k, KeyFile(k),
           NEW draw
    PROVE  Attestation(attest(request, h, t, k, draw))
<1> DEFINE a == attest(request, h, t, k, draw)
           b == attestation_body(request, h, t, k.identity)
           verdict == evaluate(request.intent, t.policy)
           signatures == attestation_signatures(b, k, draw)
<1>1. verdict.disposition \in {"ALLOW", "DENY", "HUMAN_VERIFY"}
      /\ is_dict(verdict.predicates)
      /\ Range(verdict.predicates) \subseteq BOOLEAN
  BY PredicateDict, VerdictType
<1>2. k.suite \in Suites /\ k.identity \in Identifier
  BY DEF KeyFile
<1>3. a = [body |-> b, signatures |-> signatures]
  BY Zenon DEF attest
<1>4. b = [header |-> h, verifier_id |-> k.identity,
           disposition |-> verdict.disposition,
           predicates |-> verdict.predicates]
  BY Zenon DEF attestation_body
<1>5. is_dict(signatures)
  BY <1>2, SignatureDict DEF attestation_signatures
<1> HIDE DEF a, b, verdict, signatures
<1>6. AttestationBody(b)
  BY <1>1, <1>2, <1>4 DEF AttestationBody, Disposition
<1>7. Attestation(a)
  BY <1>3, <1>5, <1>6 DEF Attestation
<1> QED BY <1>7 DEF a

(* What assemble() makes of attestations of known verifiers is a receipt.  *)
LEMMA AssembledReceipt ==
    ASSUME NEW h, Header(h), NEW t, NEW n \in 1 .. 16,
           NEW votes, DOMAIN votes = 1 .. n,
           \A i \in 1 .. n :
               /\ Attestation(votes[i])
               /\ \E k \in DOMAIN VerifierOrder :
                      VerifierOrder[k] = votes[i].body.verifier_id
    PROVE  Receipt(assemble(h, votes, t))
<1> DEFINE decision == summarize(votes, t.policy.quorum)
           sorted == by_verifier(votes)
           r == assemble(h, votes, t)
<1>1. decision \in Disposition
  BY DEF summarize, Disposition
<1>2. PICK vote \in Bijection(1 .. n, 1 .. n) :
         sorted = [m \in 1 .. n |-> votes[vote[m]]]
  <2>1. n \in Nat
    OBVIOUS
  <2> QED BY <2>1, VotesSorted
<1>3. vote \in [1 .. n -> 1 .. n]
  BY Zenon DEF Bijection, Injection, IsInjective
<1>4. r = [header |-> h, disposition |-> decision, attestations |-> sorted]
  BY Zenon DEF assemble
<1> HIDE DEF decision, sorted, r
<1>5. /\ DOMAIN sorted = 1 .. n
      /\ Len(sorted) = n
      /\ \A m \in 1 .. n : Attestation(sorted[m])
  BY <1>2, <1>3
<1>6. Receipt(r)
  BY <1>1, <1>4, <1>5 DEF Receipt
<1> QED BY <1>6 DEF r

=============================================================================

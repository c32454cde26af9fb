----------------------------- MODULE Workspace -----------------------------
(***************************************************************************)
(* The workspace of a gateway and the commands that work on it (cli.py,    *)
(* local.py, demo.py, accelerated.py, gateway_benchmark.py).               *)
(*                                                                         *)
(* A workspace is a directory of documents with fixed names.  The commands *)
(* hand their results to each other through these files and nothing else:  *)
(* nobody locks a file, write() truncates it before it fills it, and a     *)
(* command reads the documents it needs one after the other.  Several      *)
(* commands may run at a time, each may be killed at any step, and the     *)
(* operator edits experiments between them.                                *)
(*                                                                         *)
(* A command is a program: the sequence of its accesses to files, clock,   *)
(* random numbers and replay store, in the order of the source, with what  *)
(* it computes between them.  What other modules of this project model in  *)
(* detail is one step here: the nodes of authorize_processes               *)
(* (Authorization), reserve() (ReplayStore) and the adapter's run          *)
(* (Executor).                                                             *)
(***************************************************************************)
EXTENDS Documents, Aer

CONSTANTS
    Process,        \* the processes that may run a command
    Command,        \* Command[p]: the command lines p may run, each a name
                    \* with its options
    Available,      \* the devices the Aer installation offers
    Answer,         \* what a simulator may answer to a job
    EditedExperiment, \* what the operator may write into experiment.json
    EditedIntent,   \* the experiments it may write into intent.json
    Qubits, Layers, \* the size of the accelerated workload
    Orders,         \* the orders its layers draw
    Size,           \* sizes of workloads a user may ask for instead
    Rounds,         \* the runs of a gateway benchmark
    Instants,       \* bound: the seconds at which the clock may stand
    MaxSecrets,     \* bound: calls of secrets.token_hex
    Idle,           \* no command
    Nothing,        \* no value; no such file
    Torn            \* a file that is not yet, or badly, filled

Identities == <<"verifier-1", "verifier-2", "verifier-3", "scientist",
                "executor">>

(* The private key file of an identity has the name of the identity.       *)
File == Range(Identities) \cup {"trust", "experiment", "intent", "request",
                                "receipt", "result", "summary"}

(* The local variables of a command.  issuer is the trust which            *)
(* authorize_processes loads for itself.                                   *)
Local == File \cup {"issuer", "header", "adapter"}

ASSUME WorkspaceAssumption ==
    /\ VerifierOrder = SubSeq(Identities, 1, 3)
    /\ Process # {} /\ Instants \subseteq Nat /\ 0 \in Instants
    /\ MaxSecrets \in Nat /\ Rounds \in Nat /\ MAX_INTEGER \in Nat
    /\ MAX_SEED \in Nat /\ 7 <= MAX_SEED
    /\ \A orders \in Orders : Len(orders) = Layers

(* rng.shuffle leaves every qubit in the order of a layer, once.           *)
ASSUME OrderAssumption ==
    \A orders \in Orders : \A n \in 1 .. Layers :
        /\ orders[n] \in [1 .. Qubits -> 0 .. Qubits - 1]
        /\ \A i, j \in 1 .. Qubits : i # j => orders[n][i] # orders[n][j]

(* The clock has not reached the last seconds that documents have room     *)
(* for.  ResultBody is strict: counts that are no numbers fail like any    *)
(* other bad answer (RunFails).                                            *)
ASSUME RangeAssumption ==
    /\ \A time \in Instants : time + 300 <= MAX_INTEGER
    /\ \A answer \in Answer : Range(answer.counts) \subseteq Int

(* The names that cli.py, local.py, crypto.py and policy.py write into     *)
(* documents are strings, as in TLA+ every quoted name is.                 *)
ASSUME LabelAssumption ==
    Range(Identities)
    \cup {"quantum-local", "lab-executor", "simulator:local", "local",
          "bell-study", "ed25519", "ml-dsa-65", "requester_allowed",
          "target_allowed", "audience_matches", "context_allowed",
          "frozen_spec_matches", "resources_within_limits",
          "circuit_well_formed", "backend_supported",
          "automatic_review_limit"}
    \subseteq STRING

VARIABLES
    now,        \* time.time(), in whole seconds
    exists,     \* the directory is there
    files,      \* files[n]: what the file n holds
    command,    \* command[p]: the command p runs
    pc,         \* pc[p]: the instruction of its program p is at
    memory,     \* memory[p][n]: the local variable n of p
    executing,  \* executing[p]: what execute() holds after its reserve()
    secrets,    \* how many secrets have been drawn
    spent,      \* the rows of replay.sqlite
    frozen,     \* history: the intents freeze() made
    runs,       \* history: the jobs simulators were given
    alarms      \* history: the AssertionErrors demos raised

vars == <<now, exists, files, command, pc, memory, executing, secrets, spent,
          frozen, runs, alarms>>

Init ==
    /\ now = 0
    /\ exists = FALSE
    /\ files = [n \in File |-> Nothing]
    /\ command = [p \in Process |-> Idle]
    /\ pc = [p \in Process |-> 0]
    /\ memory = [p \in Process |-> [n \in Local |-> Nothing]]
    /\ executing = [p \in Process |-> Nothing]
    /\ secrets = 0
    /\ spent = {}
    /\ frozen = {}
    /\ runs = <<>>
    /\ alarms = {}

-----------------------------------------------------------------------------
(* The programs.  An instruction is an operation and the variable or file  *)
(* it is about.                                                            *)
do(op, name) == <<<<op, name>>>>
load(name)   == do("load", name)
save(name)   == do("open", name) \o do("fill", name)

create(identity) == do("generate", identity) \o save(identity)

generate_keys ==
    create("verifier-1") \o create("verifier-2") \o create("verifier-3")
    \o create("scientist") \o create("executor")

provision == do("require new", "trust") \o do("mkdir", "trust")
             \o generate_keys
             \o do("bundle", "trust") \o save("trust")
             \o do("bell", "experiment") \o save("experiment")

provision_accelerated ==
    provision \o do("accelerate", "trust") \o save("trust")

sign_intent == load("scientist") \o do("sign", "request")

authorize_processes ==
    load("issuer") \o do("issue", "header") \o do("attest", "receipt")

executor == load("executor") \o do("construct", "adapter")

execute == do("admit", "request") \o do("run", "result")

(* One measured run of the gateway benchmark.                              *)
one == do("freeze", "intent") \o sign_intent \o authorize_processes
       \o execute \o do("verify result", "result")

rounds(n) == [i \in 1 .. n * Len(one) |-> one[1 + ((i - 1) % Len(one))]]

quantum_demo ==
    provision \o do("freeze", "intent") \o sign_intent
    \o save("intent") \o save("request")
    \o authorize_processes \o save("receipt")
    \o executor \o do("try altered", "request") \o execute \o save("result")
    \o do("verify result", "result")
    \o executor \o do("try replay", "request")
    \o do("summarize", "summary") \o save("summary")

accelerated_demo ==
    do("preflight", "adapter") \o provision_accelerated
    \o do("workload", "experiment") \o do("freeze", "intent") \o sign_intent
    \o save("experiment") \o save("intent") \o save("request")
    \o authorize_processes \o save("receipt")
    \o executor \o do("try altered", "request") \o execute \o save("result")
    \o do("verify result", "result") \o do("try replay", "request")
    \o do("summarize", "summary") \o save("summary")

benchmark_gateway ==
    provision_accelerated \o do("workload", "experiment")
    \o do("preflight", "adapter") \o executor \o rounds(Rounds)

evidence == load("request") \o load("receipt")

(* cli.main                                                                *)
main ==
    [init              |-> provision,
     quantum_demo      |-> quantum_demo,
     gpu_demo          |-> accelerated_demo,
     gateway_benchmark |-> benchmark_gateway,
     freeze        |-> load("trust") \o load("experiment")
                       \o do("freeze", "intent") \o save("intent"),
     sign_intent   |-> load("trust") \o load("intent") \o sign_intent
                       \o save("request"),
     authorize     |-> load("trust") \o load("request")
                       \o authorize_processes \o save("receipt"),
     inspect       |-> load("trust") \o evidence \o do("inspect", "receipt"),
     verify        |-> load("trust") \o evidence \o do("verify", "receipt"),
     execute       |-> load("trust") \o executor \o evidence \o execute
                       \o save("result"),
     verify_result |-> load("trust") \o load("result") \o evidence
                       \o do("verify result", "result")]

(* What argparse leaves through: the subcommands, and the choices of their *)
(* options.                                                                *)
ASSUME CommandAssumption ==
    \A p \in Process : \A c \in Command[p] :
        /\ c # Idle
        /\ c.name \in DOMAIN main
        /\ c.name \in {"init", "quantum_demo"} => c.suite \in Suites
        /\ c.name \in {"gpu_demo", "gateway_benchmark"} =>
               c.device \in {"CPU", "GPU"}

Programs == [name \in DOMAIN main |-> main[name] \o do("print", "result")]

-----------------------------------------------------------------------------
instruction(p) == Programs[command[p].name][pc[p]]

At(p, op) == command[p] # Idle /\ instruction(p)[1] = op

Advance(p) == pc' = [pc EXCEPT ![p] = @ + 1] /\ UNCHANGED command

(* The instruction gives a local variable a value.                         *)
Assign(p, name, value) ==
    /\ memory' = [memory EXCEPT ![p][name] = value]
    /\ Advance(p)

(* Mutant: the next command of the process goes on where this one ended.   *)
ExitKeepsPlace(p) ==
    /\ command' = [command EXCEPT ![p] = Idle]
    /\ memory' = [memory EXCEPT ![p] = [n \in Local |-> Nothing]]
    /\ executing' = [executing EXCEPT ![p] = Nothing]
    /\ UNCHANGED pc

(* The process ends, and its memory with it.                               *)
Exit(p) ==
    /\ command' = [command EXCEPT ![p] = Idle]
    /\ pc' = [pc EXCEPT ![p] = 0]
    /\ memory' = [memory EXCEPT ![p] = [n \in Local |-> Nothing]]
    /\ executing' = [executing EXCEPT ![p] = Nothing]

Start(p, c) ==
    /\ command[p] = Idle
    /\ command' = [command EXCEPT ![p] = c]
    /\ pc' = [pc EXCEPT ![p] = 1]
    /\ UNCHANGED <<now, exists, files, memory, executing, secrets, spent,
                   frozen, runs, alarms>>

(* The command prints its result.                                          *)
Return(p) ==
    /\ At(p, "print")
    /\ Exit(p)
    /\ UNCHANGED <<now, exists, files, secrets, spent, frozen, runs, alarms>>

(* A check of the command fails, or a file it needs is missing or torn, or *)
(* its process dies.                                                       *)
Stop(p) ==
    /\ command[p] # Idle
    /\ Exit(p)
    /\ UNCHANGED <<now, exists, files, secrets, spent, frozen, runs, alarms>>

-----------------------------------------------------------------------------
(* What parse and, for the trust bundle, trust_snapshot accept.            *)
accepts(name, document, trust) ==
    CASE name \in Range(Identities)   -> KeyFile(document)
      [] name \in {"trust", "issuer"} ->
             TrustBundle(document) /\ trust_snapshot(document) = OK
      [] name = "experiment" ->
             document \in IF trust.policy.schema_version = 2
                          THEN AerExperiment ELSE Experiment
      [] name = "intent"     -> Intent(document)
      [] name = "request"    -> SignedIntent(document)
      [] name = "receipt"    -> Receipt(document)
      [] name = "result"     -> ResultRecord(document)
      [] name = "summary"    -> TRUE

file(name) == files[IF name = "issuer" THEN "trust" ELSE name]

readable(name, trust) ==
    file(name) \notin {Nothing, Torn} /\ accepts(name, file(name), trust)

(* canonical.read and parse.  The bytes that execute, verify and           *)
(* verify-result read are parsed a little later.                           *)
Load(p) ==
    /\ At(p, "load")
    /\ readable(instruction(p)[2], memory[p].trust)
    /\ Assign(p, instruction(p)[2], file(instruction(p)[2]))
    /\ UNCHANGED <<now, exists, files, executing, secrets, spent, frozen, runs,
                   alarms>>

(* canonical.write: the file is opened, which truncates it, ...            *)
Open(p) ==
    /\ At(p, "open")
    /\ exists' = TRUE
    /\ files' = [files EXCEPT ![instruction(p)[2]] = Torn]
    /\ Advance(p)
    /\ UNCHANGED <<now, memory, executing, secrets, spent, frozen, runs,
                   alarms>>

(* ... and filled; if another command filled it since, the longer of the   *)
(* two documents may stand out behind the end of the other.                *)
Fill(p) ==
    LET name == instruction(p)[2] IN
    /\ At(p, "fill")
    /\ \E content \in {memory[p][name], Torn} :
          /\ files[name] = Torn => content # Torn
          /\ files' = [files EXCEPT ![name] = content]
    /\ Advance(p)
    /\ UNCHANGED <<now, exists, memory, executing, secrets, spent, frozen,
                   runs, alarms>>

-----------------------------------------------------------------------------
quorum(c) == IF c.name \in {"init", "quantum_demo"} THEN c.quorum ELSE 3

suite(c) == IF c.name \in {"init", "quantum_demo"} THEN c.suite
            ELSE "ed25519-mldsa65-v1"

RequireNew(p) ==
    /\ At(p, "require new")
    /\ ~ exists
    /\ quorum(command[p]) \in {2, 3}
    /\ Advance(p)
    /\ UNCHANGED <<now, exists, files, memory, executing, secrets, spent,
                   frozen, runs, alarms>>

(* Mutant: root.mkdir(parents=True, exist_ok=True).                        *)
MkdirExistOk(p) ==
    /\ At(p, "mkdir")
    /\ exists' = TRUE
    /\ Advance(p)
    /\ UNCHANGED <<now, files, memory, executing, secrets, spent, frozen, runs,
                   alarms>>

(* root.mkdir(parents=True) fails on a directory that is there.            *)
Mkdir(p) ==
    /\ At(p, "mkdir")
    /\ ~ exists
    /\ exists' = TRUE
    /\ Advance(p)
    /\ UNCHANGED <<now, files, memory, executing, secrets, spent, frozen, runs,
                   alarms>>

(* crypto.generate, and the key file of the identity.                      *)
key_file(identity, needed, p) ==
    [identity |-> identity, suite |-> needed,
     private_keys |-> [algorithm \in components(needed) |-> <<identity, p>>]]

(* A file that is not there or torn is not mistaken for a document.        *)
ASSUME MarkAssumption ==
    /\ Nothing # Torn
    /\ \A identity \in Range(Identities), needed \in Suites, p \in Process :
           key_file(identity, needed, p) \notin {Nothing, Torn}

Generate(p, identity) ==
    /\ At(p, "generate") /\ instruction(p)[2] = identity
    /\ Assign(p, identity, key_file(identity, suite(command[p]), p))
    /\ UNCHANGED <<now, exists, files, executing, secrets, spent, frozen, runs,
                   alarms>>

(* The policy of provision().                                              *)
local_policy(c) ==
    [schema_version |-> 1,
     reference |-> [id |-> "quantum-local", version |-> 1],
     suite |-> suite(c), audience |-> "lab-executor",
     target |-> "simulator:local",
     context |-> [environment |-> "local", project |-> "bell-study"],
     subjects |-> {"scientist"}, verifier_ids |-> SubSeq(Identities, 1, 3),
     quorum |-> quorum(c), max_qubits |-> 8, max_shots |-> 4096,
     human_above_shots |-> 2048, max_intent_ttl |-> 600, receipt_ttl |-> 120]

(* Its trust bundle, with the public keys of the key files just written.   *)
local_trust(c, keys) ==
    [policy        |-> local_policy(c),
     verifiers     |-> [i \in Range(SubSeq(Identities, 1, 3)) |->
                           keys[i].private_keys],
     requesters    |-> [i \in {"scientist"} |-> keys[i].private_keys],
     executor_id   |-> "executor",
     executor_keys |-> keys["executor"].private_keys]

Bundle(p) ==
    /\ At(p, "bundle")
    /\ trust_snapshot(local_trust(command[p], memory[p])) = OK
    /\ Assign(p, "trust", local_trust(command[p], memory[p]))
    /\ UNCHANGED <<now, exists, files, executing, secrets, spent, frozen, runs,
                   alarms>>

bell_experiment ==
    [schema_version |-> 1, backend |-> BUILTIN, qubits |-> 2,
     gates |-> <<gate("H", <<0>>), gate("CX", <<0, 1>>)>>,
     shots |-> 1024, seed |-> 7]

Bell(p) ==
    /\ At(p, "bell")
    /\ Assign(p, "experiment", bell_experiment)
    /\ UNCHANGED <<now, exists, files, executing, secrets, spent, frozen, runs,
                   alarms>>

Accelerate(p) ==
    LET policy == accelerated_policy(memory[p].trust.policy,
                                     command[p].device)
    IN  /\ At(p, "accelerate")
        /\ Policy(policy)
        /\ Assign(p, "trust", [memory[p].trust EXCEPT !.policy = policy])
        /\ UNCHANGED <<now, exists, files, executing, secrets, spent, frozen,
                       runs, alarms>>

Workload(p) ==
    /\ At(p, "workload")
    /\ workload_limit(Qubits, Layers) = OK
    /\ \E orders \in Orders :
          Assign(p, "experiment",
                 workload(Qubits, command[p].device, orders))
    /\ UNCHANGED <<now, exists, files, executing, secrets, spent, frozen, runs,
                   alarms>>

-----------------------------------------------------------------------------
(* local.freeze                                                            *)
freeze(experiment, trust, time, nonce) ==
    [subject |-> "scientist", target |-> trust.policy.target,
     audience |-> trust.policy.audience,
     parameters |-> [experiment |-> experiment,
                     frozen_digest |-> digest("experiment", experiment)],
     context |-> trust.policy.context, nonce |-> nonce,
     created_at |-> time,
     expires_at |-> time + smaller(300, trust.policy.max_intent_ttl),
     policy |-> trust.policy.reference,
     required_suite |-> trust.policy.suite]

(* Mutant: the nonce is drawn once for all intents.                        *)
FreezeReusesNonce(p) ==
    LET frozen_intent == freeze(memory[p].experiment, memory[p].trust, now, 0)
    IN  /\ At(p, "freeze")
        /\ secrets < MaxSecrets
        /\ secrets' = secrets + 1
        /\ Assign(p, "intent", frozen_intent)
        /\ frozen' = frozen \cup {frozen_intent}
        /\ UNCHANGED <<now, exists, files, executing, spent, runs, alarms>>

Freeze(p) ==
    LET frozen_intent == freeze(memory[p].experiment, memory[p].trust, now,
                                secrets)
    IN  /\ At(p, "freeze")
        /\ secrets < MaxSecrets
        /\ secrets' = secrets + 1
        /\ Assign(p, "intent", frozen_intent)
        /\ frozen' = frozen \cup {frozen_intent}
        /\ UNCHANGED <<now, exists, files, executing, spent, runs, alarms>>

(* local.sign_intent                                                       *)
sign_check(intent, key) ==
       require(key.identity = intent.subject
                   /\ key.suite = intent.required_suite,
               "REQUESTER_KEY_MISMATCH")
    ?? check_private(key.suite, key.private_keys)

Sign(p) ==
    LET intent == memory[p].intent
        key    == memory[p].scientist
    IN  /\ At(p, "sign") /\ intent # Nothing
        /\ sign_check(intent, key) = OK
        /\ \E draw \in Draws["intent"] :
              Assign(p, "request",
                     [intent     |-> intent,
                      signatures |-> sign(key.suite, key.private_keys,
                                          message("intent", key.suite,
                                                  key.identity, intent),
                                          draw)])
        /\ UNCHANGED <<now, exists, files, executing, secrets, spent, frozen,
                       runs, alarms>>

(* authorize_processes: a header is issued, ...                            *)
Issue(p) ==
    /\ At(p, "issue")
    /\ validate_request(memory[p].request, memory[p].issuer, now) = OK
    /\ secrets < MaxSecrets
    /\ secrets' = secrets + 1
    /\ Assign(p, "header", new_header(memory[p].request, memory[p].issuer, now,
                                      secrets))
    /\ UNCHANGED <<now, exists, files, executing, spent, frozen, runs, alarms>>

(* ... each node reads trust and key for itself and attests, ...           *)
node_check(v, request, header) ==
    /\ readable("trust", Nothing)
    /\ readable(v, Nothing)
    /\ attest_check(request, header, files.trust, files[v], now) = OK
    /\ files[v].identity = v

(* ... and the attestations are assembled and inspected.                   *)
Attest(p) ==
    LET request == memory[p].request
        header  == memory[p].header
        trust   == memory[p].issuer
        ids     == trust.policy.verifier_ids
        votes(draws) == [i \in DOMAIN ids |->
                            attest(request, header, files.trust,
                                   files[ids[i]], draws[i])]
    IN  /\ At(p, "attest")
        /\ \A v \in Range(ids) : node_check(v, request, header)
        /\ \E draws \in [DOMAIN ids -> Draws["attestation"]] :
              LET made == assemble(header, votes(draws), trust)
              IN  /\ inspect_receipt(request, made, trust, now) = OK
                  /\ Assign(p, "receipt", made)
        /\ UNCHANGED <<now, exists, files, executing, secrets, spent, frozen,
                       runs, alarms>>

-----------------------------------------------------------------------------
provided(revision) ==
    revision = BUILTIN \/ make_backend(DeviceOf(revision), Available) = OK

(* AerAdapter(device) before anything else: no other device is tried.      *)
Preflight(p) ==
    /\ At(p, "preflight")
    /\ provided(AerRevision(command[p].device))
    /\ Assign(p, "adapter", AerRevision(command[p].device))
    /\ UNCHANGED <<now, exists, files, executing, secrets, spent, frozen, runs,
                   alarms>>

(* ProtectedExecutor(trust, key, store, adapter)                           *)
Construct(p) ==
    LET revision == IF memory[p].adapter # Nothing THEN memory[p].adapter
                    ELSE default_adapter(memory[p].trust.policy)
    IN  /\ At(p, "construct")
        /\ construct_check(memory[p].trust, memory[p].executor) = OK
        /\ provided(revision)
        /\ Assign(p, "adapter", revision)
        /\ UNCHANGED <<now, exists, files, executing, secrets, spent, frozen,
                       runs, alarms>>

(* Mutant: whatever is in the store, the row is inserted.                  *)
reserve_blindly(row) == require(now < row.expires_at, "RECEIPT_EXPIRED")

(* ReplayStore.reserve                                                     *)
reserve(row) ==
       require(now < row.expires_at, "RECEIPT_EXPIRED")
    ?? require(\A other \in spent : /\ other.receipt_id # row.receipt_id
                                    /\ other.intent_key # row.intent_key,
               "REPLAY")

(* ProtectedExecutor.execute, up to the return of reserve().               *)
admission(p, request) ==
    execute_checks(request, memory[p].receipt, memory[p].trust,
                   memory[p].adapter, now)
    ?? reserve(permit(request, memory[p].receipt))

Admit(p) ==
    LET row == permit(memory[p].request, memory[p].receipt) IN
    /\ At(p, "admit") /\ memory[p].request # Nothing
    /\ SignedIntent(memory[p].request) /\ Receipt(memory[p].receipt)
    /\ admission(p, memory[p].request) = OK
    /\ spent' = spent \cup {row}
    /\ executing' = [executing EXCEPT ![p] =
                        [request |-> memory[p].request,
                         receipt |-> memory[p].receipt,
                         trust   |-> memory[p].trust]]
    /\ Advance(p)
    /\ UNCHANGED <<now, exists, files, memory, secrets, frozen, runs, alarms>>

(* adapter.run of the adapter the executor has.                            *)
run_check(revision, spec, answer) ==
    IF revision = BUILTIN
    THEN require(spec.schema_version = 1, "BACKEND_MISMATCH")
    ELSE run_aer(revision, spec, answer)

job(p, answer) ==
    [request |-> executing[p].request, receipt |-> executing[p].receipt,
     policy |-> executing[p].trust.policy, time |-> now, answer |-> answer]

(* Mutant: the clock is looked at once, before reserve().                  *)
SimulateLate(p, answer) ==
    /\ At(p, "run")
    /\ executing[p] # Nothing
    /\ runs' = Append(runs, job(p, answer))

(* The second look at the clock, and the job the adapter is given.         *)
Simulate(p, answer) ==
    /\ At(p, "run")
    /\ executing[p] # Nothing
    /\ now < executing[p].receipt.header.expires_at
    /\ runs' = Append(runs, job(p, answer))

(* The rest of execute(): the check of the counts, and the signature.      *)
Run(p, answer) ==
    LET call       == executing[p]
        experiment == call.request.intent.parameters.experiment
    IN  /\ Simulate(p, answer)
        /\ run_check(memory[p].adapter, experiment, answer) = OK
        /\ check_counts(answer.counts, experiment) = OK
        /\ \E draw \in Draws["result"] :
              Assign(p, "result",
                     record(call.request, call.receipt, call.trust,
                            memory[p].executor, now, answer.counts, draw))
        /\ executing' = [executing EXCEPT ![p] = Nothing]
        /\ UNCHANGED <<now, exists, files, secrets, spent, frozen, alarms>>

(* The answer of the simulator is refused, or the process dies after it.   *)
RunFails(p, answer) ==
    /\ Simulate(p, answer)
    /\ Exit(p)
    /\ UNCHANGED <<now, exists, files, secrets, spent, frozen, alarms>>

-----------------------------------------------------------------------------
(* The last checks of inspect, verify and verify-result.                   *)
Check(p, op, code) ==
    /\ At(p, op)
    /\ code = OK
    /\ Advance(p)
    /\ UNCHANGED <<now, exists, files, memory, executing, secrets, spent,
                   frozen, runs, alarms>>

Inspect(p) ==
    Check(p, "inspect", inspect_receipt(memory[p].request, memory[p].receipt,
                                        memory[p].trust, now))

Verify(p) ==
    Check(p, "verify", verify_receipt(memory[p].request, memory[p].receipt,
                                      memory[p].trust, now))

VerifyResult(p) ==
    Check(p, "verify result",
          verify_result(memory[p].result, memory[p].request,
                        memory[p].receipt, memory[p].trust))

(* The demos change the request: one shot more, or another first gate.     *)
altered(c, request) ==
    IF c.name = "quantum_demo"
    THEN [request EXCEPT !.intent.parameters.experiment.shots = @ + 1]
    ELSE [request EXCEPT !.intent.parameters.experiment.gates[1].op = "X"]

(* A demo presents what must be refused, and raises an AssertionError when *)
(* it is executed.                                                         *)
Try(p, op, code, expected) ==
    /\ At(p, op)
    /\ IF code = OK THEN alarms' = alarms \cup {op} /\ Exit(p)
       ELSE expected /\ Advance(p) /\ UNCHANGED <<memory, executing, alarms>>
    /\ UNCHANGED <<now, exists, files, secrets, spent, frozen, runs>>

TryAltered(p) ==
    Try(p, "try altered",
        admission(p, altered(command[p], memory[p].request)), TRUE)

(* A replay must be refused as one.                                        *)
TryReplay(p) ==
    LET code == admission(p, memory[p].request)
    IN  Try(p, "try replay", code, code = "REPLAY")

(* What the summary of a demo says of the run.                             *)
Summarize(p) ==
    LET found == memory[p].result.body.counts IN
    /\ At(p, "summarize")
    /\ command[p].name = "quantum_demo" =>
           DOMAIN found \subseteq {<<0, 0>>, <<1, 1>>}
    /\ Assign(p, "summary", [disposition |-> memory[p].receipt.disposition,
                             counts      |-> found])
    /\ UNCHANGED <<now, exists, files, executing, secrets, spent, frozen, runs,
                   alarms>>

-----------------------------------------------------------------------------
(* The operator replaces experiment.json, ...                              *)
EditExperiment(e) ==
    /\ files["experiment"] \notin {Nothing, Torn, e}
    /\ files' = [files EXCEPT !["experiment"] = e]
    /\ UNCHANGED <<now, exists, command, pc, memory, executing, secrets, spent,
                   frozen, runs, alarms>>

(* ... or the experiment within intent.json.  The digest beside it is what *)
(* binds the two, and the operator leaves it alone; sign_intent signs the  *)
(* other fields as they stand, whatever they say.                          *)
EditIntent(e) ==
    /\ files["intent"] \notin {Nothing, Torn}
    /\ files["intent"].parameters.experiment # e
    /\ files' = [files EXCEPT !["intent"].parameters.experiment = e]
    /\ UNCHANGED <<now, exists, command, pc, memory, executing, secrets, spent,
                   frozen, runs, alarms>>

Tick ==
    /\ \E time \in Instants : now < time /\ now' = time
    /\ UNCHANGED <<exists, files, command, pc, memory, executing, secrets,
                   spent, frozen, runs, alarms>>

(* A step of the command p runs.                                           *)
Step(p) ==
    \/ Load(p) \/ Open(p) \/ Fill(p)
    \/ RequireNew(p) \/ Mkdir(p) \/ Bundle(p) \/ Bell(p)
    \/ \E identity \in Range(Identities) : Generate(p, identity)
    \/ Accelerate(p) \/ Workload(p)
    \/ Freeze(p) \/ Sign(p) \/ Issue(p) \/ Attest(p)
    \/ Preflight(p) \/ Construct(p) \/ Admit(p)
    \/ \E answer \in Answer : Run(p, answer) \/ RunFails(p, answer)
    \/ Inspect(p) \/ Verify(p) \/ VerifyResult(p)
    \/ TryAltered(p) \/ TryReplay(p) \/ Summarize(p)

Next ==
    \/ \E p \in Process : \E c \in Command[p] : Start(p, c)
    \/ \E p \in Process : Step(p) \/ Return(p) \/ Stop(p)
    \/ \E e \in EditedExperiment : EditExperiment(e)
    \/ \E e \in EditedIntent : EditIntent(e)
    \/ Tick

Spec == Init /\ [][Next]_vars

-----------------------------------------------------------------------------
TypeOK ==
    /\ now \in Instants
    /\ exists \in BOOLEAN
    /\ DOMAIN files = File
    /\ \A n \in File : files[n] # Nothing => exists
    /\ DOMAIN command = Process
    /\ \A p \in Process : command[p] \in Command[p] \cup {Idle}
    /\ \A p \in Process : pc[p] \in IF command[p] = Idle THEN {0}
                                     ELSE DOMAIN Programs[command[p].name]
    /\ \A p \in Process : DOMAIN memory[p] = Local
    /\ secrets \in 0 .. MaxSecrets
    /\ \A row \in spent : row.receipt_id < secrets

(* What a command writes is within the document model that the readers of  *)
(* the file parse it with.  A trust bundle also passes trust_snapshot, and *)
(* an experiment is of the schema that the writer's own trust asks for:    *)
(* beside the trust.json of another command, freeze may refuse it.         *)
WritesReadable ==
    \A p \in Process :
        At(p, "fill") =>
            LET name == instruction(p)[2]
            IN  accepts(name, memory[p][name], memory[p].trust)

(* The public keys of an identity in trust.json.                           *)
public(trust, i) ==
    IF i \in DOMAIN trust.verifiers THEN trust.verifiers[i]
    ELSE IF i \in DOMAIN trust.requesters THEN trust.requesters[i]
    ELSE trust.executor_keys

(* Once trust.json can be read, the private key of every identity is in    *)
(* its file and belongs to the public key in trust.json: whenever          *)
(* provisioning dies, and whoever else provisions the same directory.      *)
TrustHasKeys ==
    readable("trust", Nothing) =>
        \A i \in Range(Identities) :
            /\ readable(i, Nothing)
            /\ files[i].private_keys = public(files["trust"], i)

(* A frozen intent is run once at the most, by whichever command, with     *)
(* whichever of the receipts that authorize issued for it, however often   *)
(* it was edited and signed again, and also after a command died.          *)
OneRunPerIntent ==
    \A i, j \in DOMAIN runs :
        i # j => intent_key(runs[i].request) # intent_key(runs[j].request)

(* Every workload within the limits of its size is an experiment that the  *)
(* document model accepts, and the policy provisioned for its device       *)
(* allows it as it stands: the three limits are numbers in three files.    *)
WorkloadsAllowed ==
    \A p \in Process : \A size \in Size :
        /\ At(p, "workload")
        /\ workload_limit(size[1], size[2]) = OK
        =>
            LET orders == [n \in 1 .. size[2] |->
                              [i \in 1 .. size[1] |-> i - 1]]
                experiment == workload(size[1], command[p].device, orders)
                trust == memory[p].trust
            IN  /\ experiment \in AerExperiment
                /\ evaluate(freeze(experiment, trust, now, secrets),
                            trust.policy).disposition = "ALLOW"

(* What runs is what freeze() saw: an intent whose experiment is edited    *)
(* after it was frozen is not run, though the scientist's key signed it.   *)
RunIsFrozen ==
    \A i \in DOMAIN runs : runs[i].request.intent \in frozen

(* Every run has a receipt for exactly its action under exactly the policy *)
(* its executor holds, and takes place within the lifetime of both, though *)
(* request.json, receipt.json and trust.json may each have been replaced   *)
(* since the others were read.                                             *)
PermitCoversRun ==
    \A i \in DOMAIN runs :
        LET header == runs[i].receipt.header
            intent == runs[i].request.intent
        IN  /\ header.action_digest = digest("intent", intent)
            /\ header.policy_digest = digest("policy", runs[i].policy)
            /\ runs[i].time \in header.issued_at .. header.expires_at - 1
            /\ runs[i].time \in intent.created_at .. intent.expires_at - 1

(* When verify-result, a demo or a benchmark run reports a valid result,   *)
(* the intent, the receipt and the result it looked at belong to one and   *)
(* the same run, which gave these counts at this time, although the        *)
(* commands find the three documents by their names alone.  The request    *)
(* may be another one than was run, with another valid signature over the  *)
(* same intent.                                                            *)
ClaimsTrue ==
    \A p \in Process :
        /\ At(p, "print")
        /\ memory[p].result # Nothing
        =>
            \E i \in DOMAIN runs :
                /\ runs[i].request.intent = memory[p].request.intent
                /\ runs[i].receipt = memory[p].receipt
                /\ runs[i].answer.counts = memory[p].result.body.counts
                /\ runs[i].time = memory[p].result.body.executed_at

(* Each run of the gateway benchmark brings a fresh intent and a fresh     *)
(* receipt to the one replay store of its device, so that no measurement   *)
(* is refused as a replay.                                                 *)
MeasurementsAreFresh ==
    \A p \in Process :
        At(p, "admit") /\ command[p].name = "gateway_benchmark" =>
            reserve(permit(memory[p].request, memory[p].receipt)) # "REPLAY"

(* No demo sees its altered request or its replay executed, whatever other *)
(* commands do to its workspace meanwhile.                                 *)
DemosRefuse == alarms = {}

(* A result of Aer is only signed for a run on the device that the signed  *)
(* experiment names: there is no fallback from one to the other.           *)
SignedDevice ==
    \A p \in Process : memory[p].result # Nothing =>
        \E i \in DOMAIN runs :
            LET experiment == runs[i].request.intent.parameters.experiment
            IN  /\ runs[i].receipt.header.receipt_id
                       = memory[p].result.body.receipt_id
                /\ experiment.backend = BUILTIN
                       \/ runs[i].answer.device = DeviceOf(experiment.backend)

=============================================================================

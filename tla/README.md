# ProofGate-PQ: specification, model checking and proofs

This directory is a TLA+ development of ProofGate-PQ (`src/src/proofgate/`), a gate in
front of a quantum simulator. A scientist signs an *intent*; three verifier nodes attest
it against a policy; a coordinator assembles the attestations into a *receipt*; a
protected executor verifies the receipt, reserves it durably, runs the circuit and signs a
*result record*. Nothing but the executor's own checks authorizes a run: the receipt is
evidence, and the coordinator has no authority.

Paths below are relative to `src/src/proofgate/`.

## 1. Inventory

| part | state it keeps | operations | hard behaviour | what makes it correct |
|---|---|---|---|---|
| **Replay store** (`executor.py:15-37`) | the SQLite table `reservations(receipt_id PRIMARY KEY, intent_key UNIQUE, expires_at)`, SQLite's write lock | `reserve` | several processes share the file; busy timeout; SQLite errors; death between any two statements | rows unique and never removed; replies true; the lock never leaks; every call ends |
| **Protected executor** (`executor.py:40-123`) | trust snapshot, key, adapter; local variables of a call | construction, `execute` | verification before a reservation that may block, run after it; crash between commit and run; failing adapter; trust edited meanwhile | at most one run per intent; a run only with a durable reservation, a valid receipt, a quorum; its record verifies |
| **Result verification** (`executor.py:126-149`) | none | `verify_result` | judged at the time the record claims | accepts whatever `execute` returned |
| **Receipt protocol** (`protocol.py`) | none (pure) | `trust_snapshot`, `validate_request`, `new_header`, `validate_header`, `attest`, `summarize`, `inspect_receipt`, `verify_receipt`, `assemble` | order of checks; window boundaries; repeated, mixed, missing evidence | a verified receipt carries a quorum of different signers over this header, policy and intent |
| **Policy** (`policy.py`) | none (pure) | `evaluate` | nodes and executor must agree | same inputs, same verdict; DENY before HUMAN_VERIFY before ALLOW |
| **Suites** (`crypto.py`) | none (pure) | `message`, `sign`, `check_public`, `verify`, `generate` | hybrid suites | every component must verify |
| **Canonical JSON** (`canonical.py`) | files | `canonical`, `decode`, `parse`, `digest`, `read`, `write` | duplicate keys, integers, depth, size; `write` is not atomic | equal documents have equal bytes |
| **Models** (`models.py`) | none | validation | strict types | everything checked later is well-typed |
| **Coordinator** (`local.py:132-169`) | a header and the answers of three nodes | `authorize_processes` | three processes, 20 s timeout each, failing nodes, trust file edited or receipt expiring meanwhile | a returned receipt is accepted by `inspect_receipt`; no mixed policies |
| **Verifier node** (`node.py`) | none; reads trust and key on every call | `main` | reads the trust later than the coordinator | attests only what it checked itself |
| **Workspace** (`local.py:34-129`, `accelerated.py:41-61`, `canonical.py:90-103`) | the files of a directory: key files, `trust`, `experiment`, `intent`, `request`, `receipt`, `result`, `summary` | `provision`, `provision_accelerated`, `freeze`, `sign_intent`, `load_key`, `load_trust`, `read`, `write` | death between two files, or with one half written; two commands writing one file; `trust.json` written twice | a trust file that can be read has its private keys beside it; what is written can be read |
| **Command line** (`cli.py`) | the local variables of a command | `init`, `freeze`, `sign-intent`, `authorize`, `inspect`, `verify`, `execute`, `verify-result` | commands exchange files by fixed names, may run at once, out of order, repeatedly | no order of commands makes a run that was not frozen and permitted, or a second one; a reported result is true |
| **Demos** (`demo.py`, `accelerated.py`) | a whole session in one process | `quantum_demo`, `accelerated_demo` | other commands on the same directory meanwhile | the altered request and the replay are refused |
| **Gateway benchmark** (`gateway_benchmark.py`) | one executor and store for all rounds | `benchmark_gateway` | every round must bring a fresh intent and receipt | no measurement is refused as a replay |
| **Aer adapter** (`aer.py`) and its workload (`accelerated.py`) | the last metrics | `make_backend`, `run`, `workload` | provider answers from the wrong device, with the wrong method, or fails | no result is signed for another device; every permitted workload fits documents and policy |
| **Built-in simulator** (`simulator.py`) | the list of amplitudes | `run` | the list is changed in place while it is read; shape of the keys | the loops do what the gates mean; counts are accepted |
| **Attack corpus, benchmarks, scripts** | reports | fixed scripts over the above | none of their own | - |

How they interact: the coordinator calls the nodes as subprocesses (packet on stdin,
attestation on stdout); everything else passes documents through workspace files; executor
processes share the replay store and nothing else; the trust file is read by every process
on its own, at a time of its own.

`PROJECT.json` lists the hazards of this code line by line, each with the properties that
would catch it going wrong, or with the reason none does.

## 2. Modules

```
Errors -> Crypto -> Policy -> Protocol -> Results -+--> Executor -> ExecutorProofs
                                 |                 |      ^  \--> EvidenceProofs (with Admission)
                                 |  ReplayStore ---|------'
                                 |    \-> ReplayStoreProofs
                                 |                 +--> Documents, Aer -> Workspace
                                 |                 |       -> WorkspaceProofs -> ProgramProofs
                                 |                 '--> Simulator  (implements Statevector)
                                 |                         -> SimulatorProofs
                                 +--> Authorization -> AuthorizationProofs
                                 '--> ProtocolProofs   (used by the proofs above)
Errors -> Canonical
MCReplayStore, MCExecutor, MCAuthorization (with MCFixtures), MCWorkspace, MCSimulator,
MCCanonical: the instances for TLC
```

| module | models | kind |
|---|---|---|
| `Errors` | `require` and the sequence of two checks, `first ?? second` | operators |
| `Crypto` | `SUITES`, `message`, `sign`, `check_public`, `verify`, `digest`, with symbolic keys | operators |
| `Policy` | `policy.evaluate` | operators |
| `Protocol` | every function of `protocol.py` | operators |
| `Results` | the stateless parts of `executor.py`: the checks of constructor and `execute()`, the record, `_check_counts`, `verify_result` | operators |
| `Documents` | the document models of `models.py`, as sets of records | operators |
| `Aer` | the checks of `aer.py`, workload and policy of `accelerated.py` | operators |
| `ReplayStore` | `ReplayStore.reserve`, statement by statement | state machine |
| `Executor` | `ProtectedExecutor` in several processes; extends `ReplayStore` and `Results` | state machine |
| `Admission` | what the gate promises, without receipts, processes, clock or database | abstract state machine |
| `Authorization` | `authorize_processes` and `node.main` | state machine |
| `Workspace` | the directory and eleven commands on it, in several processes | state machine |
| `Simulator` | `StatevectorSimulator.run`, index by index | state machine |
| `Statevector` | what a circuit means: a gate maps the whole state at once | abstract state machine |
| `Canonical` | `canonical.py`, and a file that other programs reformat | recursive operators, state machine |

**A check is a value.** A function of the source that returns or raises is an operator whose
value is `OK` or the code it raises; `a ?? b` is "a, then b", so the order of the checks in
the source is the order in the module. An operation whose checks all fail before it changes
anything raises and is no step of the model.

**Documents are records.** Signatures, digests and keys are symbolic: a signature component is
the record of the key that made it, the bytes it covers and what it drew at random, a digest
is the value it was taken of. Ed25519 draws nothing; ML-DSA draws for every signature
(`key.sign`, `crypto.py:86`), so that a message signed twice has two signatures, and `verify`
does not look at the draw (`made_by`). `Draws[domain]` is what may be drawn; `sign_intent`,
the nodes and `execute()` each choose one, and the signatures that are only made to be
verified at once, of a node and of the executor's constructor, have some (`any_draw`). The
binding of every message to its domain, suite and signer is kept, and so is the exact
component set of a suite. Bytes that do not parse are the one value `Malformed`.

### How state and actions correspond to the code

`ReplayStore`: `reservations` is the table in commit order, `writer` the holder of SQLite's
write lock, `stage[p]` the statement at which the call of process `p` is (or its reply),
`row[p]` its arguments.

| action | code (`executor.py`) |
|---|---|
| `Reserve` | `reserve()` is called (21-22) |
| `BeginImmediate`, `BusyTimeout` | `connect(timeout=5)`, `BEGIN IMMEDIATE` (23-28): the lock is taken, or the busy handler gives up |
| `CheckClock`, `RejectExpired` | the clock read under the lock (29) |
| `Insert`, `RejectReplay` | `INSERT` under PRIMARY KEY and UNIQUE (30-35) |
| `Commit`, `CommitUnacknowledged` | the connection's context manager commits; in the second case the row is durable and an error is reported all the same |
| `StoreFails`, `ProcessDies` | any other `sqlite3.Error`, the death of the process, before the commit: rollback and no lock |
| `Return` | the caller takes the reply |

`Executor`: `trust_file` is the shared `trust.json`, `snapshot[p]` the copy an executor was
constructed with, `adapter[p]` the revision of its adapter, `pc`, `call`, `executed_at` and
`counts` the local state of `execute()`. `runs` and `results` are history variables.

| action | code (`executor.py`) |
|---|---|
| `Construct` | `__init__` with its probe signature and the choice of the adapter (41-67) |
| `Execute` | the checks and the call of `reserve` (69-78) |
| `Reserving`, `StoreError`, `ReserveRaised` | `reserve()` running inside `execute()`, and its exceptions |
| `Start`, `ExpiredAfterReserve` | the second look at the clock (80-82) |
| `RunAdapter` | `adapter.run(spec)` (83), the side effect |
| `ReturnResult`, `RejectCounts` | `_check_counts`, the signed record (84-105, 113-123) |
| `ExecutionError` | whatever the adapter or the signer raises (106-110) |
| `Crash`, `EditTrust`, `ClockTicks` | the process dies; the operator replaces `trust.json`; time passes |

`Authorization`: `asked`, `held`, `issuing` are the arguments, the trust and the header of
the call under way; `status[v]` is how far the thread and the node of verifier `v` are,
`read_trust[v]` what that node read, `answer[v]` its attestation; `key_files` the private
key files. `receipts` is a history of what was returned.

| action | code (`local.py`, `node.py`) |
|---|---|
| `Authorize` | `load_trust`, `new_header`, one task per verifier (`local.py:132-167`) |
| `StartNode` | a pool thread starts the next node (139-155) |
| `ReadTrust`, `Attest` | `node.main` reads the trust, then key and packet, and attests (`node.py:15-26`) |
| `NodeError`, `NodeUnavailable`, `IdentityMismatch` | non-zero exit, no start or 20 s timeout, an answer in another name (`local.py:156-164`) |
| `Cancel`, `Raise` | `pool.map` raises the first failure in verifier order, cancels what is queued; leaving the pool waits for what runs |
| `Assemble`, `RejectAssembly` | `assemble` with its inspection (168) |
| `CoordinatorDies`, `WriteTrust`, `TrustWritten`, `ReplaceKey`, `Tick` | the environment: no line of the source replaces a key or ends a process |

`Workspace`: `files[n]` is what the file `n` holds (`Torn` while it is truncated or badly
filled), `command[p]`, `pc[p]` and `memory[p]` the command a process runs, the place it has
come to and its local variables, `executing[p]` what `execute()` holds after its `reserve()`,
`spent` the rows of `replay.sqlite`. `frozen`, `runs` and `alarms` are histories: the intents
`freeze()` made, the jobs simulators were given, the `AssertionError`s demos raised.

A command is a *program*, a sequence of instructions that name an operation and a variable
or file; `main` lists the programs of `cli.main`, and they are put together from parts named
after the functions of the source (`provision`, `sign_intent`, `authorize_processes`,
`execute`, `one`, ...). There is one action per operation:

| action | code |
|---|---|
| `Start`, `Return`, `Stop` | a command is entered, prints its result, is refused, or its process dies |
| `Load` | `read` and `parse` of one document, with `trust_snapshot` for the trust (`local.py:119-129`) |
| `Open`, `Fill` | the two steps of `write`: truncation, contents (`canonical.py:98-103`) |
| `RequireNew`, `Mkdir`, `Generate`, `Bundle`, `Bell` | `provision` (`local.py:34-85`) |
| `Accelerate`, `Workload` | `provision_accelerated`, `workload` (`accelerated.py:17-61`) |
| `Freeze`, `Sign` | `freeze`, `sign_intent` (`local.py:88-116`) |
| `Issue`, `Attest` | `authorize_processes` in two steps; its nodes are the subject of `Authorization` |
| `Preflight`, `Construct` | `AerAdapter(device)`, `ProtectedExecutor(...)` |
| `Admit` | `execute()` up to the return of `reserve()`, which is one step here (see `ReplayStore`) |
| `Run`, `RunFails` | the second look at the clock, the adapter, the checks of its answer and the record, or a failure after the job was given away |
| `Inspect`, `Verify`, `VerifyResult` | the last checks of these commands |
| `TryAltered`, `TryReplay`, `Summarize` | what the demos present to be refused, and their summary |
| `EditExperiment`, `EditIntent`, `Tick` | the operator edits an experiment, in `experiment.json` or within `intent.json`; time passes |

`Simulator`: `state` is the list of amplitudes, `applied` and `index` the counters of the two
loops, `counts` the `Counter`. `Pair` is the body of the inner loop for one index, `NextGate`
its end, `Sample` one of the `rng.choices`. Amplitudes are exact: integers over a power of the
square root of two, `scale`.

`Canonical`: the file is a `text`, JSON source as a tree, and some white space. `Init` is
`write()` of a value, `Normalise` a `decode` followed by another `write`, `Rewrite` and
`Indent` what other programs may do to a JSON document in between: another literal for a
number, another order of members, `\u` escapes in a name, a second member of one name.

## 3. What is checked by TLC

| run | question | instance | distinct states |
|---|---|---|---|
| `replay_store` | may any interleaving of transactions, failures, deaths and expiry break the table, leak the lock or make a reply untrue? | 3 processes, 3 rows: two receipts of one intent, two receipts with one id; 2 s; symmetry of the processes | 14,415 |
| `replay_store_live` | does every call end although the lock may always be busy? | 2 processes | 5,191 |
| `executor` | at most one run per intent and receipt, behind a durable row; records verify; refinement of `Admission` | 2 processes that crash and restart, 3 calls: a receipt, its reissue, another intent with the reissue's id; good and bad counts; 3 s | 73,928 |
| `executor_evidence` | can a run happen, or a permit be spent, without authorization? | 2 processes, 9 calls: good, under a new policy, mixed evidence, a vote listed twice, one vote, half a hybrid signature, the receipt of another request, HUMAN_VERIFY, unparsable; the trust edited between 2-of-3 and 3-of-3 under one reference; an adapter for another backend | 10,784 |
| `executor_live` | does `execute()` always end? | 2 processes, a receipt and its reissue | 3,376 |
| `authorization_policy` | can policies mix in a receipt? is its disposition the policy's verdict? are surplus votes removable? | 3 verifiers on 2 threads, 3 policies two of which differ in a limit only, `trust.json` torn in between | 137,608 |
| `authorization_keys` | is every receipt that is returned usable? | the same nodes, a rotated verifier key, key files mixed up, a request that expires after a second | 183,780 |
| `authorization_live` | does `authorize_processes` end although nodes hang? | one request, one bundle | 2,464 |
| `workspace_shell` | can commands in any order, an execute beside them, deaths and edits make a run that was not frozen or permitted, a second run, or a false claim? | one process with `init`, `freeze`, `sign-intent`, `authorize`, `execute`, `verify-result`, one with `execute`; 3 secrets; two signatures of every intent (`mldsa65-v1`; symmetry of the draws); `intent.json` edited; good counts and too few | 212,711 |
| `workspace_sessions` | do provisioning, demos and benchmark get through, or stop in order, whatever meets them? | one process with `quantum-demo`, `gpu-demo` on the GPU or `gateway-benchmark` on the CPU with 2 rounds, one with `init`, `inspect`, `verify`, `execute`; answers of either device; the bell experiment put back; the clock at 0, 180 and 300 | 152,205 |
| `simulator` | do the loops compute the gates, and are the counts acceptable? | all circuits of three gates on one qubit, one and three on two, two on three; two shots each | 15,790 |
| `canonical_json` | may a reformatted document mean something else than what was signed? | the 20 values near the limits that `write()` accepts, 4 rewritings, 2 spaces | 35,600 |

The properties are stated, each with the behaviour of the code it is about, at the end of
`ReplayStore`, `Executor`, `Authorization`, `Workspace`, `Simulator` and `Canonical`. They are:

- the table: `LockMatchesTransaction`, `UniqueReservations`, `ReplyTruthful`,
  `ReservationsDurable`, `ReserveReturns`;
- the gate: `AtMostOneRun`, `RunImpliesReserved`, `AuthorizedWhenRun`, `QuorumBehindRun`,
  `ProvenanceVerifies`, `SpentOnlyByAuthorized`, `CallsReturn`, and `ImplementsAdmission`,
  the refinement of `Admission`, in which the committed rows are the admissions, the adapter
  runs the actions of the hardware and the returned records the deliveries;
- the receipt: `ReceiptsUsable`, `VerdictIsPolicy`, `NoMixedPolicy`, `SurplusRemovable`,
  `AuthorizeReturns`;
- the workspace: `TrustHasKeys`, `WritesReadable`, `OneRunPerIntent`, `PermitCoversRun`,
  `RunIsFrozen`, `ClaimsTrue`, `DemosRefuse`, `MeasurementsAreFresh`;
- Aer: `SignedDevice`, and `WorkloadsAllowed` for the limits that are numbers in three files;
- the simulator: `Normalised`, `CountsAccepted`, `CountsPossible` and `ImplementsStatevector`,
  the refinement of `Statevector` by loops that change the list they read;
- canonical JSON: `DigestStable`, `WrittenReadable`.

`docs/invariants.md` lists the same requirements as implementation requirements with tests;
no disagreement between the documents and the code was found in what is modelled.
`docs/redteam-analysis.md:59-60` says that another valid signature over the same intent is
acceptable, as `scripts/redteam.py:185-195` shows; so does the model, and `ClaimsTrue` is about
the intent of a request and not about its signatures. One corner
is worth knowing: `write()` adds a newline after `canonical()` checked the size, so a document
of exactly `MAX_BYTES` is written but cannot be read back. `WrittenReadable` is stated for
all shorter ones.

### Bounds, and why they are enough

- *Processes, rows, calls.* Every conflict the table can have is between two rows, by
  receipt id or by intent key; the instances have one pair of each kind. Two executors with
  crash and restart give every order of two calls; three are used where the state is small.
- *Time.* Whole seconds, as `int(time.time())`. Receipts live for 1 or 2 s, so that
  issue, last valid second and expiry of at least one of them lie inside `MaxTime` (3 in
  `executor`, 2 in the other runs of the gate and the store, 1 in those of the coordinator,
  where the brief request expires).
- *Verifiers, quorum.* Three verifiers, as in the shipped policy; 2-of-3 has a surplus vote,
  3-of-3 has none.
- *Threads.* The pool has at most three threads (`local.py:166`) and a policy up to sixteen
  verifiers. Two threads for three verifiers make a task wait in the queue, which is what
  `Cancel` is about; three would not.
- *Commands.* `Command[p]` names the commands a process may run, as often as it likes and in
  any order; two at a time, because every conflict is between one that writes a file and one
  that reads or writes it. `workspace_shell` has every command that produces a document,
  `workspace_sessions` every one that provisions.
- *Secrets.* `MaxSecrets` bounds the nonces and receipt ids drawn: with 3 there are an intent
  with two receipts, or two intents and a receipt for one of them; with 4 the two rounds of
  the benchmark.
- *Instants.* The seconds at which the clock may stand. A receipt lives for 120 seconds and no
  longer than its intent, an intent for 300. At 180 a receipt of second 0 has expired, and a
  new one for the same intent ends with the intent, at 300: there a run behind a verification
  at 180 meets the end of both. `workspace_shell` is about the files and stays at 0.
- *Draws.* Two draws for the scientist's signatures in `workspace_shell`, one elsewhere: what
  matters is whether two signatures over one intent are the same. The draws are
  interchangeable, as no operator of the model looks at one.
- *Edits.* An intent is edited in `workspace_shell` and an experiment in `workspace_sessions`.
- *Integers.* `MAX_INTEGER` and `MAX_SEED` are 2^53 - 1 and 2^32 - 1 in the source and
  2^31 - 1 in the runs, the largest integer of TLC; nothing in the instances comes near.
- *Workload.* Two qubits and one layer, drawn in either order, are run. `Size` adds the
  corners of the limits, 26 qubits with 20 and 21 layers among them, which are built and
  evaluated but not run.
- *Circuits.* A gate touches two amplitudes per index, and one or two qubits: three qubits
  have every order of control, target and bystander.
- *Documents.* `canonical_json` sets `MAX_BYTES` to 29, `MAX_DEPTH` to 2 and `MAX_INTEGER` to
  7, so that small values lie below, at and above each of them.
- *Receipt ids.* `ReceiptId` bounds the calls of `authorize_processes` in a behaviour. One
  call at a time, one per id: concurrent calls share nothing but the files, which change
  arbitrarily here.

None of these bounds occurs in the proofs, which hold for every value of the
constants.

### Fairness

`FairStoreSpec` and the executor's `FairSpec` assume that a live process keeps taking the
steps of its call: it is scheduled, SQLite answers, its busy handler gives up
after five seconds (`timeout=5`, `executor.py:23`), and adapters return (the code sets no
timeout on them). Nothing is assumed about failures, crashes, the clock, or the start of a
call. A call that waits for the lock needs no fairness of the holder, because either
`BeginImmediate` or `BusyTimeout` is enabled.

`Workspace`, `Simulator` and `Canonical` state no fairness: a command may die anywhere, and
the loops of the other two end by their bounds.

`FairSpec` of `Authorization` assumes the coordinator is scheduled and the timeout of
`subprocess.run` (`local.py:140-155`) expires. Nodes get no fairness at all: they may hang.

## 4. What is proved

Eight modules hold theorems; all are checked by TLAPS to the last leaf.

| theorem | property | module |
|---|---|---|
| `StoreTypes`, `LockNotLeaked`, `ReservationsUnique`, `RepliesTruthful`, `TableDurable` | `StoreTypeOK`, `LockMatchesTransaction`, `UniqueReservations`, `ReplyTruthful`, `ReservationsDurable` | `ReplayStoreProofs` |
| `ExecutorTypes`, `OneRunPerIntent`, `RunsAreReserved`, `RunsAreAuthorized` | `TypeOK`, `AtMostOneRun`, `RunImpliesReserved`, `AuthorizedWhenRun` | `ExecutorProofs` |
| `QuorumStandsBehindRuns`, `PermitsSpentByAuthorized`, `RecordsVerify`, `ExecutorImplementsAdmission` | `QuorumBehindRun`, `SpentOnlyByAuthorized`, `ProvenanceVerifies`, `ImplementsAdmission` | `EvidenceProofs` |
| `AuthorizationTypes`, `ReturnedReceiptsUsable`, `ReceiptsSayVerdict`, `NodesReadHeldPolicy`, `SurplusVotesRemovable` | `TypeOK`, `ReceiptsUsable`, `VerdictIsPolicy`, `NoMixedPolicy`, `SurplusRemovable` | `AuthorizationProofs` |
| `CommandsRunIntentOnce`, `CommandsRunPermitted`, `CommandsRunFrozen`, `ResultsNameDevice`, `ResultsRecordRuns` | `OneRunPerIntent`, `PermitCoversRun`, `RunIsFrozen`, `SignedDevice`, - | `WorkspaceProofs` |
| `CommandsTypes`, `CommandsKeepKeys`, `CommandsClaimTrue`, `CommandsRefuseDemos`, `WorkloadsFitPolicy`, `MeasurementsStayFresh`, `WrittenDocumentsReadable`, and what is behind them, `ProgramInvariant`, `ProvisionedOnce`, `ClaimsInvariant`, `PoliciesProvisioned`, `DrawnWorkloadsFit`, `EvidenceIsPrivate`, `DocumentsModelled` | `TypeOK`, `TrustHasKeys`, `ClaimsTrue`, `DemosRefuse`, `WorkloadsAllowed`, `MeasurementsAreFresh`, `WritesReadable`, - | `ProgramProofs` |
| `SimulatorTypes`, `WeightsNormalised`, `CountsPassCheck`, `CountedIsPossible`, `LoopsImplementGates`, and `SimulatorInvariant` behind them | `TypeOK`, `Normalised`, `CountsAccepted`, `CountsPossible`, `ImplementsStatevector`, - | `SimulatorProofs` |
| `InspectionUntilExpiry`, `VotersAreDistinct`, `UnanimousVotes`, `SelectionPasses`, `VotesSorted` (lemmas worth knowing) | - | `ProtocolProofs` |

**Assumptions.** Each is named in the module that declares the constants, or the operators it
speaks of, and evaluated by TLC in the runs. `StoreAssumption`, `VerifierOrderAssumption`,
`ExecutorAssumption`, `AuthorizationAssumption` and `WorkspaceAssumption` say that the "none"
values are outside their sets, that times, quorums and lifetimes are natural numbers and a
receipt lives for at least a second (`models.py:103`), that a receipt lists at most sixteen
attestations (`models.py:161`), that the verifier labels are different strings, that requests
given to the coordinator parse, that there is a process, and that 7, the seed of every
experiment the code writes, is a seed of the document model (`models.py` allows up to 2^32 -
1). `DrawsAssumption`: there is something to draw. `CommandAssumption` is the argument parser:
a command has a program, its suite is one of `SUITES`, its device `CPU` or `GPU`.
`MarkAssumption` tells a key file from no file and from a torn one. `CircuitAssumption` is
what the model `Experiment` and the policy leave of a circuit before it reaches the built-in
simulator: one to eight qubits, at least one shot, gates in range. Three are about the numbers
and names that `Workspace` writes into documents. `OrderAssumption`: `rng.shuffle` leaves an
order of all qubits (`accelerated.py:21-27`). `RangeAssumption`: the clock is 300 seconds or
more away from `MAX_INTEGER`, the last second that `models.py` has room for, and the counts of
a run are numbers (`ResultBody` is strict, so that others fail like any bad answer).
`LabelAssumption`: the names quoted in the source are strings, which no backend knows. No
assumption says that any document is genuine.

**Arguments.**

- *Unique rows.* `UniqueReservations` alone is not inductive: a commit appends a row that was
  compared with the table some steps earlier. `StoreInv` adds that the row of an uncommitted
  `INSERT` still fits the table, which holds because its call has held the only write lock
  since the comparison.
- *One run.* `ExecutorInv` speaks of permits. A process *holds* a permit from its commit to
  its run; permits are rows of the table (`PermitsCommitted`), no two processes hold
  conflicting ones (`PermitsExclusive`), and none conflicts with a run that happened
  (`PermitsUnused`). Rows are unique and never removed, so a permit can be spent only once.
- *Authorized when run.* A receipt is verified before a `reserve()` that may block. The lemma
  `AcceptedUntilExpiry` shows that what `execute()` accepted it would accept at every later
  time until the receipt expires, so the second look at the clock is all that is needed.
  It rests on `InspectionUntilExpiry` in `ProtocolProofs`.
- *Quorum.* `VotersAreDistinct` maps ALLOW votes one-to-one to verifiers, from the check
  `VERIFIER_DUPLICATE`; the signature check then ties each of them to the receipt's header.
- *Records verify.* The constructor's probe signature passing means that the private key
  matches the trusted public key for every component, hence every later record verifies.
- *Refinement.* With `ExecutorInv`, a commit maps to `Admit`, `RunAdapter` to `Perform`,
  `ReturnResult` to `Deliver`, and every other step to a stutter. `CommitUnacknowledged` is an
  `Admit` too: the permit is spent although the caller is told of a failure.
- *The last second of a permit.* A row is inserted only if the receipt has not expired when the
  lock is there. `ReservationsDurable` says what that is for: once a receipt has expired, and no
  call has got past the check of the clock with it, no call will ever (`Lapsed`, which the
  lemma `LapsedForGood` shows to be stable).
- *Returned receipts.* `ReceiptsUsable` begins with the header of the call under way: it can
  be voted on from the second of its issue to the last before it expires (`HeaderUsable`),
  which the lemma `NewHeaderPasses` shows for `new_header`. The header names the policy by its
  digest, so a node that answered had read the very policy the coordinator held (`CallInv` in
  `AuthorizationProofs`); all nodes evaluate the same policy on the same intent, so the votes
  are unanimous, and `UnanimousVotes` says that `summarize` neither weakens nor strengthens
  them.

- *Surplus votes.* `SelectionPasses` takes any at least `quorum` votes of an accepted receipt,
  in any order. Each of them passes on its own account (`AttestationPassesElsewhere`: the
  loop looks at other votes only for duplicates, and there are fewer of those now), and the
  votes are unanimous, so that the disposition stays ALLOW.
- *Commands.* For `Workspace` the proofs take the programs, the documents and the number of
  processes as they come; nothing is assumed about the order of instructions. `WorkspaceInv`
  says that an `execute()` between its `reserve()` and its run holds an intent key that is
  spent, that no other holds and that no run has, and that what it holds passed the first
  checks; the second look at the clock gives the rest of `PermitCoversRun`.
- *Frozen intents.* `RunIsFrozen` is about the end of a long chain of files. `FrozenInv`
  follows it: an intent in a file, in memory or in a request is *derived*, that is, a frozen
  one but for its experiment, and the operator's edits, which are edits of the experiment, keep
  it so. (What else stands in an intent is the scientist's own word: with another nonce or
  another end it is a new intent, which signing makes valid.) What `execute()` admits has
  the frozen digest of its experiment (`AdmittedDigest`), and a derived intent with that
  digest is the frozen one (`DigestMatches`).
- *Results.* `RecordInv`: what a result file or variable holds is the record of a job in
  `runs`, with its intent, receipt, time, counts and, on Aer, the device asked for. It is
  inductive on top of `FrozenInv`, whose part `FrozenShape` it needs.

- *Programs.* What a command reads must be there, and that depends on the order of its
  instructions. `ProgramProofs` has a small program logic for it: an instruction *gives*
  facts (`has("request")`, `admitted`, ...), *kills* facts and *needs* facts, and
  `Does(s, N, C, K)` is the contract of a part of a command: after `N` every need is met where
  it arises, `C` holds at the end, and only `K` may be lost. Contracts are put together in the
  order of the code (`Then`), through `provision`, the loop over the identities, `one` and any
  number of rounds (`RoundsDo`), up to all of `main` (`CommandsRun`). `Progress` then
  turns each step of the system into "one process executes an instruction whose needs it
  knows", and every invariant below is preserved one instruction at a time (`Goes`).
- *Types.* `TypeOK` is not inductive: the receipt ids in the replay store are below
  `secrets` because those of headers and receipts, in memory and in `receipt.json`, are
  (`IssuedInv`), and `pc` stays within a program because of `Placed`.
- *Keys.* `mkdir` without `exist_ok` lets one process through, so there is one provisioner
  (`OwnerInv`): a process that is past its `mkdir` is the only one ever to be. All key files
  are then its key files, every `trust.json` - also the second one of the GPU demo - lists
  their public halves, every signed request is under its scientist key, and it wrote all keys
  before it opened `trust.json`. `TrustHasKeys` is the last of these facts.
- *Claims.* A command knows `proved` when `execute()` returned its result, or when
  `verify_result` accepted it and nothing was loaded since. In the first case the run is the
  last of `runs`. In the second, `RecordInv` has a run with the intent and the receipt body of
  the result; the digests in the result tie them to the intent and the receipt at hand. They
  do not tie it to a signature: the request at hand may be another one for this intent, signed
  before or after the one that was run, and `verify-result` rightly accepts it.
- *Demos.* A demo that loaded no experiment, intent or request holds one it froze itself
  (`Sealed`): one more shot, or another first gate, has another digest, and `execute()`
  refuses it whatever else it finds (`AlteredRefused`). The replay is refused because the
  admitted permit is a row of the store (`AdmittedSpent`, `SpentRefused`).
- *Workloads.* `WorkloadsAllowed` is about the policy a command wrote several instructions
  earlier. `Since(s, n, i, S)` says of a program that there is an `i` before its `n`-th
  instruction and none of `S` after that `i`. In every command of `main` a workload comes
  after `accelerate`, and that after `bundle`, with no other trust in between
  (`ProgramsOrderly`); so the trust at hand has the accelerated policy of the command's own
  device (`PolicyInv`). What is left is about data: in whatever order a layer takes the qubits,
  there are at most 2048 gates and each is within the qubits (`WorkloadModel`), and the limits
  of `workload()`, of the document model and of the policy fit together (`WorkloadFits`).
  `DrawnWorkloadsFit` says so for every order that `shuffle` may draw; `WorkloadsAllowed`, of
  which TLC evaluates one order per size, is a case of it.
- *Documents.* `WritesReadable` says that what a command writes is within the document model
  which the readers of the file parse it with, and that an experiment is of the schema which
  the writer's own trust asks for. It does not say that `freeze` takes every experiment it
  finds: a bell experiment beside a `trust.json` that another command has accelerated since is
  refused, which `Load` has. The property is about a file, its reader about a document; what
  relates the two is what the writer had in memory. `ModelInv` says that a variable that is
  known holds a document of its model, that what `execute()` holds behind its `reserve()` does
  too, and that trust passes `trust_snapshot`. It needs no invariant of the files, which may
  hold anything: a command loads what `accepts` lets through. Every operation is shown to make
  documents of documents: `provision` and `provision_accelerated` (`LocalBundle`,
  `AcceleratedBundle`), `freeze` (`FrozenIntent`), `sign_intent`, `new_header`, `attest` and
  `assemble` (`MadeAttestation`, `AssembledReceipt`) and `record` (`SignedResult`). A receipt
  keeps its attestations, and their order, whichever order the nodes answered in
  (`VotesSorted`). What remains is the experiment, which is written beside a trust of another
  document: the facts `vetted`, `builtin` and `fits` of the program logic say that the quorum
  was looked at, that the policy is the built-in one, and that an experiment is of the schema
  its policy asks for; `PolicyInv` and the order of the programs give the last of them after
  `accelerate`.
- *Measurements.* In every round of the benchmark the intent, the request, the header and the
  receipt are made in this order, and none of them is written to a file, spent or replaced
  before the round admits (`OneMeasures`, `RoundsFollow`). `FreshInv` says that the nonce
  or receipt id of such evidence is *private*: drawn, and in no file, no row of the replay store
  and no variable of another command. It is inductive because every secret that is about was
  drawn (`SecretsDrawn`), so that a new one is nobody else's (`PrivateNew`), and because a
  command gets secrets from files and from the draw only (`CarriedFrom`). A permit of which
  the store has neither half is not refused as a replay.
- *Simulator.* The loop invariant says, index by index, that the list holds what the gate
  makes of the old state where the loop has been and the old state elsewhere; a pair is
  visited from its lower index only, because `index` and `index` with the bit set determine
  each other. The sum of squares is finite-set summation by `FoldFunctionOnSet`, for which
  `SimulatorProofs` proves the laws it needs from a minimal counterexample, without an
  induction rule. Halfway through a Hadamard the sum is balanced by counting every index at its
  own scale. A key of an outcome is a sequence of bits, last qubit first, and `CountsAccepted`
  follows from the one-to-one map between indices and keys.

**Only model-checked.** Liveness under fairness is out of the prover's reach:
`ReserveReturns`, `CallsReturn`, `AuthorizeReturns`. The operators of `Canonical` are
recursive over the structure of a value, so `DigestStable` and `WrittenReadable` need an
induction over data, which the prover's backends cannot do. Every other property of the runs
is a theorem.

## 5. What is not modelled, and the abstractions made

- *Clock.* Time does not go backwards. Where the code trusts `time.time()`, so do the models.
- *One replay store.* The database is shared, never deleted, rolled back or replaced
  (`docs/limitations.md` names this as the administrator's part).
- *SQLite* is modelled by what `reserve()` relies on: one writer at a time, atomic durable
  commits, constraints, rollback on close. A commit that finds the database busy is one of
  `StoreFails`.
- *Adapters* return any of a set of counts or raise. The run counts as happening at
  `RunAdapter`, which may be later than `executed_at`: the code takes the time first and the
  model lets the clock move in between.
- *Timeouts* are nondeterministic: a timeout may happen at any time once its wait began, which
  includes the times at which it really does.
- *Order of reports in `trust_snapshot`.* The source walks the owners one by one and may report
  a duplicate key before a wrong component set further on; the model checks all component sets
  first. Both reject, and no property looks at the code.
- *Node answers.* A node under `src/` that exits with zero prints one attestation and nothing
  else, so the size and format checks of its output (`NODE_RESPONSE`) never fail and are left
  out; a garbled answer would end like `NodeError`.
- *Key files.* In `Authorization` the small key files are replaced in one step; in `Workspace`
  all files are truncated and filled.
- *Two writers of one file.* The one that fills it last determines it, or the longer of the
  two documents stands out behind the shorter one, which is `Torn`.
- *Digests* are injective, and strings and labels have no characters: the patterns of
  `models.py` are left out, the lengths and ranges are not.
- *The built-in simulator* is exact; the rounding of floating point numbers and the random
  generator (any outcome with an amplitude other than zero may be drawn) are left out. So is
  the circuit that `aer.py` builds for Qiskit.
- Key sizes, base64 and key generation, the text of messages, logging, timings and reports.

Not modelled, and why:

- `attacks.py`, `redteam.py` and the stress script are tables of altered documents with the
  codes they are refused with, or drivers of the public interface. They are tests of the
  checks that `Protocol` and `Results` model for all documents.
- `benchmark.py`, `gpu_benchmark.py` and the measuring part of `gateway_benchmark.py` compute
  statistics of timings.
- The commands `attacks`, `benchmark`, `gpu-benchmark` and `schemas` only start these or
  write a report.

## 6. Plan

All components that keep state or decide something are modelled. What could follow:

1. The composition of `Authorization` and `Executor` over one trust file and one clock, so
   that the receipts the executors see are those the coordinators returned.
   `Workspace` has this composition with coordinators and stores in single steps; the
   product of the two detailed modules is too large for TLC.
2. The attack corpus as a table over `Protocol`, each row with its code.

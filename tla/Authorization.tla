--------------------------- MODULE Authorization ---------------------------
(***************************************************************************)
(* How a receipt comes about: the coordinator (local.authorize_processes)  *)
(* and the verifier nodes (node.main), one operating system process per    *)
(* verifier and call.                                                      *)
(*                                                                         *)
(* The coordinator loads the trust file, issues a header and hands both to *)
(* a pool of threads, each of which runs one node and waits for its        *)
(* attestation for twenty seconds at most.  A node reads the trust file    *)
(* and its key file for itself, later than the coordinator did, while the  *)
(* operator may be writing them.  The first failure in the order of the    *)
(* verifiers is raised, after the nodes that run have ended; otherwise the *)
(* attestations are assembled and inspected.                               *)
(***************************************************************************)
EXTENDS Protocol

CONSTANTS
    Request, request_data,  \* the requests submitted, and what they hold
    TrustFile, trust,       \* the contents of trust.json
    Torn,                   \* trust.json while it is being written
    KeyFile, key,           \* the contents of the private key files
    provisioned,            \* the key file every verifier has at first
    KeyChange,              \* the key files the operator may install for whom
    ReceiptId,              \* bound: one per call of authorize_processes
    Workers,                \* threads of the pool
    NoRequest, NoTrust, NoHeader, NoAnswer,
    MaxTime                 \* bound: the clock stops there

Verifier == Range(VerifierOrder)

ASSUME AuthorizationAssumption ==
    /\ Torn \notin TrustFile
    /\ NoTrust \notin TrustFile
    /\ NoRequest \notin Request
    /\ MaxTime \in Nat
    /\ Workers \in Nat \ {0}
    /\ provisioned \in [Verifier -> KeyFile]
    /\ KeyChange \subseteq Verifier \X KeyFile
    /\ \A t \in TrustFile :
          /\ trust[t].policy.receipt_ttl \in Nat \ {0}
          /\ trust[t].policy.quorum \in Nat \ {0}
          /\ trust[t].policy.verifier_ids \in Seq(Verifier)
    /\ \A r \in Request :
          /\ request_data[r] # Malformed
          /\ request_data[r].intent.created_at \in Nat
          /\ request_data[r].intent.expires_at \in Nat

VARIABLES
    now,            \* time.time(), in whole seconds
    trust_file,     \* what trust.json holds
    key_files,      \* key_files[v]: what the private key file of v holds
    asked,          \* the request of the call under way, NoRequest if none
    held,           \* the trust the coordinator loaded for it
    issuing,        \* the header it issued
    used,           \* the receipt ids that secrets.token_hex has returned
    status,         \* status[v]: how far the thread that asks v has come
    read_trust,     \* read_trust[v]: the trust file as the node of v read it
    answer,         \* answer[v]: the attestation of v
    receipts        \* history: what authorize_processes returned

filesVars == <<trust_file, key_files>>
callVars  == <<asked, held, issuing, status, read_trust, answer>>
vars == <<now, trust_file, key_files, asked, held, issuing, used, status,
          read_trust, answer, receipts>>

(* The node process of a verifier is alive.                                *)
Running == {"started", "loaded"}

(* The codes that the thread of a verifier may raise.                      *)
Failures == {"VERIFIER_ERROR", "VERIFIER_UNAVAILABLE",
             "VERIFIER_IDENTITY_MISMATCH"}

Status == {"idle", "queued", "answered", "cancelled"} \cup Running \cup Failures

Init ==
    /\ now = 0
    /\ trust_file \in TrustFile
    /\ key_files = provisioned
    /\ used = {}
    /\ receipts = {}
    /\ asked = NoRequest
    /\ held = NoTrust
    /\ issuing = NoHeader
    /\ status = [v \in Verifier |-> "idle"]
    /\ read_trust = [v \in Verifier |-> NoTrust]
    /\ answer = [v \in Verifier |-> NoAnswer]

-----------------------------------------------------------------------------
(* The call begins: load_trust, new_header, and one task per verifier.  A  *)
(* request that new_header refuses changes nothing.                        *)
Authorize(r, id) ==
    /\ asked = NoRequest
    /\ trust_file # Torn
    /\ id \notin used
    /\ trust_snapshot(trust[trust_file]) = OK
    /\ validate_request(request_data[r], trust[trust_file], now) = OK
    /\ asked' = r
    /\ held' = trust_file
    /\ issuing' = new_header(request_data[r], trust[trust_file], now, id)
    /\ used' = used \cup {id}
    /\ status' = [v \in Verifier |->
                     IF v \in Range(trust[trust_file].policy.verifier_ids)
                     THEN "queued" ELSE "idle"]
    /\ UNCHANGED <<now, trust_file, key_files, read_trust, answer, receipts>>

(* The verifiers in the order the pool takes them, and its results.        *)
verifier_ids == trust[held].policy.verifier_ids

before(v) == {u \in Verifier :
                 \E i, j \in DOMAIN verifier_ids :
                     i < j /\ verifier_ids[i] = u /\ verifier_ids[j] = v}

(* A free thread takes the next task and starts its node.                  *)
StartNode(v) ==
    /\ status[v] = "queued"
    /\ \A u \in before(v) : status[u] # "queued"
    /\ Cardinality({u \in Verifier : status[u] \in Running}) < Workers
    /\ status' = [status EXCEPT ![v] = "started"]
    /\ UNCHANGED <<now, trust_file, key_files, asked, held, issuing, used,
                   read_trust, answer, receipts>>

(* The node reads and checks its trust file.                               *)
ReadTrust(v) ==
    /\ status[v] = "started"
    /\ trust_file # Torn
    /\ trust_snapshot(trust[trust_file]) = OK
    /\ status' = [status EXCEPT ![v] = "loaded"]
    /\ read_trust' = [read_trust EXCEPT ![v] = trust_file]
    /\ UNCHANGED <<now, trust_file, key_files, asked, held, issuing, used,
                   answer, receipts>>

attests(v) ==
    attest_check(request_data[asked], issuing, trust[read_trust[v]],
                 key[key_files[v]], now)

(* The node reads its key and the packet, and attests.  The thread takes   *)
(* the answer if it names the verifier it asked.                           *)
Attest(v) ==
    /\ status[v] = "loaded"
    /\ attests(v) = OK
    /\ key[key_files[v]].identity = v
    /\ status' = [status EXCEPT ![v] = "answered"]
    /\ \E draw \in Draws["attestation"] :
          answer' = [answer EXCEPT ![v] =
                        attest(request_data[asked], issuing,
                               trust[read_trust[v]], key[key_files[v]], draw)]
    /\ UNCHANGED <<now, trust_file, key_files, asked, held, issuing, used,
                   read_trust, receipts>>

(* The thread of v ends with a code.                                       *)
Fail(v, code) ==
    /\ status' = [status EXCEPT ![v] = code]
    /\ UNCHANGED <<now, trust_file, key_files, asked, held, issuing, used,
                   read_trust, answer, receipts>>

(* The answer names another verifier: the key files were mixed up.         *)
IdentityMismatch(v) ==
    /\ status[v] = "loaded"
    /\ attests(v) = OK
    /\ key[key_files[v]].identity # v
    /\ Fail(v, "VERIFIER_IDENTITY_MISMATCH")

(* A check of the node fails, it reads a torn file, or it dies: the exit   *)
(* status is not zero.                                                     *)
NodeError(v) ==
    /\ status[v] \in Running
    /\ Fail(v, "VERIFIER_ERROR")

(* Mutant: subprocess.run without a timeout.                               *)
WaitForNode(v) == FALSE /\ UNCHANGED vars /\ v \in Verifier

(* The node cannot be started, or its twenty seconds are over and          *)
(* subprocess.run kills it.                                                *)
NodeUnavailable(v) ==
    /\ status[v] \in Running
    /\ Fail(v, "VERIFIER_UNAVAILABLE")

-----------------------------------------------------------------------------
(* Mutant: the trust of the call stays behind.                             *)
EndedKeepsTrust ==
    /\ asked' = NoRequest
    /\ held' = held
    /\ issuing' = NoHeader
    /\ status' = [v \in Verifier |-> "idle"]
    /\ read_trust' = [v \in Verifier |-> NoTrust]
    /\ answer' = [v \in Verifier |-> NoAnswer]

(* The call has ended; nothing of it is left but its result.               *)
Ended ==
    /\ asked' = NoRequest
    /\ held' = NoTrust
    /\ issuing' = NoHeader
    /\ status' = [v \in Verifier |-> "idle"]
    /\ read_trust' = [v \in Verifier |-> NoTrust]
    /\ answer' = [v \in Verifier |-> NoAnswer]

(* The result that pool.map reaches first is a failure of v.               *)
raises(v) ==
    /\ status[v] \in Failures
    /\ \A u \in before(v) : status[u] = "answered"

(* pool.map raises it and cancels the tasks that have not begun ...        *)
Cancel ==
    /\ \E v \in Verifier : raises(v)
    /\ \E v \in Verifier : status[v] = "queued"
    /\ status' = [v \in Verifier |->
                     IF status[v] = "queued" THEN "cancelled" ELSE status[v]]
    /\ UNCHANGED <<now, trust_file, key_files, asked, held, issuing, used,
                   read_trust, answer, receipts>>

(* ... and leaving the pool waits for those that have.                     *)
Raise ==
    /\ \E v \in Verifier : raises(v)
    /\ \A v \in Verifier : status[v] \notin {"queued"} \cup Running
    /\ Ended
    /\ UNCHANGED <<now, filesVars, used, receipts>>

answers == [i \in DOMAIN verifier_ids |-> answer[verifier_ids[i]]]

candidate == assemble(issuing, answers, trust[held])

AllAnswered == /\ asked # NoRequest
               /\ \A v \in Range(verifier_ids) : status[v] = "answered"

inspects == inspect_receipt(request_data[asked], candidate, trust[held], now)

returned == [request |-> asked, trust |-> held, read |-> read_trust,
             time |-> now, receipt |-> candidate]

(* Mutant: the assembled receipt is returned without an inspection.        *)
AssembleUninspected ==
    /\ AllAnswered
    /\ receipts' = receipts \cup {returned}
    /\ Ended
    /\ UNCHANGED <<now, filesVars, used>>

(* All have answered: assemble, inspect, return the receipt.               *)
Assemble ==
    /\ AllAnswered
    /\ inspects = OK
    /\ receipts' = receipts \cup {returned}
    /\ Ended
    /\ UNCHANGED <<now, filesVars, used>>

(* The inspection raises a code: too late, or not what the coordinator's   *)
(* own trust says.                                                         *)
RejectAssembly ==
    /\ AllAnswered
    /\ inspects # OK
    /\ Ended
    /\ UNCHANGED <<now, filesVars, used, receipts>>

CoordinatorDies ==
    /\ asked # NoRequest
    /\ Ended
    /\ UNCHANGED <<now, filesVars, used, receipts>>

-----------------------------------------------------------------------------
(* The operator writes trust.json, which is not atomic, or a key file.     *)
WriteTrust ==
    /\ trust_file # Torn
    /\ trust_file' = Torn
    /\ UNCHANGED <<now, key_files, callVars, used, receipts>>

TrustWritten(t) ==
    /\ trust_file = Torn
    /\ trust_file' = t
    /\ UNCHANGED <<now, key_files, callVars, used, receipts>>

ReplaceKey(v, k) ==
    /\ <<v, k>> \in KeyChange
    /\ key_files[v] # k
    /\ key_files' = [key_files EXCEPT ![v] = k]
    /\ UNCHANGED <<now, trust_file, callVars, used, receipts>>

Tick ==
    /\ now < MaxTime
    /\ now' = now + 1
    /\ UNCHANGED <<filesVars, callVars, used, receipts>>

-----------------------------------------------------------------------------
(* What the coordinator and its timeouts do without any help of a node.    *)
CoordinatorStep ==
    \/ \E v \in Verifier : StartNode(v) \/ NodeUnavailable(v)
    \/ Cancel \/ Raise \/ Assemble \/ RejectAssembly

NodeStep(v) ==
    \/ ReadTrust(v)
    \/ Attest(v) \/ IdentityMismatch(v)
    \/ NodeError(v)

Next ==
    \/ \E r \in Request, id \in ReceiptId : Authorize(r, id)
    \/ CoordinatorStep
    \/ \E v \in Verifier : NodeStep(v)
    \/ CoordinatorDies
    \/ WriteTrust \/ \E t \in TrustFile : TrustWritten(t)
    \/ \E v \in Verifier, k \in KeyFile : ReplaceKey(v, k)
    \/ Tick

Spec == Init /\ [][Next]_vars

(* The coordinator is scheduled and its timeouts expire; nodes may hang.   *)
FairSpec == Spec /\ WF_vars(CoordinatorStep)

-----------------------------------------------------------------------------
TypeOK ==
    /\ now \in 0 .. MaxTime
    /\ trust_file \in TrustFile \cup {Torn}
    /\ key_files \in [Verifier -> KeyFile]
    /\ asked \in Request \cup {NoRequest}
    /\ held \in TrustFile \cup {NoTrust}
    /\ used \subseteq ReceiptId
    /\ status \in [Verifier -> Status]
    /\ read_trust \in [Verifier -> TrustFile \cup {NoTrust}]
    /\ asked = NoRequest <=> held = NoTrust
    /\ \A r \in receipts :
          /\ r.request \in Request /\ r.trust \in TrustFile
          /\ r.time \in 0 .. now
          /\ r.receipt.header.receipt_id \in used

passes(r, receipt, time) ==
    LET request == request_data[r.request] IN
    /\ inspect_receipt(request, receipt, trust[r.trust], time) = OK
    /\ receipt.disposition = "ALLOW" =>
           verify_receipt(request, receipt, trust[r.trust], time) = OK

(* The header of the call under way can be voted on in every second of its *)
(* lifetime, from the one it was issued in to the last before it expires.  *)
HeaderUsable ==
    asked # NoRequest =>
        /\ issuing.issued_at < issuing.expires_at
        /\ \A time \in issuing.issued_at .. MaxTime :
              time < issuing.expires_at =>
                  validate_header(issuing, request_data[asked], trust[held],
                                  time) = OK

(* What the coordinator issues and returns is of use: a receipt is not yet *)
(* expired, and from then on until it expires everybody with the same      *)
(* trust accepts it, as evidence, and if it says ALLOW as an               *)
(* authorization.  Nodes may have been slow, keys and trust may have been  *)
(* replaced meanwhile.  No receipt is made of the votes of some verifiers  *)
(* while others failed.                                                    *)
ReceiptsUsable ==
    /\ HeaderUsable
    /\ \A r \in receipts :
        /\ DOMAIN r.receipt.attestations
               = DOMAIN trust[r.trust].policy.verifier_ids
        /\ r.time < r.receipt.header.expires_at
        /\ \A time \in r.time .. MaxTime :
              time < r.receipt.header.expires_at => passes(r, r.receipt, time)

(* The disposition of a receipt is the verdict of the policy its           *)
(* coordinator holds, neither weakened nor strengthened by the counting.   *)
VerdictIsPolicy ==
    \A r \in receipts :
        r.receipt.disposition =
            evaluate(request_data[r.request].intent, trust[r.trust].policy).disposition

(* Every attestation in a receipt was made by a node that had itself read  *)
(* the policy its coordinator held, even when the trust file was replaced  *)
(* between the two reads by one with the same policy reference.            *)
NoMixedPolicy ==
    \A r \in receipts : \A i \in DOMAIN r.receipt.attestations :
        trust[r.read[r.receipt.attestations[i].body.verifier_id]].policy
            = trust[r.trust].policy

(* Every selection of votes that meets the quorum, in any order, passes.   *)
selections_pass(r) ==
    LET all == r.receipt.attestations IN
    \A n \in trust[r.trust].policy.quorum .. Len(all) :
        \A order \in [1 .. n -> DOMAIN all] :
            IsInjective(order) =>
                passes(r, [r.receipt EXCEPT !.attestations =
                               [i \in 1 .. n |-> all[order[i]]]], r.time)

(* Surplus votes may be taken out of a receipt that says ALLOW, and the    *)
(* rest may come in any order: every selection that still meets the quorum *)
(* authorizes as well.                                                     *)
SurplusRemovable ==
    \A r \in receipts :
        r.receipt.disposition = "ALLOW" => selections_pass(r)

(* authorize_processes returns or raises even if nodes hang.               *)
AuthorizeReturns == asked # NoRequest ~> asked = NoRequest

=============================================================================

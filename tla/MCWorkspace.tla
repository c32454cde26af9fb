---------------------------- MODULE MCWorkspace ----------------------------
(* Two processes in one workspace: in one model the commands of a shell    *)
(* and an execute beside them, in the other the commands that provision    *)
(* and run a whole session, and commands that meet them on the way.  The   *)
(* experiment an operator writes into intent.json has another seed; in the *)
(* other model the operator puts the bell experiment back.                 *)
EXTENDS Workspace, TLC

CONSTANTS p1, p2, d1, d2

MCVerifiers == <<"verifier-1", "verifier-2", "verifier-3">>

(* Under this suite two signatures of one intent differ.                   *)
provisioning(name, quorum_of) ==
    [name |-> name, suite |-> "mldsa65-v1", quorum |-> quorum_of]

plain(names) == {[name |-> n] : n \in names}

MCShell ==
    (p1 :> {provisioning("init", 2)}
           \cup plain({"freeze", "sign_intent", "authorize", "execute",
                       "verify_result"}))
    @@ (p2 :> plain({"execute"}))

MCSessions ==
    (p1 :> {provisioning("quantum_demo", 2),
            [name |-> "gpu_demo", device |-> "GPU"],
            [name |-> "gateway_benchmark", device |-> "CPU"]})
    @@ (p2 :> {provisioning("init", 3)}
              \cup plain({"inspect", "verify", "execute"}))

MCReseeded == {[bell_experiment EXCEPT !.seed = 8]}
MCBell     == {bell_experiment}
MCNoEdits  == {}

BellCounts == [o \in {<<0, 0>>, <<1, 1>>} |-> 512]
FewCounts  == [o \in {<<0, 0>>} |-> 512]

answered(device, counts) ==
    [success |-> TRUE, results |-> 1, device |-> device,
     method |-> "statevector", counts |-> counts]

MCAnswer    == {answered("CPU", BellCounts), answered("CPU", FewCounts)}
MCAerAnswer == {answered("CPU", BellCounts), answered("GPU", BellCounts)}

MCOneDraw  == [intent |-> {0}, attestation |-> {0}, result |-> {0}]
MCTwoDraws == [MCOneDraw EXCEPT !.intent = {d1, d2}]

(* The two draws are interchangeable: only their being different counts,   *)
(* and any_draw is only taken of the other domains.                        *)
MCSymmetry == Permutations({d1, d2})

MCOrders == {<<<<0, 1>>>>, <<<<1, 0>>>>}

MCSize == {<<2, 1>>, <<26, 20>>, <<26, 21>>, <<26, 30>>, <<27, 20>>}
MCNoSize == {}

=============================================================================

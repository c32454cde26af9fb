----------------------------- MODULE MCExecutor -----------------------------
(* A gateway with three verifiers and a quorum of two, two executor        *)
(* processes, and a trust file that is edited once: the second bundle      *)
(* keeps the reference of the policy and asks for all three verifiers.     *)
EXTENDS Executor, MCFixtures

MCOneTrust  == {"two of three"}
MCTrustFile == {"two of three", "three of three"}

(* The receipts that coordinators issued: for a request, under a trust     *)
(* bundle, at a time, and with the attestations of some of the verifiers.  *)
issue(request, bundle, time, id, voters) ==
    [request |-> request, bundle |-> bundle, time |-> time, id |-> id,
     voters |-> voters]

Issued ==
    [first      |-> issue("a", "two of three", 0, "r1", MCVerifiers),
     reissued   |-> issue("a", "two of three", 1, "r2",
                          <<"verifier-3", "verifier-1">>),
     new_policy |-> issue("a", "three of three", 1, "r3", MCVerifiers),
     \* another coordinator picked the id r2 as well
     other      |-> issue("b", "two of three", 1, "r2", MCVerifiers),
     review     |-> issue("review", "two of three", 0, "r4", MCVerifiers)]

vote(request, head, bundle, voter) ==
    [attest(request, head, bundle, key_file(voter), any_draw("attestation"))
        EXCEPT !.signatures = computed(@)]

Headers ==
    [n \in DOMAIN Issued |->
        new_header(Signed[Issued[n].request], Bundles[Issued[n].bundle],
                   Issued[n].time, Issued[n].id)]

Votes ==
    [n \in DOMAIN Issued |->
        computed([i \in DOMAIN Issued[n].voters |->
            only({vote(request, head, bundle, Issued[n].voters[i]) :
                     request \in {Signed[Issued[n].request]},
                     head \in {Headers[n]},
                     bundle \in {Bundles[Issued[n].bundle]}})])]

Assembled ==
    [n \in DOMAIN Issued |->
        only({assemble(Headers[n], votes, bundle) :
                 votes \in {Votes[n]},
                 bundle \in {Bundles[Issued[n].bundle]}})]

(* The first receipt of request a with other evidence than its own.        *)
with_votes(votes) == [Assembled.first EXCEPT !.attestations = votes]

Receipts == only({
    [first         |-> assembled.first,
     reissued      |-> assembled.reissued,
     new_policy    |-> assembled.new_policy,
     other         |-> assembled.other,
     review        |-> assembled.review,
     swapped       |-> assembled.first,
     malformed     |-> assembled.first,
     \* evidence of two issuances under one header
     mixed         |-> with_votes(<<first[1], assembled.reissued.attestations[2]>>),
     counted_twice |-> with_votes(<<first[1], first[1]>>),
     one_vote      |-> with_votes(<<first[1]>>),
     \* the second vote carries only one valid component of the suite
     one_component |-> with_votes(<<first[1], [first[2] EXCEPT
        !.signatures["ml-dsa-65"] = [@ EXCEPT !.key = "verifier-1"]]>>)] :
    assembled \in {Assembled}, first \in {Assembled.first.attestations}})

Requests ==
    [first |-> Signed.a, reissued |-> Signed.a, new_policy |-> Signed.a,
     other |-> Signed.b, mixed |-> Signed.a, counted_twice |-> Signed.a,
     swapped |-> Signed.b, one_vote |-> Signed.a, one_component |-> Signed.a,
     review |-> Signed.review, malformed |-> Malformed]

ExecutorKey == key_file("executor")

\* the calls of the runs about concurrency, and of those about evidence
MCRacing == {"first", "reissued", "other"}
MCEvidence == DOMAIN Requests \ {"reissued", "other"}
MCReissues == {"first", "reissued"}

Rows == {reservation(c) : c \in {d \in DOMAIN Requests : parses(d)}}

\* what a bell experiment of two shots gives, and counts that miss a shot
BellCounts == (<<0, 0>> :> 1) @@ (<<1, 1>> :> 1)
Outputs    == {BellCounts, <<0, 0>> :> 1}
GoodOutput == {BellCounts}

(* The values of the constants.  TLC evaluates the right-hand side of a    *)
(* constant wherever the constant occurs, but a definition only once.      *)
MCRequest     == Requests
MCReceipt     == Receipts
MCTrust       == Bundles
MCExecutorKey == ExecutorKey
MCRow         == Rows
MCOutput      == Outputs
MCGoodOutput  == GoodOutput

=============================================================================

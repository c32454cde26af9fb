-------------------------- MODULE ProgramProofs --------------------------
(***************************************************************************)
(* Proofs about whole commands (cli.py, demo.py, gateway_benchmark.py),    *)
(* for every number of processes and rounds, every interleaving, crash and *)
(* exit: a program logic for the straight-line commands of Workspace.  An  *)
(* instruction gives facts, kills facts and needs facts; Does(s, N, C, K)  *)
(* is the contract of a subroutine s: after N it always has what it needs, *)
(* it establishes C and falsifies K at the most.  Contracts compose along  *)
(* the code.  Every command has one, so an invariant of the system is      *)
(* preserved if each instruction preserves it where its needs are known.   *)
(*                                                                         *)
(*   Placed     every process stands at an instruction of its command      *)
(*   IssuedInv  receipts and rows name ids that were drawn (TypeOK)        *)
(*   OwnerInv   one process provisioned the directory (TrustHasKeys)       *)
(*   ClaimInv   a proved result has a run of its intent (ClaimsTrue)       *)
(*   DemoInv    a demo's requests are sealed, the admitted one is spent    *)
(*              (DemosRefuse)                                              *)
(*                                                                         *)
(* The order of instructions is the second subject: Since(s, n, i, S) says *)
(* that before the n-th of s there is an i, and none of S after it.        *)
(*                                                                         *)
(*   PolicyInv  a command accelerates the policy it has just provisioned   *)
(*              (WorkloadsAllowed)                                         *)
(*   FreshInv   evidence that was made and not passed on since is known to *)
(*              no other command, file or row (MeasurementsAreFresh)       *)
(*                                                                         *)
(* The documents themselves come last.                                     *)
(*                                                                         *)
(*   ModelInv   a variable holds a document of its model, and an           *)
(*              experiment fits its trust (WritesReadable)                 *)
(***************************************************************************)
EXTENDS WorkspaceProofs

(* The operations that leave a value in their command's variable.          *)
Setters == {"load", "generate", "bundle", "bell", "accelerate", "workload",
            "freeze", "sign", "issue", "attest", "preflight", "construct",
            "run", "summarize"}

(* The instructions whose operation works on one name only.                *)
Fixed ==
    {<<"require new", "trust">>, <<"mkdir", "trust">>,
     <<"bundle", "trust">>, <<"bell", "experiment">>,
     <<"accelerate", "trust">>, <<"workload", "experiment">>,
     <<"freeze", "intent">>, <<"sign", "request">>,
     <<"issue", "header">>, <<"attest", "receipt">>,
     <<"preflight", "adapter">>, <<"construct", "adapter">>,
     <<"admit", "request">>, <<"run", "result">>,
     <<"inspect", "receipt">>, <<"verify", "receipt">>,
     <<"verify result", "result">>, <<"try altered", "request">>,
     <<"try replay", "request">>, <<"summarize", "summary">>}

(* Every instruction some command of cli.py, demo.py or                    *)
(* gateway_benchmark.py executes, but for its last, print.                 *)
Instructions ==
    ({"load"} \X (File \cup {"issuer"})) \cup ({"open", "fill"} \X File)
    \cup ({"generate"} \X Range(Identities)) \cup Fixed

(* The facts a command relies on. has(n): its variable n has a value;      *)
(* opened(n), written(n): it opened file n for writing, it wrote it; made, *)
(* new: it made trust/, and has not opened trust.json since; own: it       *)
(* loaded no experiment, intent or request, so its request is of an        *)
(* experiment it made; admitted: the executor admitted its request and     *)
(* receipt; proved: its result was returned or verified by the executor;   *)
(* none: it loaded no result and ran nothing; vetted: its quorum was       *)
(* accepted; builtin: its trust is the built-in one; fits: its experiment  *)
(* is of the schema its trust asks for.                                    *)
has(n)     == <<"has", n>>
opened(n)  == <<"opened", n>>
written(n) == <<"written", n>>
made       == <<"made", "trust">>
new        == <<"new", "trust">>
own        == <<"own", "request">>
admitted   == <<"admitted", "request">>
proved     == <<"proved", "result">>
none       == <<"none", "result">>
vetted     == <<"vetted", "trust">>
builtin    == <<"builtin", "trust">>
fits       == <<"fits", "experiment">>

(* What a command knows before its first instruction.                      *)
Blank == {own, none}

(* Instruction i establishes fact v.                                       *)
Gives(i, v) ==
    \/ i[1] \in Setters /\ v = has(i[2])
    \/ i[1] = "mkdir" /\ v \in {made, new}
    \/ i[1] = "open" /\ v = opened(i[2])
    \/ i[1] = "fill" /\ v = written(i[2])
    \/ i[1] = "admit" /\ v = admitted
    \/ i[1] \in {"run", "verify result"} /\ v = proved
    \/ i[1] = "require new" /\ v = vetted
    \/ i[1] = "bundle" /\ v = builtin
    \/ i[1] \in {"load", "bell", "workload"} /\ i[2] = "experiment"
       /\ v = fits

(* Instruction i may falsify fact v: opening truncates, loading replaces   *)
(* the variable, a new request or receipt is not the admitted one, another *)
(* trust may ask for another schema.                                       *)
Kills(i, v) ==
    \/ i[1] = "fill" /\ v = opened(i[2])
    \/ i[1] = "open" /\ v = written(i[2])
    \/ i = <<"open", "trust">> /\ v = new
    \/ /\ i[1] \in {"load", "sign", "attest"}
       /\ i[2] \in {"request", "receipt"} /\ v \in {admitted, proved}
    \/ i[1] \in {"load", "run"} /\ i[2] = "result" /\ v \in {proved, none}
    \/ /\ i[1] = "load" /\ i[2] \in {"experiment", "intent", "request"}
       /\ v = own
    \/ /\ i[1] \in {"load", "bundle", "accelerate"} /\ i[2] = "trust"
       /\ v \in {builtin, fits}

(* What the code before instruction i must have established: the variables *)
(* it reads have values, trust/ is made before keys are written in it, the *)
(* run is of the admitted evidence, an experiment fits the trust it is     *)
(* written beside.                                                         *)
Needs(i, v) ==
    \/ i[1] = "generate" /\ v = made
    \/ i[1] \in {"open", "fill"} /\ i[2] \in Range(Identities)
       /\ v \in {made, new}
    \/ i[1] \in {"open", "fill"} /\ i[2] = "trust" /\ v = made
    \/ i[1] = "fill" /\ v \in {has(i[2]), opened(i[2])}
    \/ i = <<"fill", "trust">> /\ v \in {"written"} \X Range(Identities)
    \/ i = <<"fill", "experiment">> /\ v = fits
    \/ i[1] = "bundle" /\ v \in {vetted} \cup ({"has"} \X Range(Identities))
    \/ i[1] = "bell" /\ v = builtin
    \/ i[1] = "accelerate" /\ v = has("trust")
    \/ i[1] = "freeze" /\ v \in {has("trust"), has("experiment")}
    \/ i[1] = "sign" /\ v \in {has("intent"), has("scientist")}
    \/ i[1] = "issue" /\ v \in {has("issuer"), has("request")}
    \/ i[1] = "attest" /\ v = has("header")
    \/ i[1] = "admit"
       /\ v \in {has("trust"), has("request"), has("receipt")}
    \/ i[1] = "run" /\ v \in {admitted, has("executor")}
    \/ i[1] = "verify result" /\ v \in {has("request"), has("result")}
    \/ i[1] = "try altered" /\ v \in {own, has("request")}
    \/ i[1] = "try replay" /\ v = admitted

(* An instruction of s before its n-th gives v, none after that kills it.  *)
Made(s, n, v) ==
    \E m \in 1 .. n - 1 : /\ Gives(s[m], v)
                          /\ \A k \in m + 1 .. n - 1 : ~ Kills(s[k], v)

(* No instruction of s before its n-th kills v.                            *)
Kept(s, n, v) == \A k \in 1 .. n - 1 : ~ Kills(s[k], v)

(* v is known where command s is about to execute its n-th instruction.    *)
Known(s, n, v) == Made(s, n, v) \/ (v \in Blank /\ Kept(s, n, v))

(* v is known where process p stands in its command.                       *)
Knows(p, v) ==
    command[p] # Idle /\ Known(Programs[command[p].name], pc[p], v)

(* The needs of s are met when N is known before it.                       *)
Runs(s, N) ==
    /\ s \in Seq(Instructions)
    /\ \A n \in DOMAIN s : \A v : Needs(s[n], v) =>
           Made(s, n, v) \/ (v \in N /\ Kept(s, n, v))

(* v is established by the whole of s; it is kept through the whole of s.  *)
After(s, v) == Made(s, Len(s) + 1, v)

Keeps(s, v) == Kept(s, Len(s) + 1, v)

(* Where N is known before s, C is known after it, and all but K remains.  *)
Does(s, N, C, K) ==
    /\ Runs(s, N)
    /\ \A v \in C : After(s, v)
    /\ \A v : v \in K \/ Keeps(s, v)

-----------------------------------------------------------------------------

(* Where the instructions of two subroutines run one after the other are.  *)
LEMMA Joined ==
    ASSUME NEW S, NEW s \in Seq(S), NEW t \in Seq(S)
    PROVE  /\ s \o t \in Seq(S)
           /\ Len(s) \in Nat /\ Len(t) \in Nat
           /\ Len(s \o t) = Len(s) + Len(t)
           /\ \A n \in 1 .. Len(s) : (s \o t)[n] = s[n]
           /\ \A n \in 1 .. Len(t) : (s \o t)[Len(s) + n] = t[n]
           /\ DOMAIN s = 1 .. Len(s) /\ DOMAIN t = 1 .. Len(t)
           /\ DOMAIN (s \o t) = 1 .. Len(s) + Len(t)
OBVIOUS

(* What the first of two subroutines makes and keeps inside the whole.     *)
LEMMA Earlier ==
    ASSUME NEW S, NEW s \in Seq(S), NEW t \in Seq(S), NEW v,
           NEW n \in 1 .. Len(s) + 1
    PROVE  /\ Made(s, n, v) => Made(s \o t, n, v)
           /\ Kept(s, n, v) => Kept(s \o t, n, v)
<1>1. \A k \in 1 .. n - 1 : (s \o t)[k] = s[k]
  BY Joined
<1>2. ASSUME NEW m \in 1 .. n - 1, Gives(s[m], v),
             \A k \in m + 1 .. n - 1 : ~ Kills(s[k], v)
      PROVE  Made(s \o t, n, v)
  <2>1. \A k \in m + 1 .. n - 1 : ~ Kills((s \o t)[k], v)
    BY <1>1, <1>2, Joined
  <2> QED BY <1>1, <1>2, <2>1 DEF Made
<1> QED BY <1>1, <1>2 DEF Made, Kept

(* What the second of two subroutines makes and keeps inside the whole.    *)
LEMMA Later ==
    ASSUME NEW S, NEW s \in Seq(S), NEW t \in Seq(S), NEW v,
           NEW d \in 1 .. Len(t) + 1
    PROVE  /\ Made(t, d, v) => Made(s \o t, Len(s) + d, v)
           /\ Made(s, Len(s) + 1, v) /\ Kept(t, d, v) =>
                  Made(s \o t, Len(s) + d, v)
           /\ Kept(s, Len(s) + 1, v) /\ Kept(t, d, v) =>
                  Kept(s \o t, Len(s) + d, v)
<1> DEFINE n == Len(s) + d
           j == s \o t
<1>1. /\ Len(s) \in Nat /\ Len(t) \in Nat
      /\ \A k \in 1 .. Len(s) : j[k] = s[k]
      /\ \A k \in 1 .. d - 1 : j[Len(s) + k] = t[k]
  BY Joined
<1> HIDE DEF j
<1>2. \A k \in Len(s) + 1 .. n - 1 :
         /\ k - Len(s) \in 1 .. d - 1
         /\ j[k] = t[k - Len(s)]
  <2> SUFFICES ASSUME NEW k \in Len(s) + 1 .. n - 1
               PROVE  /\ k - Len(s) \in 1 .. d - 1
                      /\ j[k] = t[k - Len(s)]
    OBVIOUS
  <2>1. k - Len(s) \in 1 .. d - 1 /\ Len(s) + (k - Len(s)) = k
    BY <1>1
  <2> QED BY <1>1, <2>1
<1>3. ASSUME NEW m \in 1 .. d - 1, Gives(t[m], v),
             \A k \in m + 1 .. d - 1 : ~ Kills(t[k], v)
      PROVE  Made(j, n, v)
  <2>1. Gives(j[Len(s) + m], v) /\ Len(s) + m \in 1 .. n - 1
    BY <1>1, <1>3
  <2>2. \A k \in Len(s) + m + 1 .. n - 1 : ~ Kills(j[k], v)
    <3> SUFFICES ASSUME NEW k \in Len(s) + m + 1 .. n - 1
                 PROVE  ~ Kills(j[k], v)
      OBVIOUS
    <3>1. k \in Len(s) + 1 .. n - 1 /\ k - Len(s) \in m + 1 .. d - 1
      BY <1>1, <1>3
    <3> QED BY <1>2, <1>3, <3>1
  <2> QED BY <2>1, <2>2 DEF Made
<1>4. ASSUME NEW m \in 1 .. Len(s), Gives(s[m], v),
             \A k \in m + 1 .. Len(s) : ~ Kills(s[k], v), Kept(t, d, v)
      PROVE  Made(j, n, v)
  <2>1. Gives(j[m], v) /\ m \in 1 .. n - 1
    BY <1>1, <1>4
  <2>2. ASSUME NEW k \in m + 1 .. n - 1 PROVE ~ Kills(j[k], v)
    <3>1. CASE k <= Len(s)
      <4>1. k \in 1 .. Len(s) /\ k \in m + 1 .. Len(s)
        BY <1>1, <3>1
      <4> QED BY <1>1, <1>4, <4>1
    <3>2. CASE k > Len(s)
      <4>1. k \in Len(s) + 1 .. n - 1
        BY <1>1, <3>2
      <4> QED BY <1>2, <1>4, <4>1 DEF Kept
    <3> QED BY <1>1, <3>1, <3>2
  <2> QED BY <2>1, <2>2 DEF Made
<1>5. ASSUME Kept(s, Len(s) + 1, v), Kept(t, d, v) PROVE Kept(j, n, v)
  <2> SUFFICES ASSUME NEW k \in 1 .. n - 1 PROVE ~ Kills(j[k], v)
    BY DEF Kept
  <2>1. CASE k <= Len(s)
    <3>1. k \in 1 .. Len(s) /\ k \in 1 .. Len(s) + 1 - 1
      BY <1>1, <2>1
    <3> QED BY <1>1, <1>5, <3>1 DEF Kept
  <2>2. CASE k > Len(s)
    <3>1. k \in Len(s) + 1 .. n - 1
      BY <1>1, <2>2
    <3> QED BY <1>2, <1>5, <3>1 DEF Kept
  <2> QED BY <1>1, <2>1, <2>2
<1>6. Len(s) + 1 - 1 = Len(s)
  BY <1>1
<1>7. Made(t, d, v) => Made(j, n, v)
  BY <1>3 DEF Made
<1>8. Made(s, Len(s) + 1, v) /\ Kept(t, d, v) => Made(j, n, v)
  BY <1>4, <1>6 DEF Made
<1> QED BY <1>5, <1>7, <1>8 DEF j

(* The sequencing rule: the second subroutine needs what was needed of the *)
(* whole, or what the first establishes; the whole establishes what the    *)
(* second does and what of the first the second does not kill.             *)
LEMMA Then ==
    ASSUME NEW s, NEW N, Runs(s, N),
           NEW t, NEW M, NEW D, NEW L, Does(t, M, D, L),
           \A v \in M : After(s, v) \/ (v \in N /\ Keeps(s, v))
    PROVE  /\ Runs(s \o t, N)
           /\ \A v \in D : After(s \o t, v)
           /\ \A v : v \in L \/ (After(s, v) => After(s \o t, v))
           /\ \A v : v \in L \/ (Keeps(s, v) => Keeps(s \o t, v))
<1> DEFINE j == s \o t
<1>1. /\ s \in Seq(Instructions) /\ t \in Seq(Instructions)
  BY DEF Does, Runs
<1> DEFINE S == Instructions
<1> HIDE DEF S
<1>2. /\ j \in Seq(S) /\ s \in Seq(S) /\ t \in Seq(S)
      /\ Len(s) \in Nat /\ Len(t) \in Nat
      /\ Len(j) = Len(s) + Len(t)
      /\ \A n \in 1 .. Len(s) : j[n] = s[n]
      /\ \A n \in 1 .. Len(t) : j[Len(s) + n] = t[n]
      /\ DOMAIN s = 1 .. Len(s) /\ DOMAIN t = 1 .. Len(t)
      /\ DOMAIN j = 1 .. Len(s) + Len(t)
  BY <1>1, Joined DEF S
<1>3. ASSUME NEW n \in DOMAIN j
      PROVE  \/ n \in 1 .. Len(s)
             \/ \E d \in 1 .. Len(t) : n = Len(s) + d
  <2>1. CASE n <= Len(s)
    BY <1>2, <2>1
  <2>2. CASE n > Len(s)
    <3>1. n - Len(s) \in 1 .. Len(t) /\ n = Len(s) + (n - Len(s))
      BY <1>2, <2>2
    <3> QED BY <3>1
  <2> QED BY <1>2, <2>1, <2>2
<1>4. /\ \A n \in 1 .. Len(s) : n \in 1 .. Len(s) + 1
      /\ \A d \in 1 .. Len(t) : d \in 1 .. Len(t) + 1
      /\ Len(t) + 1 \in 1 .. Len(t) + 1
      /\ Len(j) + 1 = Len(s) + (Len(t) + 1)
  BY <1>2
<1>5. ASSUME NEW n \in DOMAIN j, NEW v, Needs(j[n], v)
      PROVE  Made(j, n, v) \/ (v \in N /\ Kept(j, n, v))
  <2>1. CASE n \in 1 .. Len(s)
    <3>1. Made(s, n, v) \/ (v \in N /\ Kept(s, n, v))
      BY <1>2, <1>5, <2>1 DEF Runs
    <3>2. /\ Made(s, n, v) => Made(j, n, v)
          /\ Kept(s, n, v) => Kept(j, n, v)
      BY <1>2, <1>4, <2>1, Earlier
    <3> QED BY <3>1, <3>2
  <2>2. ASSUME NEW d \in 1 .. Len(t), n = Len(s) + d
        PROVE  Made(j, n, v) \/ (v \in N /\ Kept(j, n, v))
    <3>1. Made(t, d, v) \/ (v \in M /\ Kept(t, d, v))
      BY <1>2, <1>5, <2>2 DEF Does, Runs
    <3>2. /\ Made(t, d, v) => Made(j, Len(s) + d, v)
          /\ After(s, v) /\ Kept(t, d, v) => Made(j, Len(s) + d, v)
          /\ Keeps(s, v) /\ Kept(t, d, v) => Kept(j, Len(s) + d, v)
      BY <1>2, <1>4, Later DEF After, Keeps
    <3> QED BY <2>2, <3>1, <3>2
  <2> QED BY <1>3, <2>1, <2>2
<1>6. \A v : /\ After(t, v) => After(j, v)
             /\ After(s, v) /\ Keeps(t, v) => After(j, v)
             /\ Keeps(s, v) /\ Keeps(t, v) => Keeps(j, v)
  BY <1>2, <1>4, Later DEF After, Keeps
<1> HIDE DEF j
<1>7. \A v \in D : After(j, v)
  BY <1>6 DEF Does
<1>8. \A v : v \in L \/ Keeps(t, v)
  BY DEF Does
<1>9. Runs(j, N)
  BY <1>2, <1>5 DEF Runs, S
<1> QED BY <1>6, <1>7, <1>8, <1>9 DEF j

(* The contract of one instruction, from its gives, kills and needs.       *)
LEMMA DoesOne ==
    ASSUME NEW op, NEW name, <<op, name>> \in Instructions,
           NEW N, \A v : Needs(<<op, name>>, v) => v \in N,
           NEW C, \A v \in C : Gives(<<op, name>>, v),
           NEW K, \A v : Kills(<<op, name>>, v) => v \in K
    PROVE  Does(do(op, name), N, C, K)
<1> DEFINE i == <<op, name>>
           s == <<i>>
<1>1. do(op, name) = s
  BY DEF do
<1> HIDE DEF i
<1>2. /\ s \in Seq(Instructions) /\ Len(s) = 1
      /\ DOMAIN s = {1} /\ s[1] = i
  BY DEF i
<1>3. \A v : Kept(s, 1, v)
  BY DEF Kept
<1>4. \A v \in C : Made(s, 1 + 1, v)
  <2> SUFFICES ASSUME NEW v \in C PROVE Made(s, 1 + 1, v)
    OBVIOUS
  <2>1. 1 \in 1 .. 1 + 1 - 1 /\ Gives(s[1], v)
    BY <1>2 DEF i
  <2>2. \A k \in 1 + 1 .. 1 + 1 - 1 : ~ Kills(s[k], v)
    OBVIOUS
  <2> QED BY <2>1, <2>2 DEF Made
<1> HIDE DEF s
<1>5. \A v : v \in K \/ Kept(s, 1 + 1, v)
  BY <1>2 DEF Kept, i
<1>6. Does(s, N, C, K)
  BY <1>2, <1>3, <1>4, <1>5 DEF Does, Runs, After, Keeps, i
<1> QED BY <1>1, <1>6

-----------------------------------------------------------------------------

(* The identities keygen writes a file for.                                *)
Keys == Range(Identities)

(* The facts opening and writing files, or another trust, may falsify.     *)
FileFacts == ({"opened", "written"} \X File) \cup {new, builtin, fits}

(* _load_object and load_trust establish their variable and nothing else;  *)
(* loading evidence forgets what was admitted.                             *)
LEMMA LoadDoes ==
    /\ Does(load("trust"), {}, {has("trust")}, {builtin, fits})
    /\ \A n \in {"scientist", "executor", "issuer"} :
          Does(load(n), {}, {has(n)}, {})
    /\ Does(load("experiment"), {}, {has("experiment"), fits}, {own})
    /\ Does(load("intent"), {}, {has("intent")}, {own})
    /\ Does(load("request"), {}, {has("request")}, {own, admitted, proved})
    /\ Does(load("receipt"), {}, {has("receipt")}, {admitted, proved})
    /\ Does(load("result"), {}, {has("result")}, {proved, none})
<1>1. \A n : \A v : /\ ~ Needs(<<"load", n>>, v)
                    /\ v \in {has(n)} => Gives(<<"load", n>>, v)
  BY DEF Needs, Gives, Setters
<1>2. ASSUME NEW n \in {"scientist", "executor", "issuer"}
      PROVE  <<"load", n>> \in Instructions
             /\ \A v : ~ Kills(<<"load", n>>, v)
  BY DEF Instructions, File, Identities, Range, Kills
<1>3. ASSUME NEW n \in {"experiment", "intent"}
      PROVE  <<"load", n>> \in Instructions
             /\ \A v : Kills(<<"load", n>>, v) => v \in {own}
  BY DEF Instructions, File, Kills
<1>4. /\ <<"load", "trust">> \in Instructions
      /\ <<"load", "request">> \in Instructions
      /\ <<"load", "receipt">> \in Instructions
      /\ <<"load", "result">> \in Instructions
  BY DEF Instructions, File
<1>5. \A v : /\ Kills(<<"load", "request">>, v) =>
                    v \in {own, admitted, proved}
             /\ Kills(<<"load", "receipt">>, v) => v \in {admitted, proved}
             /\ Kills(<<"load", "result">>, v) => v \in {proved, none}
  BY DEF Kills
<1>6. Gives(<<"load", "experiment">>, fits)
  BY DEF Gives
<1>7. \A v : Kills(<<"load", "trust">>, v) => v \in {builtin, fits}
  BY DEF Kills
<1>8. Does(load("experiment"), {}, {has("experiment"), fits}, {own})
  BY <1>1, <1>3, <1>6, DoesOne DEF load
<1> QED BY <1>1, <1>2, <1>3, <1>4, <1>5, <1>7, <1>8, DoesOne DEF load

(* _write_json opens, then writes: the file is written when it returns,    *)
(* and its value had to be there before it was opened.                     *)
LEMMA SaveDoes ==
    /\ \A n \in Keys : Does(save(n), {has(n), made, new}, {written(n)},
                            {opened(n), written(n)})
    /\ Does(save("trust"), {has("trust"), made} \cup ({"written"} \X Keys), {},
            {opened("trust"), written("trust"), new})
    /\ Does(save("experiment"), {has("experiment"), fits}, {},
            {opened("experiment"), written("experiment")})
    /\ \A n \in File \ (Keys \cup {"trust", "experiment"}) :
          Does(save(n), {has(n)}, {}, {opened(n), written(n)})
<1>1. \A n \in File : /\ <<"open", n>> \in Instructions
                      /\ <<"fill", n>> \in Instructions
  BY DEF Instructions
<1>2. \A n, v : /\ v = opened(n) => Gives(<<"open", n>>, v)
                /\ v = written(n) => Gives(<<"fill", n>>, v)
                /\ Kills(<<"fill", n>>, v) => v = opened(n)
                /\ Kills(<<"open", n>>, v) =>
                       v = written(n) \/ (n = "trust" /\ v = new)
  BY DEF Gives, Kills
<1>3. \A n : Kills(<<"open", n>>, written(n)) /\ opened(n) # written(n)
  BY DEF Kills, opened, written
<1>4. ASSUME NEW n \in Keys
      PROVE  Does(save(n), {has(n), made, new}, {written(n)},
                  {opened(n), written(n)})
  <2>1. n \in File /\ n # "trust" /\ n # "experiment"
    BY DEF Keys, File, Range, Identities
  <2>2. \A v : Needs(<<"open", n>>, v) => v \in {made, new}
    BY <2>1 DEF Needs
  <2>3. \A v : Needs(<<"fill", n>>, v) => v \in {made, new, has(n), opened(n)}
    BY <2>1 DEF Needs
  <2>4. Does(do("open", n), {has(n), made, new}, {opened(n)}, {written(n)})
    BY <1>1, <1>2, <2>1, <2>2, DoesOne
  <2>5. Does(do("fill", n), {made, new, has(n), opened(n)}, {written(n)},
             {opened(n)})
    BY <1>1, <1>2, <2>1, <2>3, DoesOne
  <2>6. /\ made # written(n) /\ new # written(n) /\ has(n) # written(n)
    BY DEF made, new, has, written
  <2> DEFINE s == do("open", n)
             t == do("fill", n)
  <2> HIDE DEF s, t
  <2>7. /\ Runs(s, {has(n), made, new}) /\ After(s, opened(n))
        /\ \A v : v = written(n) \/ Keeps(s, v)
    BY <2>4 DEF Does, s
  <2>8. \A v \in {made, new, has(n), opened(n)} :
           After(s, v) \/ (v \in {has(n), made, new} /\ Keeps(s, v))
    BY <2>6, <2>7
  <2>9. /\ Runs(s \o t, {has(n), made, new}) /\ After(s \o t, written(n))
        /\ \A v : v = opened(n) \/ (Keeps(s, v) => Keeps(s \o t, v))
    BY <2>5, <2>7, <2>8, Then DEF t
  <2> QED BY <2>7, <2>9 DEF save, Does, s, t
<1>5. Does(save("trust"), {has("trust"), made} \cup ({"written"} \X Keys), {},
           {opened("trust"), written("trust"), new})
  <2> DEFINE N == {has("trust"), made} \cup ({"written"} \X Keys)
             s == do("open", "trust")
             t == do("fill", "trust")
  <2>1. "trust" \in File /\ "trust" \notin Keys
    BY DEF Keys, File, Range, Identities
  <2>2. Does(s, N, {opened("trust")}, {written("trust"), new})
    <3>1. \A v : Needs(<<"open", "trust">>, v) => v \in N
      BY <2>1 DEF Needs, Keys
    <3> HIDE DEF N
    <3> QED BY <1>1, <1>2, <2>1, <3>1, DoesOne
  <2>3. Does(t, N \cup {opened("trust")}, {}, {opened("trust")})
    <3>1. \A v : Needs(<<"fill", "trust">>, v) =>
                  v \in N \cup {opened("trust")}
      BY <2>1 DEF Needs, Keys
    <3> HIDE DEF N
    <3> QED BY <1>1, <1>2, <2>1, <3>1, DoesOne
  <2>4. \A v \in N : v # written("trust") /\ v # new
    BY <2>1 DEF has, made, new, written
  <2> HIDE DEF N, s, t
  <2>5. /\ Runs(s, N) /\ After(s, opened("trust"))
        /\ \A v \in N : Keeps(s, v)
        /\ \A v : v \in {written("trust"), new} \/ Keeps(s, v)
    BY <2>2, <2>4 DEF Does
  <2>6. /\ Runs(s \o t, N)
        /\ \A v : v = opened("trust") \/ (Keeps(s, v) => Keeps(s \o t, v))
    BY <2>3, <2>5, Then
  <2>7. Does(s \o t, N, {}, {opened("trust"), written("trust"), new})
    BY <2>5, <2>6 DEF Does
  <2> QED BY <2>7 DEF save, N, s, t
<1>6. ASSUME NEW n \in File \ (Keys \cup {"trust", "experiment"})
      PROVE  Does(save(n), {has(n)}, {}, {opened(n), written(n)})
  <2> DEFINE s == do("open", n)
             t == do("fill", n)
  <2>1. /\ \A v : ~ Needs(<<"open", n>>, v)
        /\ \A v : Needs(<<"fill", n>>, v) => v \in {has(n), opened(n)}
    BY DEF Needs, Keys
  <2>2. /\ Does(s, {has(n)}, {opened(n)}, {written(n)})
        /\ Does(t, {has(n), opened(n)}, {}, {opened(n)})
    BY <1>1, <1>2, <2>1, DoesOne
  <2>3. has(n) # written(n)
    BY DEF has, written
  <2> HIDE DEF s, t
  <2>4. /\ Runs(s, {has(n)}) /\ After(s, opened(n))
        /\ \A v : v = written(n) \/ Keeps(s, v)
    BY <2>2 DEF Does
  <2>5. /\ Runs(s \o t, {has(n)})
        /\ \A v : v = opened(n) \/ (Keeps(s, v) => Keeps(s \o t, v))
    BY <2>2, <2>3, <2>4, Then
  <2>6. Does(s \o t, {has(n)}, {}, {opened(n), written(n)})
    BY <2>4, <2>5 DEF Does
  <2> QED BY <2>6 DEF save, s, t
<1>7. Does(save("experiment"), {has("experiment"), fits}, {},
           {opened("experiment"), written("experiment")})
  <2> DEFINE n == "experiment"
             N == {has(n), fits}
             s == do("open", n)
             t == do("fill", n)
  <2>1. n \in File /\ n \notin Keys /\ n # "trust"
    BY DEF Keys, File, Range, Identities
  <2>2. /\ \A v : ~ Needs(<<"open", n>>, v)
        /\ \A v : Needs(<<"fill", n>>, v) => v \in {has(n), opened(n), fits}
    BY <2>1 DEF Needs, Keys
  <2>3. /\ Does(s, N, {opened(n)}, {written(n)})
        /\ Does(t, {has(n), opened(n), fits}, {}, {opened(n)})
    <3> HIDE DEF N, n
    <3> QED BY <1>1, <1>2, <2>1, <2>2, DoesOne DEF n
  <2>4. \A v \in N : v # written(n)
    BY DEF has, written, fits
  <2> HIDE DEF s, t
  <2>5. /\ Runs(s, N) /\ After(s, opened(n))
        /\ \A v : v = written(n) \/ Keeps(s, v)
    BY <2>3 DEF Does
  <2>6. /\ Runs(s \o t, N)
        /\ \A v : v = opened(n) \/ (Keeps(s, v) => Keeps(s \o t, v))
    BY <2>3, <2>4, <2>5, Then
  <2>7. Does(s \o t, N, {}, {opened(n), written(n)})
    BY <2>5, <2>6 DEF Does
  <2> QED BY <2>7 DEF save, s, t
<1> QED BY <1>4, <1>5, <1>6, <1>7

(* Two parts in a row.                                                     *)
LEMMA Compose ==
    ASSUME NEW s, NEW N, NEW C, NEW K, Does(s, N, C, K),
           NEW t, NEW M, NEW D, NEW L, Does(t, M, D, L),
           \A v \in M : v \in C \/ (v \in N /\ v \notin K),
           NEW E, \A v \in E : v \in D \/ (v \in C /\ v \notin L),
           NEW J, \A v : v \in K \/ v \in L => v \in J
    PROVE  Does(s \o t, N, E, J)
<1>1. /\ Runs(s, N)
      /\ \A v \in C : After(s, v)
      /\ \A v : v \in K \/ Keeps(s, v)
  BY DEF Does
<1>2. \A v \in M : After(s, v) \/ (v \in N /\ Keeps(s, v))
  BY <1>1
<1>3. /\ Runs(s \o t, N)
      /\ \A v \in D : After(s \o t, v)
      /\ \A v : v \in L \/ (After(s, v) => After(s \o t, v))
      /\ \A v : v \in L \/ (Keeps(s, v) => Keeps(s \o t, v))
  BY <1>1, <1>2, Then
<1>4. \A v \in E : After(s \o t, v)
  BY <1>1, <1>3
<1>5. \A v : v \in J \/ Keeps(s \o t, v)
  BY <1>1, <1>3
<1> QED BY <1>3, <1>4, <1>5 DEF Does

(* What a part promises may be promised of it in fewer words.              *)
LEMMA Weaken ==
    ASSUME NEW s, NEW N, NEW C, NEW K, Does(s, N, C, K),
           NEW M, \A v \in N : v \in M,
           NEW D, \A v \in D : v \in C,
           NEW L, \A v \in K : v \in L
    PROVE  Does(s, M, D, L)
BY DEF Does, Runs

(* The fixed instructions and the key generations are instructions.        *)
LEMMA InstructionsOf ==
    /\ \A i \in Keys : <<"generate", i>> \in Instructions
    /\ \A i \in Fixed : i \in Instructions
BY DEF Instructions, Keys

(* The facts about admitted evidence a new request or receipt forgets.     *)
Evidence == {admitted, proved}

(* The contract of every operation on memory, on the executor or on the    *)
(* quantum processor.                                                      *)
LEMMA StepsDo ==
    /\ Does(do("require new", "trust"), {}, {vetted}, {})
    /\ Does(do("mkdir", "trust"), {}, {made, new}, {})
    /\ \A i \in Keys : Does(do("generate", i), {made}, {has(i)}, {})
    /\ Does(do("bundle", "trust"), {vetted} \cup ({"has"} \X Keys),
            {has("trust"), builtin}, {builtin, fits})
    /\ Does(do("bell", "experiment"), {builtin}, {has("experiment"), fits},
            {})
    /\ Does(do("accelerate", "trust"), {has("trust")}, {has("trust")},
            {builtin, fits})
    /\ Does(do("workload", "experiment"), {}, {has("experiment"), fits}, {})
    /\ Does(do("freeze", "intent"), {has("trust"), has("experiment")},
            {has("intent")}, {})
    /\ Does(do("sign", "request"), {has("intent"), has("scientist")},
            {has("request")}, Evidence)
    /\ Does(do("issue", "header"), {has("issuer"), has("request")},
            {has("header")}, {})
    /\ Does(do("attest", "receipt"), {has("header")}, {has("receipt")},
            Evidence)
    /\ Does(do("preflight", "adapter"), {}, {}, {})
    /\ Does(do("construct", "adapter"), {}, {}, {})
    /\ Does(do("admit", "request"),
            {has("trust"), has("request"), has("receipt")}, {admitted}, {})
    /\ Does(do("run", "result"), {admitted, has("executor")},
            {has("result"), proved}, {proved, none})
    /\ Does(do("inspect", "receipt"), {}, {}, {})
    /\ Does(do("verify", "receipt"), {}, {}, {})
    /\ Does(do("verify result", "result"), {has("request"), has("result")},
            {proved}, {})
    /\ Does(do("try altered", "request"), {own, has("request")}, {}, {})
    /\ Does(do("try replay", "request"), {admitted}, {}, {})
    /\ Does(do("summarize", "summary"), {}, {has("summary")}, {})
<1>1. Does(do("require new", "trust"), {}, {vetted}, {})
  <2>1. \A v : Needs(<<"require new", "trust">>, v) => v \in {}
    BY DEF Needs, Keys, File
  <2>2. \A v \in {vetted} : Gives(<<"require new", "trust">>, v)
    BY DEF Gives, Setters
  <2>3. \A v : Kills(<<"require new", "trust">>, v) => v \in {}
    BY DEF Kills, Evidence
  <2>4. <<"require new", "trust">> \in Instructions
    BY InstructionsOf DEF Fixed
  <2> QED BY <2>1, <2>2, <2>3, <2>4, DoesOne
<1>2. Does(do("mkdir", "trust"), {}, {made, new}, {})
  <2>1. \A v : Needs(<<"mkdir", "trust">>, v) => v \in {}
    BY DEF Needs, Keys, File
  <2>2. \A v \in {made, new} : Gives(<<"mkdir", "trust">>, v)
    BY DEF Gives, Setters
  <2>3. \A v : Kills(<<"mkdir", "trust">>, v) => v \in {}
    BY DEF Kills, Evidence
  <2>4. <<"mkdir", "trust">> \in Instructions
    BY InstructionsOf DEF Fixed
  <2> QED BY <2>1, <2>2, <2>3, <2>4, DoesOne
<1>3. \A i \in Keys : Does(do("generate", i), {made}, {has(i)}, {})
  <2> SUFFICES ASSUME NEW i \in Keys
               PROVE  Does(do("generate", i), {made}, {has(i)}, {})
    OBVIOUS
  <2>1. \A v : Needs(<<"generate", i>>, v) => v \in {made}
    BY DEF Needs, Keys, File
  <2>2. \A v \in {has(i)} : Gives(<<"generate", i>>, v)
    BY DEF Gives, Setters
  <2>3. \A v : Kills(<<"generate", i>>, v) => v \in {}
    BY DEF Kills, Evidence
  <2>4. <<"generate", i>> \in Instructions
    BY InstructionsOf DEF Fixed
  <2> QED BY <2>1, <2>2, <2>3, <2>4, DoesOne
<1>4. Does(do("bundle", "trust"), {vetted} \cup ({"has"} \X Keys),
           {has("trust"), builtin}, {builtin, fits})
  <2>1. \A v : Needs(<<"bundle", "trust">>, v) =>
                v \in {vetted} \cup ({"has"} \X Keys)
    BY DEF Needs, Keys, File
  <2>2. \A v \in {has("trust"), builtin} : Gives(<<"bundle", "trust">>, v)
    BY DEF Gives, Setters
  <2>3. \A v : Kills(<<"bundle", "trust">>, v) => v \in {builtin, fits}
    BY DEF Kills, Evidence
  <2>4. <<"bundle", "trust">> \in Instructions
    BY InstructionsOf DEF Fixed
  <2> QED BY <2>1, <2>2, <2>3, <2>4, DoesOne
<1>5. Does(do("bell", "experiment"), {builtin}, {has("experiment"), fits}, {})
  <2>1. \A v : Needs(<<"bell", "experiment">>, v) => v \in {builtin}
    BY DEF Needs, Keys, File
  <2>2. \A v \in {has("experiment"), fits} :
           Gives(<<"bell", "experiment">>, v)
    BY DEF Gives, Setters
  <2>3. \A v : Kills(<<"bell", "experiment">>, v) => v \in {}
    BY DEF Kills, Evidence
  <2>4. <<"bell", "experiment">> \in Instructions
    BY InstructionsOf DEF Fixed
  <2> QED BY <2>1, <2>2, <2>3, <2>4, DoesOne
<1>6. Does(do("accelerate", "trust"), {has("trust")}, {has("trust")},
           {builtin, fits})
  <2>1. \A v : Needs(<<"accelerate", "trust">>, v) => v \in {has("trust")}
    BY DEF Needs, Keys, File
  <2>2. \A v \in {has("trust")} : Gives(<<"accelerate", "trust">>, v)
    BY DEF Gives, Setters
  <2>3. \A v : Kills(<<"accelerate", "trust">>, v) => v \in {builtin, fits}
    BY DEF Kills, Evidence
  <2>4. <<"accelerate", "trust">> \in Instructions
    BY InstructionsOf DEF Fixed
  <2> QED BY <2>1, <2>2, <2>3, <2>4, DoesOne
<1>7. Does(do("workload", "experiment"), {}, {has("experiment"), fits}, {})
  <2>1. \A v : Needs(<<"workload", "experiment">>, v) => v \in {}
    BY DEF Needs, Keys, File
  <2>2. \A v \in {has("experiment"), fits} :
           Gives(<<"workload", "experiment">>, v)
    BY DEF Gives, Setters
  <2>3. \A v : Kills(<<"workload", "experiment">>, v) => v \in {}
    BY DEF Kills, Evidence
  <2>4. <<"workload", "experiment">> \in Instructions
    BY InstructionsOf DEF Fixed
  <2> QED BY <2>1, <2>2, <2>3, <2>4, DoesOne
<1>8. Does(do("freeze", "intent"), {has("trust"), has("experiment")},
           {has("intent")}, {})
  <2>1. \A v : Needs(<<"freeze", "intent">>, v) =>
                v \in {has("trust"), has("experiment")}
    BY DEF Needs, Keys, File
  <2>2. \A v \in {has("intent")} : Gives(<<"freeze", "intent">>, v)
    BY DEF Gives, Setters
  <2>3. \A v : Kills(<<"freeze", "intent">>, v) => v \in {}
    BY DEF Kills, Evidence
  <2>4. <<"freeze", "intent">> \in Instructions
    BY InstructionsOf DEF Fixed
  <2> QED BY <2>1, <2>2, <2>3, <2>4, DoesOne
<1>9. Does(do("sign", "request"), {has("intent"), has("scientist")},
            {has("request")}, Evidence)
  <2>1. \A v : Needs(<<"sign", "request">>, v) =>
                v \in {has("intent"), has("scientist")}
    BY DEF Needs, Keys, File
  <2>2. \A v \in {has("request")} : Gives(<<"sign", "request">>, v)
    BY DEF Gives, Setters
  <2>3. \A v : Kills(<<"sign", "request">>, v) => v \in Evidence
    BY DEF Kills, Evidence
  <2>4. <<"sign", "request">> \in Instructions
    BY InstructionsOf DEF Fixed
  <2> QED BY <2>1, <2>2, <2>3, <2>4, DoesOne
<1>10. Does(do("issue", "header"), {has("issuer"), has("request")},
            {has("header")}, {})
  <2>1. \A v : Needs(<<"issue", "header">>, v) =>
                v \in {has("issuer"), has("request")}
    BY DEF Needs, Keys, File
  <2>2. \A v \in {has("header")} : Gives(<<"issue", "header">>, v)
    BY DEF Gives, Setters
  <2>3. \A v : Kills(<<"issue", "header">>, v) => v \in {}
    BY DEF Kills, Evidence
  <2>4. <<"issue", "header">> \in Instructions
    BY InstructionsOf DEF Fixed
  <2> QED BY <2>1, <2>2, <2>3, <2>4, DoesOne
<1>11. Does(do("attest", "receipt"), {has("header")}, {has("receipt")},
            Evidence)
  <2>1. \A v : Needs(<<"attest", "receipt">>, v) => v \in {has("header")}
    BY DEF Needs, Keys, File
  <2>2. \A v \in {has("receipt")} : Gives(<<"attest", "receipt">>, v)
    BY DEF Gives, Setters
  <2>3. \A v : Kills(<<"attest", "receipt">>, v) => v \in Evidence
    BY DEF Kills, Evidence
  <2>4. <<"attest", "receipt">> \in Instructions
    BY InstructionsOf DEF Fixed
  <2> QED BY <2>1, <2>2, <2>3, <2>4, DoesOne
<1>12. Does(do("preflight", "adapter"), {}, {}, {})
  <2>1. \A v : Needs(<<"preflight", "adapter">>, v) => v \in {}
    BY DEF Needs, Keys, File
  <2>2. \A v \in {} : Gives(<<"preflight", "adapter">>, v)
    BY DEF Gives, Setters
  <2>3. \A v : Kills(<<"preflight", "adapter">>, v) => v \in {}
    BY DEF Kills, Evidence
  <2>4. <<"preflight", "adapter">> \in Instructions
    BY InstructionsOf DEF Fixed
  <2> QED BY <2>1, <2>2, <2>3, <2>4, DoesOne
<1>13. Does(do("construct", "adapter"), {}, {}, {})
  <2>1. \A v : Needs(<<"construct", "adapter">>, v) => v \in {}
    BY DEF Needs, Keys, File
  <2>2. \A v \in {} : Gives(<<"construct", "adapter">>, v)
    BY DEF Gives, Setters
  <2>3. \A v : Kills(<<"construct", "adapter">>, v) => v \in {}
    BY DEF Kills, Evidence
  <2>4. <<"construct", "adapter">> \in Instructions
    BY InstructionsOf DEF Fixed
  <2> QED BY <2>1, <2>2, <2>3, <2>4, DoesOne
<1>14. Does(do("admit", "request"),
            {has("trust"), has("request"), has("receipt")}, {admitted}, {})
  <2>1. \A v : Needs(<<"admit", "request">>, v) =>
                v \in {has("trust"), has("request"), has("receipt")}
    BY DEF Needs, Keys, File
  <2>2. \A v \in {admitted} : Gives(<<"admit", "request">>, v)
    BY DEF Gives, Setters
  <2>3. \A v : Kills(<<"admit", "request">>, v) => v \in {}
    BY DEF Kills, Evidence
  <2>4. <<"admit", "request">> \in Instructions
    BY InstructionsOf DEF Fixed
  <2> QED BY <2>1, <2>2, <2>3, <2>4, DoesOne
<1>15. Does(do("run", "result"), {admitted, has("executor")},
            {has("result"), proved}, {proved, none})
  <2>1. \A v : Needs(<<"run", "result">>, v) =>
                v \in {admitted, has("executor")}
    BY DEF Needs, Keys, File
  <2>2. \A v \in {has("result"), proved} : Gives(<<"run", "result">>, v)
    BY DEF Gives, Setters
  <2>3. \A v : Kills(<<"run", "result">>, v) => v \in {proved, none}
    BY DEF Kills, Evidence
  <2>4. <<"run", "result">> \in Instructions
    BY InstructionsOf DEF Fixed
  <2> QED BY <2>1, <2>2, <2>3, <2>4, DoesOne
<1>16. Does(do("inspect", "receipt"), {}, {}, {})
  <2>1. \A v : Needs(<<"inspect", "receipt">>, v) => v \in {}
    BY DEF Needs, Keys, File
  <2>2. \A v \in {} : Gives(<<"inspect", "receipt">>, v)
    BY DEF Gives, Setters
  <2>3. \A v : Kills(<<"inspect", "receipt">>, v) => v \in {}
    BY DEF Kills, Evidence
  <2>4. <<"inspect", "receipt">> \in Instructions
    BY InstructionsOf DEF Fixed
  <2> QED BY <2>1, <2>2, <2>3, <2>4, DoesOne
<1>17. Does(do("verify", "receipt"), {}, {}, {})
  <2>1. \A v : Needs(<<"verify", "receipt">>, v) => v \in {}
    BY DEF Needs, Keys, File
  <2>2. \A v \in {} : Gives(<<"verify", "receipt">>, v)
    BY DEF Gives, Setters
  <2>3. \A v : Kills(<<"verify", "receipt">>, v) => v \in {}
    BY DEF Kills, Evidence
  <2>4. <<"verify", "receipt">> \in Instructions
    BY InstructionsOf DEF Fixed
  <2> QED BY <2>1, <2>2, <2>3, <2>4, DoesOne
<1>18. Does(do("verify result", "result"), {has("request"), has("result")},
            {proved}, {})
  <2>1. \A v : Needs(<<"verify result", "result">>, v) =>
                v \in {has("request"), has("result")}
    BY DEF Needs, Keys, File
  <2>2. \A v \in {proved} : Gives(<<"verify result", "result">>, v)
    BY DEF Gives, Setters
  <2>3. \A v : Kills(<<"verify result", "result">>, v) => v \in {}
    BY DEF Kills, Evidence
  <2>4. <<"verify result", "result">> \in Instructions
    BY InstructionsOf DEF Fixed
  <2> QED BY <2>1, <2>2, <2>3, <2>4, DoesOne
<1>19. Does(do("try altered", "request"), {own, has("request")}, {}, {})
  <2>1. \A v : Needs(<<"try altered", "request">>, v) =>
                v \in {own, has("request")}
    BY DEF Needs, Keys, File
  <2>2. \A v \in {} : Gives(<<"try altered", "request">>, v)
    BY DEF Gives, Setters
  <2>3. \A v : Kills(<<"try altered", "request">>, v) => v \in {}
    BY DEF Kills, Evidence
  <2>4. <<"try altered", "request">> \in Instructions
    BY InstructionsOf DEF Fixed
  <2> QED BY <2>1, <2>2, <2>3, <2>4, DoesOne
<1>20. Does(do("try replay", "request"), {admitted}, {}, {})
  <2>1. \A v : Needs(<<"try replay", "request">>, v) => v \in {admitted}
    BY DEF Needs, Keys, File
  <2>2. \A v \in {} : Gives(<<"try replay", "request">>, v)
    BY DEF Gives, Setters
  <2>3. \A v : Kills(<<"try replay", "request">>, v) => v \in {}
    BY DEF Kills, Evidence
  <2>4. <<"try replay", "request">> \in Instructions
    BY InstructionsOf DEF Fixed
  <2> QED BY <2>1, <2>2, <2>3, <2>4, DoesOne
<1>21. Does(do("summarize", "summary"), {}, {has("summary")}, {})
  <2>1. \A v : Needs(<<"summarize", "summary">>, v) => v \in {}
    BY DEF Needs, Keys, File
  <2>2. \A v \in {has("summary")} : Gives(<<"summarize", "summary">>, v)
    BY DEF Gives, Setters
  <2>3. \A v : Kills(<<"summarize", "summary">>, v) => v \in {}
    BY DEF Kills, Evidence
  <2>4. <<"summarize", "summary">> \in Instructions
    BY InstructionsOf DEF Fixed
  <2> QED BY <2>1, <2>2, <2>3, <2>4, DoesOne
<1> QED BY <1>1, <1>2, <1>3, <1>4, <1>5, <1>6, <1>7, <1>8, <1>9, <1>10,
      <1>11, <1>12, <1>13, <1>14, <1>15, <1>16, <1>17, <1>18, <1>19, <1>20,
      <1>21

-----------------------------------------------------------------------------

(* The keys in I generated and written; what writing them may falsify.     *)
Created(I) == {"has", "written"} \X I

Spoiled(I) == {"opened", "written"} \X I

(* create of provision: a key is generated, then saved.                    *)
LEMMA CreateDoes ==
    ASSUME NEW i \in Keys
    PROVE  Does(create(i), {made, new}, Created({i}), Spoiled({i}))
<1>1. Does(do("generate", i), {made}, {has(i)}, {})
  BY StepsDo
<1>2. Does(save(i), {has(i), made, new}, {written(i)},
           {opened(i), written(i)})
  BY SaveDoes
<1>3. /\ Created({i}) = {has(i), written(i)}
      /\ Spoiled({i}) = {opened(i), written(i)}
      /\ has(i) \notin {opened(i), written(i)}
  BY DEF Created, Spoiled, has, written, opened
<1>4. Does(do("generate", i), {made, new}, {has(i)}, {})
  BY <1>1, Weaken
<1> HIDE DEF Created, Spoiled
<1>5. Does(do("generate", i) \o save(i), {made, new}, {has(i), written(i)},
           {opened(i), written(i)})
  BY <1>2, <1>3, <1>4, Compose
<1> QED BY <1>3, <1>5 DEF create

(* One more identity of provision's loop.                                  *)
LEMMA CreateNext ==
    ASSUME NEW s, NEW I,
           Does(s, {made, new}, Created(I), Spoiled(I)),
           NEW i \in Keys, i \notin I
    PROVE  Does(s \o create(i), {made, new}, Created(I \cup {i}),
                Spoiled(I \cup {i}))
<1>1. \A v \in {made, new} : v \notin Spoiled(I)
  BY DEF Spoiled, made, new
<1>2. \A v \in Created(I \cup {i}) :
         v \in Created({i}) \/ (v \in Created(I) /\ v \notin Spoiled({i}))
  BY DEF Created, Spoiled
<1>3. \A v : v \in Spoiled(I) \/ v \in Spoiled({i}) =>
              v \in Spoiled(I \cup {i})
  BY DEF Spoiled
<1>4. Does(create(i), {made, new}, Created({i}), Spoiled({i}))
  BY CreateDoes
<1> DEFINE N == {made, new}
           C == Created(I)
           K == Spoiled(I)
           D == Created({i})
           L == Spoiled({i})
           E == Created(I \cup {i})
           J == Spoiled(I \cup {i})
<1>5. \A v \in N : v \in C \/ (v \in N /\ v \notin K)
  BY <1>1
<1> HIDE DEF N, C, K, D, L, E, J
<1>6. Does(s, N, C, K)
  BY DEF N, C, K
<1>7. Does(create(i), N, D, L)
  BY <1>4 DEF N, D, L
<1>8. \A v \in E : v \in D \/ (v \in C /\ v \notin L)
  BY <1>2 DEF E, D, C, L
<1>9. \A v : v \in K \/ v \in L => v \in J
  BY <1>3 DEF K, L, J
<1>10. Does(s \o create(i), N, E, J)
  BY <1>5, <1>6, <1>7, <1>8, <1>9, Compose
<1> QED BY <1>10 DEF N, E, J

(* The five identities of provision, in the order of the code: every key   *)
(* is in memory and on disk before the trust bundle is made of them.       *)
LEMMA GenerateKeysDoes ==
    Does(generate_keys, {made, new}, Created(Keys), Spoiled(Keys))
<1> DEFINE a == create("verifier-1")
           b == a \o create("verifier-2")
           c == b \o create("verifier-3")
           d == c \o create("scientist")
           e == d \o create("executor")
<1>1. Keys = {"verifier-1", "verifier-2", "verifier-3", "scientist",
              "executor"}
  BY DEF Keys, Range, Identities
<1> DEFINE A == {"verifier-1"}
           B == A \cup {"verifier-2"}
           C == B \cup {"verifier-3"}
           D == C \cup {"scientist"}
           E == D \cup {"executor"}
<1>2. E = Keys
  BY <1>1
<1>3. Does(a, {made, new}, Created(A), Spoiled(A))
  BY <1>1, CreateDoes
<1>4. /\ "verifier-2" \notin A /\ "verifier-2" \in Keys
      /\ "verifier-3" \notin B /\ "verifier-3" \in Keys
      /\ "scientist" \notin C /\ "scientist" \in Keys
      /\ "executor" \notin D /\ "executor" \in Keys
  BY <1>1
<1> HIDE DEF a, A
<1>5. Does(b, {made, new}, Created(B), Spoiled(B))
  BY <1>3, <1>4, CreateNext
<1> HIDE DEF b, B
<1>6. Does(c, {made, new}, Created(C), Spoiled(C))
  BY <1>4, <1>5, CreateNext
<1> HIDE DEF c, C
<1>7. Does(d, {made, new}, Created(D), Spoiled(D))
  BY <1>4, <1>6, CreateNext
<1> HIDE DEF d, D
<1>8. Does(e, {made, new}, Created(E), Spoiled(E))
  BY <1>4, <1>7, CreateNext
<1>9. generate_keys = e
  BY DEF generate_keys, a, b, c, d
<1> QED BY <1>2, <1>8, <1>9

(* What a provisioned gateway has ready, and what provisioning used up.    *)
Provisioned == {made, has("trust"), has("experiment")}
               \cup ({"written"} \X Keys)

(* provision: trust/ is made, the trust bundle follows the keys, and the   *)
(* Bell experiment is written last.                                        *)
LEMMA ProvisionDoes == Does(provision, {}, Provisioned, FileFacts)
<1> DEFINE a == do("require new", "trust")
           b == a \o do("mkdir", "trust")
           c == b \o generate_keys
           d == c \o do("bundle", "trust")
           e == d \o save("trust")
           f == e \o do("bell", "experiment")
           g == f \o save("experiment")
           W == {"written"} \X Keys
           F == {"opened", "written"} \X File \cup {new, builtin, fits}
           P == Provisioned \cup {fits}
<1>1. Does(a, {}, {vetted}, {})
  BY StepsDo
<1> HIDE DEF a
<1>2. Does(b, {}, {made, new, vetted}, {})
  <2>1. Does(do("mkdir", "trust"), {}, {made, new}, {})
    BY StepsDo
  <2> QED BY <1>1, <2>1, Compose
<1> HIDE DEF b
<1>3. Does(c, {}, {made, vetted} \cup Created(Keys), Spoiled(Keys))
  <2> DEFINE S == {made, vetted} \cup Created(Keys)
             M == {made, new}
             C == {made, new, vetted}
  <2>1. \A v \in S :
           v \in Created(Keys) \/ (v \in C /\ v \notin Spoiled(Keys))
    BY DEF Spoiled, made, vetted
  <2>2. \A v \in M : v \in C
    OBVIOUS
  <2> HIDE DEF c, S, M, C
  <2>3. Does(b, {}, C, {})
    BY <1>2 DEF C
  <2>4. Does(generate_keys, M, Created(Keys), Spoiled(Keys))
    BY GenerateKeysDoes DEF M
  <2>5. Does(c, {}, S, Spoiled(Keys))
    BY <2>1, <2>2, <2>3, <2>4, Compose DEF c
  <2> QED BY <2>5 DEF S
<1> HIDE DEF c
<1> DEFINE S == {made, has("trust"), builtin} \cup W
<1>4. Does(d, {}, S, F)
  <2> DEFINE R == {made, vetted} \cup Created(Keys)
             H == {vetted} \cup ({"has"} \X Keys)
             D == {has("trust"), builtin}
             L == {builtin, fits}
  <2>1. \A v \in S : v \in D \/ (v \in R /\ v \notin L)
    BY DEF Created, made, builtin, fits
  <2>2. \A v \in H : v \in R \/ (v \in {} /\ v \notin Spoiled(Keys))
    BY DEF Created
  <2>3. \A v : v \in Spoiled(Keys) \/ v \in L => v \in F
    BY DEF Spoiled, Keys, File
  <2>4. Does(do("bundle", "trust"), H, D, L)
    BY StepsDo
  <2> HIDE DEF S, R, H, F, D, L
  <2>5. Does(c, {}, R, Spoiled(Keys))
    BY <1>3 DEF R
  <2> QED BY <2>1, <2>2, <2>3, <2>4, <2>5, Compose
<1> HIDE DEF d
<1>5. Does(e, {}, S, F)
  <2> DEFINE M == {has("trust"), made} \cup W
             L == {opened("trust"), written("trust"), new}
  <2>1. "trust" \notin Keys /\ "trust" \in File
    BY DEF Keys, File, Range, Identities
  <2>2. \A v \in S : v \in S /\ v \notin L
    BY <2>1 DEF has, made, new, opened, written, builtin
  <2>3. \A v \in M : v \in S
    OBVIOUS
  <2>4. \A v : v \in F \/ v \in L => v \in F
    BY <2>1 DEF opened, written
  <2>5. Does(save("trust"), M, {}, L)
    BY SaveDoes
  <2> HIDE DEF S, M, L, F
  <2> QED BY <1>4, <2>2, <2>3, <2>4, <2>5, Compose
<1> HIDE DEF e
<1>6. Does(f, {}, P, F)
  <2> DEFINE D == {has("experiment"), fits}
  <2>1. \A v \in P : v \in D \/ v \in S
    BY DEF Provisioned
  <2>2. Does(do("bell", "experiment"), {builtin}, D, {})
    BY StepsDo
  <2>3. \A v \in {builtin} : v \in S
    OBVIOUS
  <2> HIDE DEF S, F, D, P
  <2> QED BY <1>5, <2>1, <2>2, <2>3, Compose
<1> HIDE DEF f
<1>7. Does(g, {}, Provisioned, F)
  <2> DEFINE n == "experiment"
             L == {opened(n), written(n)}
             M == {has(n), fits}
  <2>1. n \notin Keys /\ n \in File
    BY DEF Keys, File, Range, Identities
  <2>2. \A v \in Provisioned : v \in P /\ v \notin L
    BY <2>1 DEF Provisioned, has, made, opened, written
  <2>3. \A v : v \in F \/ v \in L => v \in F
    BY <2>1 DEF opened, written
  <2>4. Does(save(n), M, {}, L)
    BY SaveDoes
  <2>5. \A v \in M : v \in P
    BY DEF Provisioned
  <2> HIDE DEF L, F, M, P
  <2> QED BY <1>6, <2>2, <2>3, <2>4, <2>5, Compose
<1>8. provision = g
  BY DEF provision, a, b, c, d, e, f
<1> QED BY <1>7, <1>8 DEF FileFacts

(* The accelerated workspace: the policy is changed and trust.json written *)
(* again by the process that made trust/.                                  *)
LEMMA ProvisionAcceleratedDoes ==
    Does(provision_accelerated, {}, Provisioned, FileFacts)
<1> DEFINE a == provision \o do("accelerate", "trust")
           b == a \o save("trust")
           M == {has("trust"), made} \cup ({"written"} \X Keys)
           L == {opened("trust"), written("trust"), new}
<1> DEFINE T == {builtin, fits}
<1>1. Does(do("accelerate", "trust"), {has("trust")}, {has("trust")}, T)
  BY StepsDo
<1>2. /\ has("trust") \in Provisioned
      /\ \A v \in Provisioned : v \notin T
      /\ \A v : v \in FileFacts \/ v \in T => v \in FileFacts
  <2>1. \A v \in Provisioned : v \notin T
    BY DEF Provisioned, has, made, builtin, fits
  <2> QED BY <2>1 DEF Provisioned, FileFacts
<1> HIDE DEF T
<1>3. Does(a, {}, Provisioned, FileFacts)
  BY <1>1, <1>2, ProvisionDoes, Compose
<1> HIDE DEF a
<1>4. Does(save("trust"), M, {}, L)
  BY SaveDoes
<1>5. "trust" \in File /\ "trust" \notin Keys
  BY DEF Keys, File, Range, Identities
<1>6. /\ \A v \in M : v \in Provisioned
      /\ \A v \in Provisioned : v \notin L
      /\ \A v : v \in FileFacts \/ v \in L => v \in FileFacts
  <2>1. \A v \in M : v \in Provisioned
    BY DEF Provisioned
  <2>2. \A v \in Provisioned : v \notin L
    BY <1>5 DEF Provisioned, has, made, opened, written, new
  <2>3. \A v : v \in FileFacts \/ v \in L => v \in FileFacts
    BY <1>5 DEF FileFacts, opened, written
  <2> QED BY <2>1, <2>2, <2>3
<1> HIDE DEF M, L
<1>7. Does(b, {}, Provisioned, FileFacts)
  BY <1>3, <1>4, <1>6, Compose
<1> QED BY <1>7 DEF provision_accelerated, a, b

(* The request is made of a frozen intent and the scientist's key.         *)
LEMMA SignDoes ==
    Does(sign_intent, {has("intent")}, {has("request")}, Evidence)
<1>1. Does(load("scientist"), {}, {has("scientist")}, {})
  BY LoadDoes
<1>2. Does(load("scientist"), {has("intent")}, {has("scientist")}, {})
  BY <1>1, Weaken
<1>3. Does(do("sign", "request"), {has("intent"), has("scientist")},
           {has("request")}, Evidence)
  BY StepsDo
<1>4. Does(load("scientist") \o do("sign", "request"), {has("intent")},
           {has("request")}, Evidence)
  BY <1>2, <1>3, Compose
<1> QED BY <1>4 DEF sign_intent

(* authorize_processes: the header, then the votes; a receipt at the end.  *)
LEMMA AuthorizeDoes ==
    Does(authorize_processes, {has("request")}, {has("receipt")}, Evidence)
<1> DEFINE a == load("issuer") \o do("issue", "header")
           b == a \o do("attest", "receipt")
           N == {has("request")}
<1>1. Does(load("issuer"), {}, {has("issuer")}, {})
  BY LoadDoes
<1>2. Does(do("issue", "header"), {has("issuer"), has("request")},
           {has("header")}, {})
  BY StepsDo
<1>3. Does(a, N, {has("header")}, {})
  <2>1. Does(load("issuer"), N, {has("issuer")}, {})
    BY <1>1, Weaken
  <2>2. \A v \in {has("issuer"), has("request")} :
           v \in {has("issuer")} \/ (v \in N /\ v \notin {})
    OBVIOUS
  <2> DEFINE M == {has("issuer"), has("request")}
             C == {has("issuer")}
             D == {has("header")}
  <2> HIDE DEF N, M, C, D
  <2>3. Does(do("issue", "header"), M, D, {}) /\ Does(load("issuer"), N, C, {})
    BY <1>2, <2>1 DEF M, C, D
  <2>4. Does(a, N, D, {})
    BY <2>2, <2>3, Compose DEF M, C
  <2> QED BY <2>4 DEF D
<1> HIDE DEF a, N
<1>4. Does(do("attest", "receipt"), {has("header")}, {has("receipt")},
           Evidence)
  BY StepsDo
<1>5. Does(b, N, {has("receipt")}, Evidence)
  BY <1>3, <1>4, Compose
<1> QED BY <1>5 DEF authorize_processes, a, b, N

(* The executor of an executing command is built from its trust.           *)
LEMMA ExecutorDoes == Does(executor, {}, {has("executor")}, {})
<1>1. Does(load("executor"), {}, {has("executor")}, {})
  BY LoadDoes
<1>2. Does(do("construct", "adapter"), {}, {}, {})
  BY StepsDo
<1>3. Does(load("executor") \o do("construct", "adapter"), {},
           {has("executor")}, {})
  BY <1>1, <1>2, Compose
<1> QED BY <1>3 DEF executor

(* What execute() is called with: evidence, trust and the result key.      *)
Executable == {has("trust"), has("executor"), has("request"), has("receipt")}

(* authorize_and_run: nothing runs before admission, and the result is the *)
(* one this command's run returned.                                        *)
LEMMA ExecuteDoes ==
    Does(execute, Executable, {admitted, proved, has("result")},
         {proved, none})
<1> DEFINE N == {has("trust"), has("request"), has("receipt")}
           M == {admitted, has("executor")}
           E == {admitted, proved, has("result")}
<1>1. Does(do("admit", "request"), N, {admitted}, {})
  BY StepsDo
<1>2. Does(do("run", "result"), M, {has("result"), proved}, {proved, none})
  BY StepsDo
<1>3. /\ \A v \in E : \/ v \in {has("result"), proved}
                      \/ v \in {admitted} /\ v \notin {proved, none}
      /\ \A v \in M : \/ v \in {admitted}
                      \/ v \in Executable /\ v \notin {}
      /\ \A v \in N : v \in Executable
  BY DEF admitted, proved, none, Executable
<1> HIDE DEF N, E, M
<1>4. Does(do("admit", "request"), Executable, {admitted}, {})
  BY <1>1, <1>3, Weaken
<1>5. Does(do("admit", "request") \o do("run", "result"), Executable, E,
           {proved, none})
  BY <1>2, <1>3, <1>4, Compose
<1> QED BY <1>5 DEF execute, E

-----------------------------------------------------------------------------
(* The facts that last, about the local variables of a command; those that *)
(* a program makes false on its way, if it presents no result of its own;  *)
(* and all of them.                                                        *)
Lasting == ({"has"} \X Local) \cup Evidence \cup {fits}

(* What a command without a result may falsify.                            *)
Modest == FileFacts \cup Evidence \cup {own}

(* What a demo may falsify.                                                *)
Passing == FileFacts \cup Evidence \cup {none}

(* What any command may falsify.                                           *)
Worn == Passing \cup Modest

(* The facts the three sets tell apart.                                    *)
LEMMA FactsDiffer ==
    /\ own \in Blank /\ own \notin Passing /\ own \in Modest
    /\ none \in Blank /\ none \notin Modest
    /\ Passing \subseteq Worn /\ Modest \subseteq Worn
    /\ FileFacts \subseteq Modest /\ FileFacts \subseteq Passing
    /\ FileFacts \subseteq Worn /\ {builtin, fits} \subseteq FileFacts
    /\ Evidence \subseteq Modest /\ Evidence \subseteq Passing
    /\ Evidence = {admitted, proved} /\ {proved, none} \subseteq Passing
    /\ \A n : has(n) \notin Evidence \cup {own, none, builtin, fits}
    /\ \A n \in Local : has(n) \in Lasting
    /\ Evidence \subseteq Lasting /\ fits \in Lasting
    /\ fits \notin Evidence \cup {own, none}
    /\ \A n : fits # opened(n) /\ fits # written(n)
<1>1. /\ own \in Blank /\ own \notin Passing /\ own \in Modest
      /\ none \in Blank /\ none \notin Modest
  BY DEF Blank, Passing, Modest, FileFacts, Evidence, own, none, new, admitted,
         proved, builtin, fits
<1>2. /\ \A n : has(n) \notin Evidence \cup {own, none, builtin, fits}
      /\ fits \notin Evidence \cup {own, none}
      /\ \A n : fits # opened(n) /\ fits # written(n)
  BY DEF Evidence, has, own, none, admitted, proved, builtin, fits, opened,
         written
<1>3. /\ FileFacts \subseteq Modest /\ FileFacts \subseteq Passing
      /\ FileFacts \subseteq Worn /\ {builtin, fits} \subseteq FileFacts
      /\ Evidence \subseteq Modest /\ Evidence \subseteq Passing
      /\ Evidence = {admitted, proved} /\ {proved, none} \subseteq Passing
      /\ Evidence \subseteq Lasting /\ fits \in Lasting
      /\ Passing \subseteq Worn /\ Modest \subseteq Worn
  BY DEF Modest, Passing, Worn, Evidence, Lasting, FileFacts
<1>4. \A n \in Local : has(n) \in Lasting
  BY DEF Lasting, has
<1> QED BY <1>1, <1>2, <1>3, <1>4

(* The sequencing rule for a command that starts from Blank facts.         *)
LEMMA Onward ==
    ASSUME NEW s, NEW C, NEW J, Does(s, Blank, C, J),
           NEW t, NEW M, NEW D, NEW L, Does(t, M, D, L),
           NEW E, \A v \in E : v \in C \/ v \in D,
           \A v \in M : v \in C \/ (v \in Blank /\ v \notin J),
           \A v \in L : v \in J /\ v \notin C
    PROVE  Does(s \o t, Blank, E, J)
<1>1. \A v \in E : v \in D \/ (v \in C /\ v \notin L)
  OBVIOUS
<1>2. \A v : v \in J \/ v \in L => v \in J
  OBVIOUS
<1> QED BY <1>1, <1>2, Compose

(* The same when only what the first part establishes still matters.       *)
LEMMA Aside ==
    ASSUME NEW s, NEW C, NEW J, Does(s, Blank, C, J),
           NEW t, NEW M, NEW D, Does(t, M, D, {}),
           \A v \in M : v \in C \/ (v \in Blank /\ v \notin J)
    PROVE  Does(s \o t, Blank, C, J)
<1>1. /\ \A v \in C : v \in C \/ v \in D
      /\ \A v \in {} : v \in J /\ v \notin C
  OBVIOUS
<1>2. \A E, L : /\ Does(t, M, D, L)
                /\ \A v \in E : v \in C \/ v \in D
                /\ \A v \in L : v \in J /\ v \notin C
                => Does(s \o t, Blank, E, J)
  BY Onward
<1> QED BY <1>1, <1>2

(* Saving what is in memory does not disturb what is in memory.            *)
LEMMA SaveOnward ==
    ASSUME NEW s, NEW C \in SUBSET Lasting, NEW J, FileFacts \subseteq J,
           Does(s, Blank, C, J),
           NEW n \in {"intent", "request", "receipt", "result", "summary"},
           has(n) \in C
    PROVE  Does(s \o save(n), Blank, C, J)
<1>1. n \in File \ (Keys \cup {"trust", "experiment"})
  BY DEF Keys, File, Range, Identities
<1>2. Does(save(n), {has(n)}, {}, {opened(n), written(n)})
  BY <1>1, SaveDoes
<1>3. \A v \in {opened(n), written(n)} : v \in J /\ v \notin C
  <2>1. \A v \in {opened(n), written(n)} : v \in FileFacts
    BY <1>1 DEF FileFacts, opened, written
  <2>2. \A v \in {opened(n), written(n)} : v \notin Lasting
    BY DEF Lasting, Evidence, opened, written, admitted, proved, fits
  <2> QED BY <2>1, <2>2
<1>4. \A v \in {has(n)} : v \in C \/ (v \in Blank /\ v \notin J)
  OBVIOUS
<1> QED BY <1>2, <1>3, <1>4, Onward

(* evidence of the benchmark: freeze, sign, authorize.                     *)
LEMMA EvidenceDoes ==
    Does(evidence, {}, {has("request"), has("receipt")},
         {own, admitted, proved})
<1> DEFINE E == {has("request"), has("receipt")}
           J == {own, admitted, proved}
<1>1. Does(load("request"), {}, {has("request")}, J)
  BY LoadDoes
<1>2. Does(load("receipt"), {}, {has("receipt")}, {admitted, proved})
  BY LoadDoes
<1>3. /\ \A v \in E : \/ v \in {has("receipt")}
                      \/ v \in {has("request")} /\ v \notin {admitted, proved}
      /\ \A v : v \in J \/ v \in {admitted, proved} => v \in J
  BY FactsDiffer
<1> HIDE DEF E, J
<1>4. Does(load("request") \o load("receipt"), {}, E, J)
  BY <1>1, <1>2, <1>3, Compose
<1> QED BY <1>4 DEF evidence, E, J

-----------------------------------------------------------------------------

(* One authorization of the benchmark ends with a result proved by its     *)
(* verification.                                                           *)
LEMMA OneDoes ==
    Does(one, {has("experiment"), has("trust"), has("executor")}, {proved},
         {admitted, proved, none})
<1> DEFINE a == do("freeze", "intent")
           b == a \o sign_intent
           c == b \o authorize_processes
           d == c \o execute
           e == d \o do("verify result", "result")
           N == {has("experiment"), has("trust"), has("executor")}
           M == {has("trust"), has("experiment")}
           J == {admitted, proved, none}
           X == {proved, none}
           Q == {has("request")}
           R == {has("request"), has("receipt")}
           D == {admitted, proved, has("result")}
           E == {has("request"), has("result")}
<1>1. Does(a, N, {has("intent")}, {})
  <2>1. Does(a, M, {has("intent")}, {})
    BY StepsDo
  <2>2. \A v \in M : v \in N
    OBVIOUS
  <2> HIDE DEF a, M, N
  <2> QED BY <2>1, <2>2, Weaken
<1>2. /\ \A v : v \in {} \/ v \in Evidence => v \in J
      /\ \A v : v \in J \/ v \in Evidence => v \in J
      /\ \A v : v \in J \/ v \in X => v \in J
      /\ \A v \in R : v \in {has("receipt")} \/ (v \in Q /\ v \notin Evidence)
      /\ \A v \in E : v \in D \/ (v \in R /\ v \notin X)
      /\ \A v \in Executable : v \in R \/ (v \in N /\ v \notin J)
  BY DEF Evidence, has, admitted, proved, none, Executable
<1> HIDE DEF a, N, J, X, Q, R, D, E
<1>3. Does(b, N, Q, J)
  <2>1. \A v \in {has("intent")} : v \in {has("intent")}
    OBVIOUS
  <2>2. Does(sign_intent, {has("intent")}, Q, Evidence)
    BY SignDoes DEF Q
  <2> QED BY <1>1, <1>2, <2>1, <2>2, Compose
<1> HIDE DEF b
<1>4. Does(c, N, R, J)
  <2>1. Does(authorize_processes, Q, {has("receipt")}, Evidence)
    BY AuthorizeDoes DEF Q
  <2>2. \A v \in Q : v \in Q
    OBVIOUS
  <2> QED BY <1>2, <1>3, <2>1, <2>2, Compose
<1> HIDE DEF c
<1>5. Does(d, N, E, J)
  <2>1. Does(execute, Executable, D, X)
    BY ExecuteDoes DEF D, X
  <2> QED BY <1>2, <1>4, <2>1, Compose
<1> HIDE DEF d
<1>6. Does(e, N, {proved}, J)
  <2> DEFINE P == {proved}
             t == do("verify result", "result")
  <2>1. Does(t, E, P, {})
    BY StepsDo DEF E
  <2>2. /\ \A v \in E : v \in E \/ (v \in N /\ v \notin J)
        /\ \A v \in P : v \in P \/ (v \in E /\ v \notin {})
        /\ \A v : v \in J \/ v \in {} => v \in J
    OBVIOUS
  <2> HIDE DEF P, t
  <2>3. Does(d \o t, N, P, J)
    BY <1>5, <2>1, <2>2, Compose
  <2> QED BY <2>3 DEF P, t
<1>7. one = e
  BY DEF one, a, b, c, d, e
<1> QED BY <1>6, <1>7 DEF N, J

(* One authorization of the benchmark is nine instructions.                *)
LEMMA OneSized == one \in Seq(Instructions) /\ Len(one) = 9
<1> DEFINE sized(s, n) == s \in Seq(Instructions) /\ Len(s) = n
           a == do("freeze", "intent")
           b == load("scientist") \o do("sign", "request")
           c == load("issuer") \o do("issue", "header")
           d == c \o do("attest", "receipt")
           e == do("admit", "request") \o do("run", "result")
           f == do("verify result", "result")
           g == a \o b
           h == g \o d
           k == h \o e
<1>1. ASSUME NEW s, NEW t, NEW m \in Nat, NEW n \in Nat,
             sized(s, m), sized(t, n)
      PROVE  sized(s \o t, m + n)
  BY <1>1, Joined
<1>2. ASSUME NEW op, NEW name, <<op, name>> \in Instructions
      PROVE  sized(do(op, name), 1)
  BY <1>2 DEF do
<1>3. "scientist" \in File \cup {"issuer"}
  BY DEF File, Range, Identities
<1>4. /\ <<"load", "scientist">> \in Instructions
      /\ <<"load", "issuer">> \in Instructions
  BY <1>3 DEF Instructions
<1> HIDE DEF sized
<1>5. sized(load("scientist"), 1) /\ sized(load("issuer"), 1)
  BY <1>2, <1>4 DEF load
<1>6. /\ sized(a, 1) /\ sized(do("sign", "request"), 1)
      /\ sized(do("issue", "header"), 1) /\ sized(do("attest", "receipt"), 1)
      /\ sized(do("admit", "request"), 1) /\ sized(do("run", "result"), 1)
      /\ sized(f, 1)
  BY <1>2, InstructionsOf DEF Fixed
<1>7. sized(b, 1 + 1)
  BY <1>1, <1>5, <1>6
<1>8. sized(c, 1 + 1)
  BY <1>1, <1>5, <1>6
<1>9. sized(e, 1 + 1)
  BY <1>1, <1>6
<1> HIDE DEF a, b, c, e, f
<1>10. sized(d, 2 + 1)
  BY <1>1, <1>6, <1>8
<1>11. sized(g, 1 + 2)
  <2>1. sized(a, 1)
    BY <1>6
  <2> QED BY <1>1, <1>7, <2>1
<1> HIDE DEF d, g
<1>12. sized(h, 3 + 3)
  BY <1>1, <1>10, <1>11
<1> HIDE DEF h
<1>13. sized(k, 6 + 2)
  BY <1>1, <1>9, <1>12
<1> HIDE DEF k
<1>14. sized(k \o f, 8 + 1)
  <2>1. sized(f, 1)
    BY <1>6
  <2> QED BY <1>1, <1>13, <2>1
<1>15. one = k \o f
  BY Zenon DEF one, sign_intent, authorize_processes, execute,
               a, b, c, d, e, f, g, h, k
<1> QED BY <1>14, <1>15 DEF sized

(* One more round of the benchmark appends one authorization.              *)
LEMMA RoundsNext ==
    ASSUME NEW n \in Nat
    PROVE  rounds(n + 1) = rounds(n) \o one
<1> DEFINE at(i) == one[1 + ((i - 1) % 9)]
           r == rounds(n)
           t == rounds(n + 1)
           S == {at(i) : i \in 1 .. (n + 1) * 9}
<1>1. /\ r = [i \in 1 .. n * 9 |-> at(i)]
      /\ t = [i \in 1 .. (n + 1) * 9 |-> at(i)]
  BY OneSized, Zenon DEF rounds
<1>2. n * 9 \in Nat /\ (n + 1) * 9 = n * 9 + 9
  OBVIOUS
<1>3. \A i \in 1 .. n * 9 : i \in 1 .. (n + 1) * 9
  BY <1>2
<1>4. \A i \in 1 .. 9 :
         at(n * 9 + i) = one[i] /\ n * 9 + i \in 1 .. (n + 1) * 9
  <2> SUFFICES ASSUME NEW i \in 1 .. 9
               PROVE  /\ at(n * 9 + i) = one[i]
                      /\ n * 9 + i \in 1 .. (n + 1) * 9
    OBVIOUS
  <2>1. 1 + ((n * 9 + i - 1) % 9) = i
    BY <1>2
  <2> QED BY <1>2, <2>1
<1> HIDE DEF at
<1>5. r \in Seq(S) /\ Len(r) = n * 9
  BY <1>1, <1>2, <1>3
<1>6. t \in Seq(S) /\ Len(t) = n * 9 + 9
  BY <1>1, <1>2
<1>7. one \in Seq(S) /\ Len(one) = 9
  <2>1. DOMAIN one = 1 .. 9 /\ one = [i \in 1 .. 9 |-> one[i]] /\ Len(one) = 9
    BY OneSized
  <2>2. \A i \in 1 .. 9 : one[i] \in S
    BY <1>4
  <2> QED BY <2>1, <2>2
<1> DEFINE l == n * 9
           j == r \o one
<1> HIDE DEF r, t, S
<1>8. /\ j \in Seq(S) /\ Len(j) = l + 9
      /\ \A i \in 1 .. l : j[i] = r[i]
      /\ \A i \in 1 .. 9 : j[l + i] = one[i]
  <2>1. Len(r) = l
    BY <1>5
  <2>2. /\ j \in Seq(S) /\ Len(j) = Len(r) + Len(one)
        /\ \A i \in 1 .. Len(r) : j[i] = r[i]
        /\ \A i \in 1 .. Len(one) : j[Len(r) + i] = one[i]
    <3>1. r \in Seq(S) /\ one \in Seq(S)
      BY <1>5, <1>7
    <3> QED BY ONLY <3>1, Joined DEF j
  <2> HIDE DEF l, j
  <2> QED BY <1>7, <2>1, <2>2
<1> HIDE DEF j
<1>9. \A i \in 1 .. n * 9 + 9 : j[i] = t[i]
  <2> SUFFICES ASSUME NEW i \in 1 .. n * 9 + 9
               PROVE  j[i] = t[i]
    OBVIOUS
  <2>1. CASE i <= n * 9
    <3>1. i \in 1 .. n * 9 /\ i \in 1 .. (n + 1) * 9
      BY <1>2, <2>1
    <3> QED BY <1>1, <1>8, <3>1 DEF l
  <2>2. CASE i > n * 9
    <3>1. i - n * 9 \in 1 .. 9 /\ n * 9 + (i - n * 9) = i
      BY <1>2, <2>2
    <3>2. j[i] = one[i - n * 9]
      BY <1>8, <3>1 DEF l
    <3>3. t[i] = at(i)
      BY <1>1, <1>2
    <3> QED BY <1>4, <3>1, <3>2, <3>3
  <2> QED BY <1>2, <2>1, <2>2
<1>10. j = t
  <2>1. /\ j = [i \in 1 .. l + 9 |-> j[i]]
        /\ t = [i \in 1 .. l + 9 |-> t[i]]
    BY <1>6, <1>8
  <2> QED BY <1>9, <2>1
<1> QED BY <1>10 DEF r, t, j

(* Any number of rounds needs no more than the experiment, the trust and   *)
(* the result key; at least one ends with a proved result.                 *)
LEMMA RoundsDo ==
    ASSUME NEW n \in Nat
    PROVE  Does(rounds(n), {has("experiment"), has("trust"), has("executor")},
                IF n = 0 THEN {} ELSE {proved},
                IF n = 0 THEN {} ELSE {admitted, proved, none})
<1> DEFINE N == {has("experiment"), has("trust"), has("executor")}
           J == {admitted, proved, none}
           C(m) == IF m = 0 THEN {} ELSE {proved}
           K(m) == IF m = 0 THEN {} ELSE J
           bad == {m \in Nat : ~ Does(rounds(m), N, C(m), K(m))}
<1>1. Does(rounds(0), N, C(0), K(0))
  <2>1. rounds(0) \in Seq(Instructions) /\ Len(rounds(0)) = 0
    <3> DEFINE at(i) == one[1 + ((i - 1) % 9)]
    <3>1. rounds(0) = [i \in 1 .. 0 * 9 |-> at(i)]
      BY OneSized, Zenon DEF rounds
    <3>2. 0 * 9 = 0
      OBVIOUS
    <3> HIDE DEF at
    <3>3. rounds(0) = [i \in 1 .. 0 |-> at(i)]
      BY <3>1, <3>2
    <3> DEFINE r == rounds(0)
    <3> HIDE DEF r
    <3>4. r = [i \in 1 .. 0 |-> at(i)]
      BY <3>3 DEF r
    <3>5. r \in [1 .. 0 -> Instructions]
      BY <3>4
    <3>6. r \in Seq(Instructions) /\ Len(r) = 0
      BY <3>5
    <3> QED BY <3>6 DEF r
  <2> QED BY <2>1 DEF Does, Runs, Keeps, Kept
<1>2. ASSUME NEW m \in Nat, Does(rounds(m), N, C(m), K(m))
      PROVE  Does(rounds(m + 1), N, C(m + 1), K(m + 1))
  <2>1. /\ \A v \in N : v \in C(m) \/ (v \in N /\ v \notin K(m))
        /\ \A v \in {proved} : v \in {proved}
        /\ \A v : v \in K(m) \/ v \in J => v \in J
    BY DEF has, admitted, proved, none
  <2>2. Does(one, N, {proved}, J)
    BY OneDoes
  <2>3. C(m + 1) = {proved} /\ K(m + 1) = J
    OBVIOUS
  <2> HIDE DEF N, J, C, K
  <2>4. Does(rounds(m) \o one, N, {proved}, J)
    BY <1>2, <2>1, <2>2, Compose
  <2> QED BY <2>3, <2>4, RoundsNext
<1>3. bad = {}
  <2> SUFFICES ASSUME bad # {} PROVE FALSE
    OBVIOUS
  <2>1. bad \in SUBSET Nat
    OBVIOUS
  <2> HIDE DEF N, C, K
  <2>2. PICK m \in bad : \A j \in bad : m <= j
    <3> HIDE DEF bad
    <3> QED BY <2>1, SmallestNumber
  <2>3. m \in Nat /\ m # 0
    BY <1>1, <2>2
  <2>4. m - 1 \in Nat /\ m - 1 + 1 = m /\ ~ m <= m - 1
    BY <2>3
  <2>5. m - 1 \notin bad
    BY <2>2, <2>4
  <2>6. Does(rounds(m - 1), N, C(m - 1), K(m - 1))
    BY <2>4, <2>5
  <2>7. Does(rounds(m - 1 + 1), N, C(m - 1 + 1), K(m - 1 + 1))
    BY <1>2, <2>4, <2>6
  <2>8. m \notin bad
    BY <2>4, <2>7
  <2> QED BY <2>2, <2>8
<1> QED BY <1>3

-----------------------------------------------------------------------------

(* demo.py: its whole sequence, both tampering checks included, is safe to *)
(* execute from nothing, and the result it reports is proved.              *)
LEMMA QuantumDemoDoes ==
    Does(quantum_demo, Blank, {proved}, Passing)
<1> DEFINE a == provision
           b == a \o do("freeze", "intent")
           c == b \o sign_intent
           d == c \o save("intent")
           e == d \o save("request")
           f == e \o authorize_processes
           g == f \o save("receipt")
           h == g \o executor
           i == h \o do("try altered", "request")
           j == i \o execute
           k == j \o save("result")
           l == k \o do("verify result", "result")
           m == l \o executor
           n == m \o do("try replay", "request")
           o == n \o do("summarize", "summary")
           p == o \o save("summary")
           C0 == {has("trust"), has("experiment")}
           C1 == C0 \cup {has("intent")}
           C2 == C1 \cup {has("request")}
           C3 == C2 \cup {has("receipt")}
           C4 == C3 \cup {has("executor")}
           C5 == C4 \cup {admitted, proved, has("result")}
           C6 == C5 \cup {has("summary")}
<1>1. Does(a, Blank, C0, Passing)
  BY ProvisionDoes, FactsDiffer, Weaken DEF Provisioned
<1>2. /\ C2 \in SUBSET Lasting /\ C3 \in SUBSET Lasting
      /\ C4 \in SUBSET Lasting /\ C5 \in SUBSET Lasting
      /\ C6 \in SUBSET Lasting
      /\ has("intent") \in C2 /\ has("request") \in C2
      /\ has("receipt") \in C3 /\ has("result") \in C5
      /\ has("summary") \in C6
  <2>1. /\ {"trust", "experiment", "intent", "request", "receipt", "result",
            "summary"} \subseteq Local
        /\ "executor" \in Local
    BY DEF Local, File, Range, Identities
  <2> QED BY <2>1, FactsDiffer
<1> HIDE DEF a
<1>3. Does(b, Blank, C1, Passing)
  <2> DEFINE M == {has("trust"), has("experiment")}
  <2>1. Does(do("freeze", "intent"), M, {has("intent")}, {})
    BY StepsDo
  <2>2. /\ \A v \in C1 : v \in C0 \/ v \in {has("intent")}
        /\ \A v \in M : v \in C0 \/ (v \in Blank /\ v \notin Passing)
    BY FactsDiffer
  <2> HIDE DEF C0, C1, M
  <2> QED BY <1>1, <2>1, <2>2, Onward
<1> HIDE DEF b
<1>4. Does(c, Blank, C2, Passing)
  <2>1. Does(sign_intent, {has("intent")}, {has("request")}, Evidence)
    BY SignDoes
  <2>2. /\ \A v \in C2 : v \in C1 \/ v \in {has("request")}
        /\ \A v \in {has("intent")} :
              v \in C1 \/ (v \in Blank /\ v \notin Passing)
        /\ \A v \in Evidence : v \in Passing /\ v \notin C1
    BY FactsDiffer
  <2> HIDE DEF C1, C2
  <2> QED BY <1>3, <2>1, <2>2, Onward
<1> HIDE DEF c
<1>5. Does(d, Blank, C2, Passing)
  <2> HIDE DEF C2
  <2> QED BY <1>2, <1>4, FactsDiffer, SaveOnward
<1> HIDE DEF d
<1>6. Does(e, Blank, C2, Passing)
  <2> HIDE DEF C2
  <2> QED BY <1>2, <1>5, FactsDiffer, SaveOnward
<1> HIDE DEF e
<1>7. Does(f, Blank, C3, Passing)
  <2>1. Does(authorize_processes, {has("request")}, {has("receipt")},
             Evidence)
    BY AuthorizeDoes
  <2>2. /\ \A v \in C3 : v \in C2 \/ v \in {has("receipt")}
        /\ \A v \in {has("request")} :
              v \in C2 \/ (v \in Blank /\ v \notin Passing)
        /\ \A v \in Evidence : v \in Passing /\ v \notin C2
    BY FactsDiffer
  <2> HIDE DEF C2, C3
  <2> QED BY <1>6, <2>1, <2>2, Onward
<1> HIDE DEF f
<1>8. Does(g, Blank, C3, Passing)
  <2> HIDE DEF C3
  <2> QED BY <1>2, <1>7, FactsDiffer, SaveOnward
<1> HIDE DEF g
<1>9. Does(h, Blank, C4, Passing)
  <2>1. Does(executor, {}, {has("executor")}, {})
    BY ExecutorDoes
  <2>2. \A v \in C4 : v \in C3 \/ v \in {has("executor")}
    BY FactsDiffer
  <2> HIDE DEF C3, C4
  <2> QED BY <1>8, <2>1, <2>2, Onward
<1> HIDE DEF h
<1>10. Does(i, Blank, C4, Passing)
  <2> DEFINE M == {own, has("request")}
  <2>1. Does(do("try altered", "request"), M, {}, {})
    BY StepsDo
  <2>2. \A v \in M :
              v \in C4 \/ (v \in Blank /\ v \notin Passing)
    BY FactsDiffer
  <2> HIDE DEF M, C4
  <2> QED BY <1>9, <2>1, <2>2, Aside
<1> HIDE DEF i
<1>11. Does(j, Blank, C5, Passing)
  <2>1. Does(execute, Executable, {admitted, proved, has("result")},
             {proved, none})
    BY ExecuteDoes
  <2>2. /\ \A v \in C5 : v \in C4 \/ v \in {admitted, proved, has("result")}
        /\ \A v \in Executable :
              v \in C4 \/ (v \in Blank /\ v \notin Passing)
        /\ \A v \in {proved, none} : v \in Passing /\ v \notin C4
    BY FactsDiffer DEF Executable
  <2> HIDE DEF C4, C5
  <2> QED BY <1>10, <2>1, <2>2, Onward
<1> HIDE DEF j
<1>12. Does(k, Blank, C5, Passing)
  <2> HIDE DEF C5
  <2> QED BY <1>2, <1>11, FactsDiffer, SaveOnward
<1> HIDE DEF k
<1>13. Does(l, Blank, C5, Passing)
  <2> DEFINE M == {has("request"), has("result")}
  <2>1. Does(do("verify result", "result"), M, {proved}, {})
    BY StepsDo
  <2>2. \A v \in M :
              v \in C5 \/ (v \in Blank /\ v \notin Passing)
    BY FactsDiffer
  <2> HIDE DEF M, C5
  <2> QED BY <1>12, <2>1, <2>2, Aside
<1> HIDE DEF l
<1>14. Does(m, Blank, C5, Passing)
  <2>1. Does(executor, {}, {has("executor")}, {})
    BY ExecutorDoes
  <2> HIDE DEF C5
  <2> QED BY <1>13, <2>1, Aside
<1> HIDE DEF m
<1>15. Does(n, Blank, C5, Passing)
  <2>1. Does(do("try replay", "request"), {admitted}, {}, {})
    BY StepsDo
  <2>2. \A v \in {admitted} :
              v \in C5 \/ (v \in Blank /\ v \notin Passing)
    BY FactsDiffer
  <2> HIDE DEF C5
  <2> QED BY <1>14, <2>1, <2>2, Aside
<1> HIDE DEF n
<1>16. Does(o, Blank, C6, Passing)
  <2>1. Does(do("summarize", "summary"), {}, {has("summary")}, {})
    BY StepsDo
  <2>2. \A v \in C6 : v \in C5 \/ v \in {has("summary")}
    BY FactsDiffer
  <2> HIDE DEF C5, C6
  <2> QED BY <1>15, <2>1, <2>2, Onward
<1> HIDE DEF o
<1>17. Does(p, Blank, C6, Passing)
  <2> HIDE DEF C6
  <2> QED BY <1>2, <1>16, FactsDiffer, SaveOnward
<1>18. quantum_demo = p
  BY Zenon DEF quantum_demo, a, b, c, d, e, f, g, h, i, j, k, l, m, n, o, p
<1>19. \A v \in {proved} : v \in C6
  OBVIOUS
<1> HIDE DEF p, C6
<1> QED BY <1>17, <1>18, <1>19, Weaken

(* The GPU demo, with the accelerated workspace and workload.              *)
LEMMA AcceleratedDemoDoes ==
    Does(accelerated_demo, Blank, {proved}, Passing)
<1> DEFINE a == do("preflight", "adapter")
           b == a \o provision_accelerated
           c == b \o do("workload", "experiment")
           d == c \o do("freeze", "intent")
           e == d \o sign_intent
           f == e \o save("experiment")
           g == f \o save("intent")
           h == g \o save("request")
           i == h \o authorize_processes
           j == i \o save("receipt")
           k == j \o executor
           l == k \o do("try altered", "request")
           m == l \o execute
           n == m \o save("result")
           o == n \o do("verify result", "result")
           p == o \o do("try replay", "request")
           q == p \o do("summarize", "summary")
           r == q \o save("summary")
           A == {has("trust")}
           C0 == {}
           C1 == A \cup {has("experiment"), fits}
           C2 == C1 \cup {has("intent")}
           C3 == C2 \cup {has("request")}
           C4 == C3 \cup {has("receipt")}
           C5 == C4 \cup {has("executor")}
           C6 == C5 \cup {admitted, proved, has("result")}
           C7 == C6 \cup {has("summary")}
<1>1. Does(a, Blank, C0, Passing)
  <2>1. Does(a, {}, {}, {})
    BY StepsDo
  <2> HIDE DEF a
  <2> QED BY <2>1, Weaken
<1>2. /\ C3 \in SUBSET Lasting /\ C4 \in SUBSET Lasting
      /\ C6 \in SUBSET Lasting /\ C7 \in SUBSET Lasting
      /\ has("experiment") \in C3 /\ fits \in C3 /\ has("intent") \in C3
      /\ has("request") \in C3 /\ has("receipt") \in C4
      /\ has("result") \in C6 /\ has("summary") \in C7
  <2>1. /\ {"trust", "experiment", "intent", "request", "receipt", "result",
            "summary"} \subseteq Local
        /\ "executor" \in Local
    BY DEF Local, File, Range, Identities
  <2> QED BY <2>1, FactsDiffer
<1> HIDE DEF a
<1>3. Does(b, Blank, A, Passing)
  <2>1. \A v \in A : v \in Provisioned
    BY DEF Provisioned
  <2>2. /\ \A v \in A : v \in C0 \/ v \in A
        /\ \A v \in FileFacts : v \in Passing /\ v \notin C0
    BY FactsDiffer
  <2> HIDE DEF C0, A
  <2>3. Does(provision_accelerated, {}, A, FileFacts)
    BY <2>1, ProvisionAcceleratedDoes, Weaken
  <2> QED BY <1>1, <2>2, <2>3, Onward
<1> HIDE DEF b
<1>4. Does(c, Blank, C1, Passing)
  <2> DEFINE D == {has("experiment"), fits}
  <2>1. Does(do("workload", "experiment"), {}, D, {})
    BY StepsDo
  <2>2. \A v \in C1 : v \in A \/ v \in D
    OBVIOUS
  <2> HIDE DEF A, C1, D
  <2> QED BY <1>3, <2>1, <2>2, Onward
<1> HIDE DEF c
<1>5. Does(d, Blank, C2, Passing)
  <2> DEFINE M == {has("trust"), has("experiment")}
  <2>1. Does(do("freeze", "intent"), M, {has("intent")}, {})
    BY StepsDo
  <2>2. /\ \A v \in C2 : v \in C1 \/ v \in {has("intent")}
        /\ \A v \in M : v \in C1 \/ (v \in Blank /\ v \notin Passing)
    BY FactsDiffer
  <2> HIDE DEF C1, C2, M
  <2> QED BY <1>4, <2>1, <2>2, Onward
<1> HIDE DEF d
<1>6. Does(e, Blank, C3, Passing)
  <2>1. Does(sign_intent, {has("intent")}, {has("request")}, Evidence)
    BY SignDoes
  <2>2. /\ \A v \in C3 : v \in C2 \/ v \in {has("request")}
        /\ \A v \in {has("intent")} :
              v \in C2 \/ (v \in Blank /\ v \notin Passing)
        /\ \A v \in Evidence : v \in Passing /\ v \notin C2
    BY FactsDiffer
  <2> HIDE DEF C2, C3
  <2> QED BY <1>5, <2>1, <2>2, Onward
<1> HIDE DEF e
<1>7. Does(f, Blank, C3, Passing)
  <2> DEFINE x == "experiment"
             M == {has(x), fits}
             L == {opened(x), written(x)}
  <2>1. Does(save(x), M, {}, L)
    BY SaveDoes
  <2>2. \A v \in L : v \in Passing
    <3>1. \A v \in L : v \in FileFacts
      BY DEF FileFacts, opened, written, File
    <3> QED BY <3>1, FactsDiffer
  <2>3. \A v \in L : v \notin Lasting
    BY DEF Lasting, Evidence, opened, written, admitted, proved, fits
  <2>4. \A v \in M : v \in C3
    OBVIOUS
  <2> HIDE DEF C3, M, L
  <2> QED BY <1>2, <1>6, <2>1, <2>2, <2>3, <2>4, Onward
<1> HIDE DEF f
<1>8. Does(g, Blank, C3, Passing)
  <2> HIDE DEF C3
  <2> QED BY <1>2, <1>7, FactsDiffer, SaveOnward
<1> HIDE DEF g
<1>9. Does(h, Blank, C3, Passing)
  <2> HIDE DEF C3
  <2> QED BY <1>2, <1>8, FactsDiffer, SaveOnward
<1> HIDE DEF h
<1>10. Does(i, Blank, C4, Passing)
  <2>1. Does(authorize_processes, {has("request")}, {has("receipt")},
             Evidence)
    BY AuthorizeDoes
  <2>2. /\ \A v \in C4 : v \in C3 \/ v \in {has("receipt")}
        /\ \A v \in {has("request")} :
              v \in C3 \/ (v \in Blank /\ v \notin Passing)
        /\ \A v \in Evidence : v \in Passing /\ v \notin C3
    BY FactsDiffer
  <2> HIDE DEF C3, C4
  <2> QED BY <1>9, <2>1, <2>2, Onward
<1> HIDE DEF i
<1>11. Does(j, Blank, C4, Passing)
  <2> HIDE DEF C4
  <2> QED BY <1>2, <1>10, FactsDiffer, SaveOnward
<1> HIDE DEF j
<1>12. Does(k, Blank, C5, Passing)
  <2>1. Does(executor, {}, {has("executor")}, {})
    BY ExecutorDoes
  <2>2. \A v \in C5 : v \in C4 \/ v \in {has("executor")}
    BY FactsDiffer
  <2> HIDE DEF C4, C5
  <2> QED BY <1>11, <2>1, <2>2, Onward
<1> HIDE DEF k
<1>13. Does(l, Blank, C5, Passing)
  <2> DEFINE M == {own, has("request")}
  <2>1. Does(do("try altered", "request"), M, {}, {})
    BY StepsDo
  <2>2. \A v \in M :
              v \in C5 \/ (v \in Blank /\ v \notin Passing)
    BY FactsDiffer
  <2> HIDE DEF M, C5
  <2> QED BY <1>12, <2>1, <2>2, Aside
<1> HIDE DEF l
<1>14. Does(m, Blank, C6, Passing)
  <2>1. Does(execute, Executable, {admitted, proved, has("result")},
             {proved, none})
    BY ExecuteDoes
  <2>2. /\ \A v \in C6 : v \in C5 \/ v \in {admitted, proved, has("result")}
        /\ \A v \in Executable :
              v \in C5 \/ (v \in Blank /\ v \notin Passing)
        /\ \A v \in {proved, none} : v \in Passing /\ v \notin C5
    BY FactsDiffer DEF Executable
  <2> HIDE DEF C5, C6
  <2> QED BY <1>13, <2>1, <2>2, Onward
<1> HIDE DEF m
<1>15. Does(n, Blank, C6, Passing)
  <2> HIDE DEF C6
  <2> QED BY <1>2, <1>14, FactsDiffer, SaveOnward
<1> HIDE DEF n
<1>16. Does(o, Blank, C6, Passing)
  <2> DEFINE M == {has("request"), has("result")}
  <2>1. Does(do("verify result", "result"), M, {proved}, {})
    BY StepsDo
  <2>2. \A v \in M :
              v \in C6 \/ (v \in Blank /\ v \notin Passing)
    BY FactsDiffer
  <2> HIDE DEF M, C6
  <2> QED BY <1>15, <2>1, <2>2, Aside
<1> HIDE DEF o
<1>17. Does(p, Blank, C6, Passing)
  <2>1. Does(do("try replay", "request"), {admitted}, {}, {})
    BY StepsDo
  <2>2. \A v \in {admitted} :
              v \in C6 \/ (v \in Blank /\ v \notin Passing)
    BY FactsDiffer
  <2> HIDE DEF C6
  <2> QED BY <1>16, <2>1, <2>2, Aside
<1> HIDE DEF p
<1>18. Does(q, Blank, C7, Passing)
  <2>1. Does(do("summarize", "summary"), {}, {has("summary")}, {})
    BY StepsDo
  <2>2. \A v \in C7 : v \in C6 \/ v \in {has("summary")}
    BY FactsDiffer
  <2> HIDE DEF C6, C7
  <2> QED BY <1>17, <2>1, <2>2, Onward
<1> HIDE DEF q
<1>19. Does(r, Blank, C7, Passing)
  <2> HIDE DEF C7
  <2> QED BY <1>2, <1>18, FactsDiffer, SaveOnward
<1>20. accelerated_demo = r
  BY Zenon DEF accelerated_demo, a, b, c, d, e, f, g, h, i, j, k, l, m, n, o,
               p, q, r
<1>21. \A v \in {proved} : v \in C7
  OBVIOUS
<1> HIDE DEF r, C7
<1> QED BY <1>19, <1>20, <1>21, Weaken

(* The commands of the argument parser.                                    *)
Names == {"init", "quantum_demo", "gpu_demo", "gateway_benchmark", "freeze",
          "sign_intent", "authorize", "inspect", "verify", "execute",
          "verify_result"}

(* The program of each command.                                            *)
LEMMA MainParts ==
    /\ DOMAIN main = Names
    /\ main["init"] = provision
    /\ main["quantum_demo"] = quantum_demo
    /\ main["gpu_demo"] = accelerated_demo
    /\ main["gateway_benchmark"] = benchmark_gateway
    /\ main["freeze"] = load("trust") \o load("experiment")
                        \o do("freeze", "intent") \o save("intent")
    /\ main["sign_intent"] = load("trust") \o load("intent") \o sign_intent
                             \o save("request")
    /\ main["authorize"] = load("trust") \o load("request")
                           \o authorize_processes \o save("receipt")
    /\ main["inspect"] = load("trust") \o evidence
                         \o do("inspect", "receipt")
    /\ main["verify"] = load("trust") \o evidence \o do("verify", "receipt")
    /\ main["execute"] = load("trust") \o executor \o evidence \o execute
                         \o save("result")
    /\ main["verify_result"] = load("trust") \o load("result") \o evidence
                               \o do("verify result", "result")
BY DEF main, Names

(* freeze reads the trust and the experiment it freezes.                   *)
LEMMA FreezeCommand ==
    Does(main["freeze"], Blank, {}, Modest)
<1> DEFINE a == load("trust")
           b == a \o load("experiment")
           c == b \o do("freeze", "intent")
           d == c \o save("intent")
           C0 == {has("trust")}
           C1 == {has("trust"), has("experiment")}
           C2 == {has("trust"), has("experiment"), has("intent")}
<1>1. Does(a, Blank, C0, Modest)
  <2>1. Does(a, {}, {has("trust")}, {builtin, fits})
    BY LoadDoes
  <2> HIDE DEF a
  <2> QED BY <2>1, FactsDiffer, Weaken
<1>2. /\ C2 \in SUBSET Lasting /\ has("intent") \in C2
  BY FactsDiffer DEF Local, File
<1> HIDE DEF a
<1>3. Does(b, Blank, C1, Modest)
  <2>1. Does(load("experiment"), {}, {has("experiment"), fits}, {own})
    BY LoadDoes
  <2>2. /\ \A v \in C1 : v \in C0 \/ v \in {has("experiment"), fits}
        /\ \A v \in {own} : v \in Modest /\ v \notin C0
    BY FactsDiffer
  <2> HIDE DEF C0, C1
  <2> QED BY <1>1, <2>1, <2>2, Onward
<1> HIDE DEF b
<1>4. Does(c, Blank, C2, Modest)
  <2> DEFINE M == {has("trust"), has("experiment")}
  <2>1. Does(do("freeze", "intent"), M, {has("intent")}, {})
    BY StepsDo
  <2>2. /\ \A v \in C2 : v \in C1 \/ v \in {has("intent")}
        /\ \A v \in M : v \in C1 \/ (v \in Blank /\ v \notin Modest)
    BY FactsDiffer
  <2> HIDE DEF C1, C2, M
  <2> QED BY <1>3, <2>1, <2>2, Onward
<1> HIDE DEF c
<1>5. Does(d, Blank, C2, Modest)
  <2> HIDE DEF C2
  <2> QED BY <1>2, <1>4, FactsDiffer, SaveOnward
<1>6. main["freeze"] = d
  BY MainParts, Zenon DEF a, b, c, d
<1>7. \A v \in {} : v \in C2
  OBVIOUS
<1> HIDE DEF d, C2
<1> QED BY <1>5, <1>6, <1>7, Weaken

(* sign-intent reads an intent and the scientist's key.                    *)
LEMMA SignIntentCommand ==
    Does(main["sign_intent"], Blank, {}, Modest)
<1> DEFINE a == load("trust")
           b == a \o load("intent")
           c == b \o sign_intent
           d == c \o save("request")
           C0 == {has("trust")}
           C1 == {has("trust"), has("intent")}
           C2 == {has("trust"), has("intent"), has("request")}
<1>1. Does(a, Blank, C0, Modest)
  <2>1. Does(a, {}, {has("trust")}, {builtin, fits})
    BY LoadDoes
  <2> HIDE DEF a
  <2> QED BY <2>1, FactsDiffer, Weaken
<1>2. /\ C2 \in SUBSET Lasting /\ has("request") \in C2
  BY FactsDiffer DEF Local, File
<1> HIDE DEF a
<1>3. Does(b, Blank, C1, Modest)
  <2>1. Does(load("intent"), {}, {has("intent")}, {own})
    BY LoadDoes
  <2>2. /\ \A v \in C1 : v \in C0 \/ v \in {has("intent")}
        /\ \A v \in {own} : v \in Modest /\ v \notin C0
    BY FactsDiffer
  <2> HIDE DEF C0, C1
  <2> QED BY <1>1, <2>1, <2>2, Onward
<1> HIDE DEF b
<1>4. Does(c, Blank, C2, Modest)
  <2>1. Does(sign_intent, {has("intent")}, {has("request")}, Evidence)
    BY SignDoes
  <2>2. /\ \A v \in C2 : v \in C1 \/ v \in {has("request")}
        /\ \A v \in {has("intent")} :
              v \in C1 \/ (v \in Blank /\ v \notin Modest)
        /\ \A v \in Evidence : v \in Modest /\ v \notin C1
    BY FactsDiffer
  <2> HIDE DEF C1, C2
  <2> QED BY <1>3, <2>1, <2>2, Onward
<1> HIDE DEF c
<1>5. Does(d, Blank, C2, Modest)
  <2> HIDE DEF C2
  <2> QED BY <1>2, <1>4, FactsDiffer, SaveOnward
<1>6. main["sign_intent"] = d
  BY MainParts, Zenon DEF a, b, c, d
<1>7. \A v \in {} : v \in C2
  OBVIOUS
<1> HIDE DEF d, C2
<1> QED BY <1>5, <1>6, <1>7, Weaken

(* authorize reads a request and writes the receipt it obtained.           *)
LEMMA AuthorizeCommand ==
    Does(main["authorize"], Blank, {}, Modest)
<1> DEFINE a == load("trust")
           b == a \o load("request")
           c == b \o authorize_processes
           d == c \o save("receipt")
           C0 == {has("trust")}
           C1 == {has("trust"), has("request")}
           C2 == {has("trust"), has("request"), has("receipt")}
<1>1. Does(a, Blank, C0, Modest)
  <2>1. Does(a, {}, {has("trust")}, {builtin, fits})
    BY LoadDoes
  <2> HIDE DEF a
  <2> QED BY <2>1, FactsDiffer, Weaken
<1>2. /\ C2 \in SUBSET Lasting /\ has("receipt") \in C2
  BY FactsDiffer DEF Local, File
<1> HIDE DEF a
<1>3. Does(b, Blank, C1, Modest)
  <2>1. Does(load("request"), {}, {has("request")}, {own, admitted, proved})
    BY LoadDoes
  <2>2. /\ \A v \in C1 : v \in C0 \/ v \in {has("request")}
        /\ \A v \in {own, admitted, proved} : v \in Modest /\ v \notin C0
    BY FactsDiffer
  <2> HIDE DEF C0, C1
  <2> QED BY <1>1, <2>1, <2>2, Onward
<1> HIDE DEF b
<1>4. Does(c, Blank, C2, Modest)
  <2>1. Does(authorize_processes, {has("request")}, {has("receipt")},
             Evidence)
    BY AuthorizeDoes
  <2>2. /\ \A v \in C2 : v \in C1 \/ v \in {has("receipt")}
        /\ \A v \in {has("request")} :
              v \in C1 \/ (v \in Blank /\ v \notin Modest)
        /\ \A v \in Evidence : v \in Modest /\ v \notin C1
    BY FactsDiffer
  <2> HIDE DEF C1, C2
  <2> QED BY <1>3, <2>1, <2>2, Onward
<1> HIDE DEF c
<1>5. Does(d, Blank, C2, Modest)
  <2> HIDE DEF C2
  <2> QED BY <1>2, <1>4, FactsDiffer, SaveOnward
<1>6. main["authorize"] = d
  BY MainParts, Zenon DEF a, b, c, d
<1>7. \A v \in {} : v \in C2
  OBVIOUS
<1> HIDE DEF d, C2
<1> QED BY <1>5, <1>6, <1>7, Weaken

(* inspect reads a receipt.                                                *)
LEMMA InspectCommand ==
    Does(main["inspect"], Blank, {}, Modest)
<1> DEFINE a == load("trust")
           b == a \o evidence
           c == b \o do("inspect", "receipt")
           C0 == {has("trust")}
           C1 == {has("trust"), has("request"), has("receipt")}
<1>1. Does(a, Blank, C0, Modest)
  <2>1. Does(a, {}, {has("trust")}, {builtin, fits})
    BY LoadDoes
  <2> HIDE DEF a
  <2> QED BY <2>1, FactsDiffer, Weaken
<1> HIDE DEF a
<1>2. Does(b, Blank, C1, Modest)
  <2>1. Does(evidence, {},
             {has("request"), has("receipt")}, {own, admitted, proved})
    BY EvidenceDoes
  <2>2. /\ \A v \in C1 : v \in C0 \/ v \in {has("request"), has("receipt")}
        /\ \A v \in {own, admitted, proved} : v \in Modest /\ v \notin C0
    BY FactsDiffer
  <2> HIDE DEF C0, C1
  <2> QED BY <1>1, <2>1, <2>2, Onward
<1> HIDE DEF b
<1>3. Does(c, Blank, C1, Modest)
  <2>1. Does(do("inspect", "receipt"), {}, {}, {})
    BY StepsDo
  <2> HIDE DEF C1
  <2> QED BY <1>2, <2>1, Aside
<1>4. main["inspect"] = c
  BY MainParts, Zenon DEF a, b, c
<1>5. \A v \in {} : v \in C1
  OBVIOUS
<1> HIDE DEF c, C1
<1> QED BY <1>3, <1>4, <1>5, Weaken

(* verify reads a receipt and the trust.                                   *)
LEMMA VerifyCommand ==
    Does(main["verify"], Blank, {}, Modest)
<1> DEFINE a == load("trust")
           b == a \o evidence
           c == b \o do("verify", "receipt")
           C0 == {has("trust")}
           C1 == {has("trust"), has("request"), has("receipt")}
<1>1. Does(a, Blank, C0, Modest)
  <2>1. Does(a, {}, {has("trust")}, {builtin, fits})
    BY LoadDoes
  <2> HIDE DEF a
  <2> QED BY <2>1, FactsDiffer, Weaken
<1> HIDE DEF a
<1>2. Does(b, Blank, C1, Modest)
  <2>1. Does(evidence, {},
             {has("request"), has("receipt")}, {own, admitted, proved})
    BY EvidenceDoes
  <2>2. /\ \A v \in C1 : v \in C0 \/ v \in {has("request"), has("receipt")}
        /\ \A v \in {own, admitted, proved} : v \in Modest /\ v \notin C0
    BY FactsDiffer
  <2> HIDE DEF C0, C1
  <2> QED BY <1>1, <2>1, <2>2, Onward
<1> HIDE DEF b
<1>3. Does(c, Blank, C1, Modest)
  <2>1. Does(do("verify", "receipt"), {}, {}, {})
    BY StepsDo
  <2> HIDE DEF C1
  <2> QED BY <1>2, <2>1, Aside
<1>4. main["verify"] = c
  BY MainParts, Zenon DEF a, b, c
<1>5. \A v \in {} : v \in C1
  OBVIOUS
<1> HIDE DEF c, C1
<1> QED BY <1>3, <1>4, <1>5, Weaken

(* execute writes only the result its own run returned.                    *)
LEMMA ExecuteCommand ==
    Does(main["execute"], Blank, {proved}, Worn)
<1> DEFINE a == load("trust")
           b == a \o executor
           c == b \o evidence
           d == c \o execute
           e == d \o save("result")
           C0 == {has("trust")}
           C1 == {has("trust"), has("executor")}
           C2 == Executable
           C3 == Executable \cup {admitted, proved, has("result")}
<1>1. Does(a, Blank, C0, Worn)
  <2>1. Does(a, {}, {has("trust")}, {builtin, fits})
    BY LoadDoes
  <2> HIDE DEF a
  <2> QED BY <2>1, FactsDiffer, Weaken
<1>2. /\ C3 \in SUBSET Lasting /\ has("result") \in C3
  <2>1. {"trust", "executor", "request", "receipt", "result"} \subseteq Local
    BY DEF Local, File, Range, Identities
  <2> QED BY <2>1, FactsDiffer DEF Executable
<1> HIDE DEF a
<1>3. Does(b, Blank, C1, Worn)
  <2>1. Does(executor, {}, {has("executor")}, {})
    BY ExecutorDoes
  <2>2. \A v \in C1 : v \in C0 \/ v \in {has("executor")}
    BY FactsDiffer
  <2> HIDE DEF C0, C1
  <2> QED BY <1>1, <2>1, <2>2, Onward
<1> HIDE DEF b
<1>4. Does(c, Blank, C2, Worn)
  <2>1. Does(evidence, {},
             {has("request"), has("receipt")}, {own, admitted, proved})
    BY EvidenceDoes
  <2>2. /\ \A v \in C2 : v \in C1 \/ v \in {has("request"), has("receipt")}
        /\ \A v \in {own, admitted, proved} : v \in Worn /\ v \notin C1
    BY FactsDiffer DEF Executable
  <2> HIDE DEF C1, C2
  <2> QED BY <1>3, <2>1, <2>2, Onward
<1> HIDE DEF c
<1>5. Does(d, Blank, C3, Worn)
  <2>1. Does(execute, Executable, {admitted, proved, has("result")},
             {proved, none})
    BY ExecuteDoes
  <2>2. /\ \A v \in C3 : v \in C2 \/ v \in {admitted, proved, has("result")}
        /\ \A v \in Executable :
              v \in C2 \/ (v \in Blank /\ v \notin Worn)
        /\ \A v \in {proved, none} : v \in Worn /\ v \notin C2
    BY FactsDiffer DEF Executable
  <2> HIDE DEF C2, C3
  <2> QED BY <1>4, <2>1, <2>2, Onward
<1> HIDE DEF d
<1>6. Does(e, Blank, C3, Worn)
  <2> HIDE DEF C3
  <2> QED BY <1>2, <1>5, FactsDiffer, SaveOnward
<1>7. main["execute"] = e
  BY MainParts, Zenon DEF a, b, c, d, e
<1>8. \A v \in {proved} : v \in C3
  OBVIOUS
<1> HIDE DEF e, C3
<1> QED BY <1>6, <1>7, <1>8, Weaken

(* verify-result claims only what it verified.                             *)
LEMMA VerifyResultCommand ==
    Does(main["verify_result"], Blank, {proved}, Worn)
<1> DEFINE a == load("trust")
           b == a \o load("result")
           c == b \o evidence
           d == c \o do("verify result", "result")
           C0 == {has("trust")}
           C1 == {has("trust"), has("result")}
           C2 == {has("trust"), has("result"), has("request"), has("receipt")}
           C3 == {has("trust"), has("result"), has("request"), has("receipt"),
                  proved}
<1>1. Does(a, Blank, C0, Worn)
  <2>1. Does(a, {}, {has("trust")}, {builtin, fits})
    BY LoadDoes
  <2> HIDE DEF a
  <2> QED BY <2>1, FactsDiffer, Weaken
<1> HIDE DEF a
<1>2. Does(b, Blank, C1, Worn)
  <2>1. Does(load("result"), {}, {has("result")}, {proved, none})
    BY LoadDoes
  <2>2. /\ \A v \in C1 : v \in C0 \/ v \in {has("result")}
        /\ \A v \in {proved, none} : v \in Worn /\ v \notin C0
    BY FactsDiffer
  <2> HIDE DEF C0, C1
  <2> QED BY <1>1, <2>1, <2>2, Onward
<1> HIDE DEF b
<1>3. Does(c, Blank, C2, Worn)
  <2>1. Does(evidence, {},
             {has("request"), has("receipt")}, {own, admitted, proved})
    BY EvidenceDoes
  <2>2. /\ \A v \in C2 : v \in C1 \/ v \in {has("request"), has("receipt")}
        /\ \A v \in {own, admitted, proved} : v \in Worn /\ v \notin C1
    BY FactsDiffer
  <2> HIDE DEF C1, C2
  <2> QED BY <1>2, <2>1, <2>2, Onward
<1> HIDE DEF c
<1>4. Does(d, Blank, C3, Worn)
  <2> DEFINE M == {has("request"), has("result")}
             t == do("verify result", "result")
  <2>1. Does(t, M, {proved}, {})
    BY StepsDo
  <2>2. /\ \A v \in C3 : v \in C2 \/ v \in {proved}
        /\ \A v \in M :
              v \in C2 \/ (v \in Blank /\ v \notin Worn)
        /\ \A v \in {} : v \in Worn /\ v \notin C2
    BY FactsDiffer
  <2> HIDE DEF t, M, C2, C3
  <2>3. Does(c \o t, Blank, C3, Worn)
    BY <1>3, <2>1, <2>2, Onward
  <2> QED BY <2>3 DEF t
<1>5. main["verify_result"] = d
  BY MainParts, Zenon DEF a, b, c, d
<1>6. \A v \in {proved} : v \in C3
  OBVIOUS
<1> HIDE DEF d, C3
<1> QED BY <1>4, <1>5, <1>6, Weaken

(* The gateway benchmark, for every number of rounds.                      *)
LEMMA BenchmarkDoes ==
    Does(benchmark_gateway, {}, IF Rounds = 0 THEN {} ELSE {proved},
         IF Rounds = 0 THEN FileFacts ELSE Passing)
<1> DEFINE a == provision_accelerated
           b == a \o do("workload", "experiment")
           c == b \o do("preflight", "adapter")
           d == c \o executor
           e == d \o rounds(Rounds)
           M == {has("experiment"), has("trust")}
           N == {has("experiment"), has("trust"), has("executor")}
           C == IF Rounds = 0 THEN {} ELSE {proved}
           J == IF Rounds = 0 THEN FileFacts ELSE Passing
           K == IF Rounds = 0 THEN {} ELSE {admitted, proved, none}
<1>1. Does(a, {}, Provisioned, FileFacts)
  BY ProvisionAcceleratedDoes
<1> HIDE DEF a
<1>2. Does(b, {}, M, FileFacts)
  <2> DEFINE t == do("workload", "experiment")
             D == {has("experiment"), fits}
  <2>1. Does(t, {}, D, {})
    BY StepsDo
  <2>2. \A v \in M : v \in D \/ (v \in Provisioned /\ v \notin {})
    BY DEF Provisioned
  <2> HIDE DEF M, D, t
  <2>3. Does(a \o t, {}, M, FileFacts)
    BY <1>1, <2>1, <2>2, Compose
  <2> QED BY <2>3 DEF t
<1> HIDE DEF b
<1>3. Does(c, {}, M, FileFacts)
  <2> DEFINE t == do("preflight", "adapter")
  <2>1. Does(t, {}, {}, {})
    BY StepsDo
  <2> HIDE DEF M, t
  <2>2. Does(b \o t, {}, M, FileFacts)
    BY <1>2, <2>1, Compose
  <2> QED BY <2>2 DEF t
<1> HIDE DEF c
<1>4. Does(d, {}, N, FileFacts)
  <2> DEFINE D == {has("executor")}
  <2>1. \A v \in N : v \in D \/ (v \in M /\ v \notin {})
    OBVIOUS
  <2>2. Does(executor, {}, D, {})
    BY ExecutorDoes
  <2> HIDE DEF M, N, D
  <2> QED BY <1>3, <2>1, <2>2, Compose
<1> HIDE DEF d
<1>5. Does(rounds(Rounds), N, C, K)
  BY RoundsDo, WorkspaceAssumption
<1>6. /\ \A v : v \in FileFacts \/ v \in K => v \in J
      /\ \A v \in N : v \in N
  BY FactsDiffer
<1> HIDE DEF N, C, J, K
<1>7. Does(e, {}, C, J)
  BY <1>4, <1>5, <1>6, Compose
<1>8. benchmark_gateway = e
  BY Zenon DEF benchmark_gateway, a, b, c, d, e
<1> QED BY <1>7, <1>8 DEF C, J

(* Every need of a command is met where it arises, and its program ends    *)
(* with a result that is proved or with none.                              *)
LEMMA CommandsRun ==
    ASSUME NEW name \in Names
    PROVE  /\ Runs(main[name], Blank)
           /\ After(main[name], proved) \/ Keeps(main[name], none)
<1> DEFINE Fine(s) == Runs(s, Blank) /\ (After(s, proved) \/ Keeps(s, none))
<1>1. ASSUME NEW s, NEW K, Does(s, Blank, {proved}, K) PROVE Fine(s)
  BY <1>1 DEF Does
<1>2. ASSUME NEW s, NEW C, Does(s, Blank, C, Modest) PROVE Fine(s)
  BY <1>2, FactsDiffer DEF Does
<1>3. Fine(main["init"])
  <2>1. \A v \in FileFacts : v \in Modest
    BY FactsDiffer
  <2>2. Does(provision, Blank, {}, Modest)
    BY <2>1, ProvisionDoes, Weaken
  <2> QED BY <1>2, <2>2, MainParts
<1>4. Fine(main["gateway_benchmark"])
  <2>1. CASE Rounds = 0
    <3>1. \A v \in FileFacts : v \in Modest
      BY FactsDiffer
    <3>2. Does(benchmark_gateway, {}, {}, FileFacts)
      BY <2>1, BenchmarkDoes
    <3>3. Does(benchmark_gateway, Blank, {}, Modest)
      BY <3>1, <3>2, Weaken
    <3> QED BY <1>2, <3>3, MainParts
  <2>2. CASE Rounds # 0
    <3>1. Does(benchmark_gateway, {}, {proved}, Passing)
      BY <2>2, BenchmarkDoes
    <3>2. Does(benchmark_gateway, Blank, {proved}, Passing)
      BY <3>1, Weaken
    <3> QED BY <1>1, <3>2, MainParts
  <2> QED BY <2>1, <2>2
<1>5. Fine(main["quantum_demo"])
  <2>1. Does(quantum_demo, Blank, {proved}, Passing)
    BY QuantumDemoDoes
  <2> QED BY <1>1, <2>1, MainParts
<1>6. Fine(main["gpu_demo"])
  <2>1. Does(accelerated_demo, Blank, {proved}, Passing)
    BY AcceleratedDemoDoes
  <2> QED BY <1>1, <2>1, MainParts
<1>7. /\ Fine(main["freeze"]) /\ Fine(main["sign_intent"])
      /\ Fine(main["authorize"]) /\ Fine(main["inspect"])
      /\ Fine(main["verify"])
  <2> HIDE DEF Fine
  <2> QED BY <1>2, FreezeCommand, SignIntentCommand, AuthorizeCommand,
             InspectCommand, VerifyCommand
<1>8. Fine(main["execute"]) /\ Fine(main["verify_result"])
  <2> HIDE DEF Fine
  <2> QED BY <1>1, ExecuteCommand, VerifyResultCommand
<1> QED BY <1>3, <1>4, <1>5, <1>6, <1>7, <1>8 DEF Names

(* The same of the programs the processes execute, print included.         *)
LEMMA ProgramsRun ==
    ASSUME NEW name \in DOMAIN main
    PROVE  \E l \in Nat \ {0} :
              LET s == Programs[name] IN
              /\ DOMAIN s = 1 .. l
              /\ \A n \in 1 .. l - 1 :
                    /\ s[n] \in Instructions
                    /\ \A v : Needs(s[n], v) => Known(s, n, v)
              /\ s[l] = <<"print", "result">>
              /\ Known(s, l, proved) \/ Known(s, l, none)
<1> DEFINE m == main[name]
           end == <<"print", "result">>
           t == do("print", "result")
           s == m \o t
           S == Instructions \cup {end}
<1>1. Programs[name] = s /\ name \in Names
  BY MainParts DEF Programs
<1>2. Runs(m, Blank) /\ (After(m, proved) \/ Keeps(m, none))
  BY <1>1, CommandsRun
<1> HIDE DEF m, S
<1>3. m \in Seq(Instructions) /\ Len(m) \in Nat
  BY <1>2 DEF Runs
<1>4. /\ m \in Seq(S) /\ Len(m) \in Nat
      /\ \A n \in 1 .. Len(m) : m[n] \in Instructions
      /\ DOMAIN m = 1 .. Len(m)
  BY <1>3 DEF S
<1>5. t \in Seq(S) /\ Len(t) = 1 /\ t[1] = end
  BY DEF do, S
<1> HIDE DEF t
<1>6. /\ DOMAIN s = 1 .. Len(m) + 1
      /\ \A n \in 1 .. Len(m) : s[n] = m[n]
      /\ s[Len(m) + 1] = end
  <2>1. /\ DOMAIN s = 1 .. Len(m) + Len(t)
        /\ \A n \in 1 .. Len(m) : s[n] = m[n]
        /\ \A n \in 1 .. Len(t) : s[Len(m) + n] = t[n]
    <3>1. m \in Seq(S) /\ t \in Seq(S)
      BY <1>4, <1>5
    <3> QED BY ONLY <3>1, Joined DEF s
  <2> HIDE DEF s, end
  <2> QED BY <1>5, <2>1
<1>7. ASSUME NEW n \in 1 .. Len(m) + 1, NEW v
      PROVE  /\ Made(m, n, v) => Made(s, n, v)
             /\ Kept(m, n, v) => Kept(s, n, v)
  BY <1>4, <1>5, Earlier
<1> DEFINE l == Len(m) + 1
<1> HIDE DEF s
<1>8. l \in Nat \ {0} /\ l - 1 = Len(m) /\ l \in 1 .. Len(m) + 1
  BY <1>4
<1>9. ASSUME NEW n \in 1 .. l - 1
      PROVE  /\ s[n] \in Instructions
             /\ \A v : Needs(s[n], v) => Known(s, n, v)
  <2>1. n \in 1 .. Len(m) /\ n \in 1 .. Len(m) + 1
    BY <1>8
  <2>2. s[n] \in Instructions /\ s[n] = m[n]
    BY <1>4, <1>6, <2>1
  <2>3. \A v : Needs(m[n], v) =>
                Made(m, n, v) \/ (v \in Blank /\ Kept(m, n, v))
    BY <1>2, <1>4, <2>1 DEF Runs
  <2>4. \A v : /\ Made(m, n, v) => Made(s, n, v)
               /\ Kept(m, n, v) => Kept(s, n, v)
    BY <1>7, <2>1
  <2> QED BY <2>2, <2>3, <2>4 DEF Known
<1>10. Known(s, l, proved) \/ Known(s, l, none)
  <2>1. Made(m, l, proved) \/ Kept(m, l, none)
    BY <1>2 DEF After, Keeps
  <2> HIDE DEF l
  <2>2. \A v : /\ Made(m, l, v) => Made(s, l, v)
               /\ Kept(m, l, v) => Kept(s, l, v)
    BY <1>7, <1>8
  <2> QED BY <2>1, <2>2, FactsDiffer DEF Known
<1>11. DOMAIN s = 1 .. l /\ s[l] = end
  BY <1>6
<1> HIDE DEF l
<1> QED BY <1>1, <1>8, <1>9, <1>10, <1>11

-----------------------------------------------------------------------------
(* Where the commands are.                                                 *)
Placed ==
    /\ exists \in BOOLEAN
    /\ command = [p \in Process |-> command[p]]
    /\ pc = [p \in Process |-> pc[p]]
    /\ \A p \in Process : command[p] \in Command[p] \cup {Idle}
    /\ \A p \in Process : pc[p] \in IF command[p] = Idle THEN {0}
                                     ELSE DOMAIN Programs[command[p].name]
    /\ secrets \in 0 .. MaxSecrets

(* A fact known after an instruction was given by it, or known before.     *)
LEMMA KnownNext ==
    ASSUME NEW s, NEW n \in Nat \ {0}, NEW v, Known(s, n + 1, v)
    PROVE  Gives(s[n], v) \/ (Known(s, n, v) /\ ~ Kills(s[n], v))
<1>1. n + 1 - 1 = n /\ n \in 1 .. n
  OBVIOUS
<1>2. ASSUME NEW m \in 1 .. n, Gives(s[m], v),
             \A k \in m + 1 .. n : ~ Kills(s[k], v)
      PROVE  Gives(s[n], v) \/ (Known(s, n, v) /\ ~ Kills(s[n], v))
  <2>1. CASE m = n
    BY <1>2, <2>1
  <2>2. CASE m # n
    <3>1. m \in 1 .. n - 1 /\ n \in m + 1 .. n
      BY <2>2
    <3>2. \A k \in m + 1 .. n - 1 : k \in m + 1 .. n
      OBVIOUS
    <3> QED BY <1>2, <3>1, <3>2 DEF Known, Made
  <2> QED BY <2>1, <2>2
<1>3. ASSUME v \in Blank, \A k \in 1 .. n : ~ Kills(s[k], v)
      PROVE  Known(s, n, v) /\ ~ Kills(s[n], v)
  BY <1>3 DEF Known, Kept
<1>4. \/ \E m \in 1 .. n : /\ Gives(s[m], v)
                           /\ \A k \in m + 1 .. n : ~ Kills(s[k], v)
      \/ v \in Blank /\ \A k \in 1 .. n : ~ Kills(s[k], v)
  BY <1>1 DEF Known, Made, Kept
<1> QED BY <1>2, <1>3, <1>4

(* At the first instruction only the blank facts are known.                *)
LEMMA KnownFirst ==
    ASSUME NEW s, NEW v, Known(s, 1, v)
    PROVE  v \in Blank
BY DEF Known, Made

(* The instruction a command is at: all it needs is known.                 *)
LEMMA AtInstruction ==
    ASSUME Placed, NEW p \in Process, command[p] # Idle
    PROVE  /\ pc[p] \in Nat \ {0}
           /\ \/ /\ instruction(p) \in Instructions
                 /\ pc[p] + 1 \in DOMAIN Programs[command[p].name]
                 /\ \A v : Needs(instruction(p), v) => Knows(p, v)
              \/ /\ instruction(p) = <<"print", "result">>
                 /\ Knows(p, proved) \/ Knows(p, none)
<1> DEFINE name == command[p].name
           s == Programs[name]
           n == pc[p]
<1>1. command[p] \in Command[p] /\ n \in DOMAIN s
  BY DEF Placed
<1>2. name \in DOMAIN main
  BY <1>1, CommandAssumption
<1> HIDE DEF name
<1>3. PICK l \in Nat \ {0} :
         /\ DOMAIN s = 1 .. l
         /\ \A k \in 1 .. l - 1 :
               /\ s[k] \in Instructions
               /\ \A v : Needs(s[k], v) => Known(s, k, v)
         /\ s[l] = <<"print", "result">>
         /\ Known(s, l, proved) \/ Known(s, l, none)
  BY <1>2, ProgramsRun
<1>4. instruction(p) = s[n]
  BY DEF instruction, name
<1>5. \A v : Knows(p, v) <=> Known(s, n, v)
  BY DEF Knows, name
<1> HIDE DEF s, n
<1>6. n \in 1 .. l
  BY <1>1, <1>3
<1>7. CASE n = l
  BY <1>3, <1>4, <1>5, <1>6, <1>7 DEF n
<1>8. CASE n # l
  <2>1. n \in 1 .. l - 1 /\ n + 1 \in 1 .. l /\ n \in Nat \ {0}
    BY <1>6, <1>8
  <2> QED BY <1>3, <1>4, <1>5, <2>1 DEF n, s, name
<1> QED BY <1>7, <1>8

(* A step of the command p that does not end it.                           *)
Moves(p, i) ==
    /\ i = instruction(p) /\ i \in Instructions
    /\ \A v : Needs(i, v) => Knows(p, v)
    /\ \A v : Knows(p, v)' => Gives(i, v) \/ (Knows(p, v) /\ ~ Kills(i, v))
    /\ \A q \in Process \ {p} : \A v : Knows(q, v)' <=> Knows(q, v)

(* One instruction later a process knows what it gives and loses what it   *)
(* kills.                                                                  *)
LEMMA Advances ==
    ASSUME Placed, NEW p \in Process, NEW op, At(p, op), op # "print",
           Advance(p), exists' \in BOOLEAN, secrets' \in 0 .. MaxSecrets
    PROVE  Placed' /\ Moves(p, instruction(p))
<1> DEFINE i == instruction(p)
           name == command[p].name
           s == Programs[name]
           n == pc[p]
<1>1. command[p] # Idle /\ i[1] = op
  BY DEF At
<1>2. i # <<"print", "result">>
  BY <1>1
<1>3. /\ n \in Nat \ {0} /\ i \in Instructions
      /\ n + 1 \in DOMAIN s
      /\ \A v : Needs(i, v) => Knows(p, v)
  BY <1>1, <1>2, AtInstruction
<1>4. /\ command' = command
      /\ pc' = [q \in Process |-> IF q = p THEN n + 1 ELSE pc[q]]
  BY DEF Advance, Placed
<1>5. \A q \in Process \ {p} : \A v : Knows(q, v)' <=> Knows(q, v)
  BY <1>4 DEF Knows
<1>6. ASSUME NEW v, Knows(p, v)'
      PROVE  Gives(i, v) \/ (Knows(p, v) /\ ~ Kills(i, v))
  <2>1. Known(s, n + 1, v)
    BY <1>4, <1>6 DEF Knows
  <2>2. i = s[n]
    BY DEF instruction
  <2>3. Gives(s[n], v) \/ (Known(s, n, v) /\ ~ Kills(s[n], v))
    <3> HIDE DEF s, n
    <3> QED BY <1>3, <2>1, KnownNext
  <2> QED BY <1>1, <2>2, <2>3 DEF Knows
<1>7. Placed'
  <2>1. \A q \in Process :
           pc'[q] \in IF command[q] = Idle THEN {0}
                      ELSE DOMAIN Programs[command[q].name]
    BY <1>1, <1>3, <1>4 DEF Placed
  <2> QED BY <1>4, <2>1 DEF Placed
<1> QED BY <1>3, <1>5, <1>6, <1>7 DEF Moves

(* A process that exits, by raising or after printing, knows nothing.      *)
LEMMA Exits ==
    ASSUME Placed, NEW p \in Process, Exit(p), UNCHANGED <<exists, secrets>>
    PROVE  /\ Placed'
           /\ \A v : ~ Knows(p, v)'
           /\ \A q \in Process \ {p} : \A v : Knows(q, v)' <=> Knows(q, v)
<1>1. /\ command' = [q \in Process |-> IF q = p THEN Idle ELSE command[q]]
      /\ pc' = [q \in Process |-> IF q = p THEN 0 ELSE pc[q]]
  BY DEF Exit, Placed
<1>2. Placed'
  BY <1>1 DEF Placed
<1> QED BY <1>1, <1>2 DEF Knows

(* A command starts at its first instruction, with blank facts only.       *)
LEMMA Starts ==
    ASSUME Placed, NEW p \in Process, NEW c \in Command[p], Start(p, c)
    PROVE  /\ Placed'
           /\ \A v : Knows(p, v)' => v \in Blank
           /\ \A q \in Process \ {p} : \A v : Knows(q, v)' <=> Knows(q, v)
<1>1. /\ command' = [q \in Process |-> IF q = p THEN c ELSE command[q]]
      /\ pc' = [q \in Process |-> IF q = p THEN 1 ELSE pc[q]]
      /\ UNCHANGED <<exists, secrets>>
  BY DEF Start, Placed
<1>2. c # Idle /\ c.name \in DOMAIN main
  BY CommandAssumption
<1>3. 1 \in DOMAIN Programs[c.name]
  <2>1. \E l \in Nat \ {0} : DOMAIN Programs[c.name] = 1 .. l
    BY <1>2, ProgramsRun
  <2> QED BY <2>1
<1>4. Placed'
  BY <1>1, <1>2, <1>3 DEF Placed
<1>5. \A v : Knows(p, v)' => v \in Blank
  BY <1>1, KnownFirst DEF Knows
<1> QED BY <1>1, <1>4, <1>5 DEF Knows

(* Steps that move no process leave every process's facts.                 *)
LEMMA Waits ==
    ASSUME UNCHANGED <<command, pc>>
    PROVE  \A q, v : Knows(q, v)' <=> Knows(q, v)
BY DEF Knows

-----------------------------------------------------------------------------
(* The file or variable of an operation that has but one.                  *)
LEMMA Pair ==
    ASSUME NEW i, NEW S, NEW T, NEW o, NEW m, i \in S \X T \/ i = <<o, m>>
    PROVE  /\ i = <<i[1], i[2]>>
           /\ i \in S \X T => i[1] \in S /\ i[2] \in T
           /\ i = <<o, m>> => i[1] = o /\ i[2] = m
<1>1. CASE i \in S \X T
  BY <1>1
<1>2. CASE i = <<o, m>>
  BY <1>2
<1> QED BY <1>1, <1>2

(* The operations of the fixed instructions, one by one.                   *)
LEMMA FixedNames ==
    ASSUME NEW op, NEW n, <<op, n>> \in Fixed
    PROVE  /\ op \in {"require new", "mkdir", "bundle", "accelerate"} =>
                  n = "trust"
           /\ op \in {"bell", "workload"} => n = "experiment"
           /\ op = "freeze" => n = "intent"
           /\ op \in {"sign", "admit"} => n = "request"
           /\ op = "issue" => n = "header"
           /\ op = "attest" => n = "receipt"
           /\ op \in {"preflight", "construct"} => n = "adapter"
           /\ op \in {"run", "verify result"} => n = "result"
           /\ op = "summarize" => n = "summary"
           /\ op \notin {"load", "open", "fill", "generate"}
BY DEF Fixed

(* Which names each operation of an instruction is applied to.             *)
LEMMA Named ==
    ASSUME NEW i \in Instructions
    PROVE  LET op == i[1]
               n  == i[2]
           IN  /\ i = <<op, n>>
               /\ op = "load" => n \in File \cup {"issuer"}
               /\ op \in {"open", "fill"} => n \in File
               /\ op = "generate" => n \in Keys
               /\ op \in {"mkdir", "bundle", "accelerate"} => n = "trust"
               /\ op \in {"bell", "workload"} => n = "experiment"
               /\ op = "freeze" => n = "intent"
               /\ op \in {"sign", "admit"} => n = "request"
               /\ op = "issue" => n = "header"
               /\ op = "attest" => n = "receipt"
               /\ op \in {"preflight", "construct"} => n = "adapter"
               /\ op \in {"run", "verify result"} => n = "result"
               /\ op = "summarize" => n = "summary"
<1> DEFINE op == i[1]
           n  == i[2]
<1>1. /\ i = <<op, n>>
      /\ \/ op = "load" /\ n \in File \cup {"issuer"}
         \/ op \in {"open", "fill"} /\ n \in File
         \/ op = "generate" /\ n \in Keys
         \/ <<op, n>> \in Fixed
  BY Pair, ZenonT(40) DEF Instructions, Fixed, Keys
<1> HIDE DEF op, n
<1>2. CASE <<op, n>> \notin Fixed
  BY <1>1, <1>2 DEF op, n
<1>3. CASE <<op, n>> \in Fixed
  BY <1>1, <1>3, FixedNames, ZenonT(40) DEF op, n
<1> QED BY <1>1, <1>2, <1>3

(* What authorize_processes returns is assembled of votes.                 *)
LEMMA AttestAssembles ==
    ASSUME NEW p, Attest(p)
    PROVE  \E votes : Assign(p, "receipt", assemble(memory[p].header, votes,
                                                    memory[p].issuer))
<1> DEFINE ids == memory[p].issuer.policy.verifier_ids
           cast(draws) == [i \in DOMAIN ids |->
                              attest(memory[p].request, memory[p].header,
                                     files.trust, files[ids[i]], draws[i])]
<1>1. PICK draws \in [DOMAIN ids -> Draws["attestation"]] :
         Assign(p, "receipt", assemble(memory[p].header, cast(draws),
                                       memory[p].issuer))
  BY Zenon DEF Attest
<1> HIDE DEF cast
<1> QED BY <1>1

(* The disjuncts of Step, each with the operation it executes.             *)
LEMMA ActionAt ==
    ASSUME NEW p, Step(p)
    PROVE  LET op == instruction(p)[1] IN
           /\ command[p] # Idle /\ op # "print"
           /\ op = "load" => Load(p)
           /\ op = "open" => Open(p)
           /\ op = "fill" => Fill(p)
           /\ op = "mkdir" => Mkdir(p)
           /\ op = "generate" => Generate(p, instruction(p)[2])
           /\ op = "bundle" => Bundle(p)
           /\ op = "bell" => Bell(p)
           /\ op = "accelerate" => Accelerate(p)
           /\ op = "workload" => Workload(p)
           /\ op = "freeze" => Freeze(p)
           /\ op = "sign" => Sign(p)
           /\ op = "issue" => Issue(p)
           /\ op = "attest" => Attest(p)
           /\ op = "admit" => Admit(p)
           /\ op = "run" => \E answer \in Answer :
                                Run(p, answer) \/ RunFails(p, answer)
           /\ op = "verify result" => VerifyResult(p)
           /\ op = "try altered" => TryAltered(p)
           /\ op = "try replay" => TryReplay(p)
<1> DEFINE op == instruction(p)[1]
<1> USE DEF At
<1>1. CASE Load(p) \/ Open(p) \/ Fill(p) \/ RequireNew(p) \/ Mkdir(p)
  BY <1>1 DEF Load, Open, Fill, RequireNew, Mkdir
<1>2. CASE \/ \E identity \in Range(Identities) : Generate(p, identity)
           \/ Bundle(p) \/ Bell(p) \/ Accelerate(p) \/ Workload(p)
  BY <1>2 DEF Generate, Bundle, Bell, Accelerate, Workload
<1>3. CASE Freeze(p) \/ Sign(p) \/ Issue(p) \/ Attest(p)
  BY <1>3 DEF Freeze, Sign, Issue, Attest
<1>4. CASE Preflight(p) \/ Construct(p) \/ Summarize(p)
  BY <1>4 DEF Preflight, Construct, Summarize
<1>5. CASE Admit(p)
  BY <1>5 DEF Admit
<1>6. CASE \E answer \in Answer : Run(p, answer) \/ RunFails(p, answer)
  BY <1>6 DEF Run, RunFails, Simulate
<1>7. CASE Inspect(p) \/ Verify(p) \/ VerifyResult(p)
  BY <1>7 DEF Inspect, Verify, VerifyResult, Check
<1>8. CASE TryAltered(p) \/ TryReplay(p)
  BY <1>8 DEF TryAltered, TryReplay, Try
<1> QED BY <1>1, <1>2, <1>3, <1>4, <1>5, <1>6, <1>7, <1>8 DEF Step

(* What the instruction i of p leaves alone.                               *)
Frame(p, i) ==
    /\ now' = now /\ alarms' = alarms
    /\ exists' \in BOOLEAN /\ (exists => exists')
    /\ secrets' \in {secrets, secrets + 1} /\ secrets' \in 0 .. MaxSecrets
    /\ \A q \in Process : \A n \in Local :
          \/ memory'[q][n] = memory[q][n]
          \/ q = p /\ i[1] \in Setters /\ n = i[2]
    /\ i[1] \notin {"open", "fill"} => files' = files
    /\ i[1] # "freeze" => frozen' = frozen
    /\ i[1] # "admit" => spent' = spent
    /\ i[1] \notin {"admit", "run"} => executing' = executing
    /\ i[1] # "run" => runs' = runs

(* Assignments to a local variable leave the other variables.              *)
LEMMA AssignFrame ==
    ASSUME FrozenShape, NEW p, NEW name, NEW value, Assign(p, name, value),
           NEW i, i[1] \in Setters, i[2] = name
    PROVE  \A q \in Process : \A n \in Local :
               \/ memory'[q][n] = memory[q][n]
               \/ q = p /\ i[1] \in Setters /\ n = i[2]
BY DEF FrozenShape, Assign

(* A command goes on, or it ends because of what a simulator or execute()  *)
(* answered.                                                               *)
LEMMA StepFrame ==
    ASSUME Placed, FrozenShape, NEW p \in Process, Step(p)
    PROVE  \/ Advance(p) /\ Frame(p, instruction(p))
           \/ \E answer \in Answer : RunFails(p, answer)
           \/ Exit(p) /\ (TryAltered(p) \/ TryReplay(p))
<1> DEFINE i == instruction(p)
           Fine == Advance(p) /\ Frame(p, i)
<1>1. exists \in BOOLEAN /\ secrets \in 0 .. MaxSecrets /\ MaxSecrets \in Nat
  BY WorkspaceAssumption DEF Placed
<1>2. ASSUME UNCHANGED <<now, exists, files, spent, alarms>>,
             secrets' \in {secrets, secrets + 1},
             secrets' \in 0 .. MaxSecrets,
             i[1] # "freeze" => frozen' = frozen,
             i[1] # "run" => executing' = executing /\ runs' = runs,
             NEW name, NEW value, Assign(p, name, value),
             i[1] \in Setters, i[2] = name
      PROVE  Fine
  <2>1. \A q \in Process : \A n \in Local :
           \/ memory'[q][n] = memory[q][n]
           \/ q = p /\ i[1] \in Setters /\ n = i[2]
    BY <1>2, AssignFrame
  <2>2. i[1] \notin {"admit", "run"} => executing' = executing
    BY <1>2
  <2>3. exists' \in BOOLEAN /\ (exists => exists')
    BY <1>1, <1>2
  <2> QED BY <1>2, <2>1, <2>2, <2>3 DEF Frame, Assign
<1>3. ASSUME Advance(p), memory' = memory,
             UNCHANGED <<now, secrets, frozen, runs, alarms>>,
             exists' \in BOOLEAN, exists => exists',
             i[1] \notin {"open", "fill"} => files' = files,
             i[1] # "admit" => spent' = spent /\ executing' = executing
      PROVE  Fine
  BY <1>1, <1>3 DEF Frame
<1>4. i \in Instructions \/ i = <<"print", "result">>
  <2>1. command[p] # Idle
    BY ActionAt
  <2> QED BY <2>1, AtInstruction
<1>5. ASSUME NEW op, At(p, op), op # "print"
      PROVE  i \in Instructions /\ i[1] = op
  BY <1>4, <1>5 DEF At
<1>6. CASE Load(p)
  <2>1. /\ Assign(p, i[2], file(i[2])) /\ At(p, "load")
        /\ UNCHANGED <<now, exists, files, executing, secrets, spent, frozen,
                       runs, alarms>>
    BY <1>6 DEF Load
  <2>2. i[1] = "load"
    BY <1>5, <2>1
  <2> QED BY <1>1, <1>2, <2>1, <2>2 DEF Setters
<1>7. CASE Open(p) \/ Fill(p) \/ RequireNew(p) \/ Mkdir(p)
  <2>1. \/ At(p, "open") /\ exists' = TRUE
        \/ At(p, "fill") /\ exists' = exists
        \/ At(p, "require new") /\ exists' = exists /\ files' = files
        \/ At(p, "mkdir") /\ exists' = TRUE /\ files' = files
    BY <1>7 DEF Open, Fill, RequireNew, Mkdir
  <2>2. /\ Advance(p) /\ memory' = memory
        /\ UNCHANGED <<now, secrets, frozen, runs, alarms, spent, executing>>
    BY <1>7 DEF Open, Fill, RequireNew, Mkdir
  <2> QED BY <1>1, <1>3, <1>5, <2>1, <2>2
<1>8. CASE \/ \E identity \in Range(Identities) : Generate(p, identity)
           \/ Bundle(p) \/ Bell(p) \/ Accelerate(p) \/ Workload(p)
  <2>1. PICK op \in {"generate", "bundle", "bell", "accelerate",
                     "workload"} :
           /\ At(p, op)
           /\ \E value : Assign(p, i[2], value)
           /\ UNCHANGED <<now, exists, files, executing, secrets, spent,
                          frozen, runs, alarms>>
    <3> USE Named
    <3>1. CASE \E identity \in Range(Identities) : Generate(p, identity)
      BY <3>1 DEF Generate
    <3>2. CASE Bundle(p)
      BY <1>5, <3>2, Zenon DEF Bundle
    <3>3. CASE Bell(p)
      BY <1>5, <3>3, Zenon DEF Bell
    <3>4. CASE Accelerate(p)
      BY <1>5, <3>4, Zenon DEF Accelerate
    <3>5. CASE Workload(p)
      BY <1>5, <3>5, Zenon DEF Workload
    <3> QED BY <1>8, <3>1, <3>2, <3>3, <3>4, <3>5
  <2>2. i[1] = op
    BY <1>5, <2>1
  <2> QED BY <1>1, <1>2, <2>1, <2>2 DEF Setters
<1>9. CASE Freeze(p) \/ Sign(p) \/ Issue(p) \/ Attest(p)
  <2>1. PICK op \in {"freeze", "sign", "issue", "attest"} :
           /\ At(p, op)
           /\ \E value : Assign(p, i[2], value)
           /\ secrets' \in {secrets, secrets + 1}
           /\ secrets' \in 0 .. MaxSecrets
           /\ op # "freeze" => frozen' = frozen
           /\ UNCHANGED <<now, exists, files, executing, spent, runs, alarms>>
    <3>0. secrets < MaxSecrets => secrets + 1 \in 0 .. MaxSecrets
      BY <1>1
    <3> USE Named
    <3>1. CASE Freeze(p)
      BY <1>5, <3>0, <3>1, Zenon DEF Freeze
    <3>2. CASE Sign(p)
      BY <1>1, <1>5, <3>2, Zenon DEF Sign
    <3>3. CASE Issue(p)
      BY <1>5, <3>0, <3>3, Zenon DEF Issue
    <3>4. CASE Attest(p)
      BY <1>1, <1>5, <3>4, Zenon DEF Attest
    <3> QED BY <1>9, <3>1, <3>2, <3>3, <3>4
  <2>2. i[1] = op
    BY <1>5, <2>1
  <2> QED BY <1>1, <1>2, <2>1, <2>2 DEF Setters
<1>10. CASE Preflight(p) \/ Construct(p) \/ Summarize(p)
  <2>1. PICK op \in {"preflight", "construct", "summarize"} :
           /\ At(p, op)
           /\ \E value : Assign(p, i[2], value)
           /\ UNCHANGED <<now, exists, files, executing, secrets, spent,
                          frozen, runs, alarms>>
    <3> USE Named
    <3>1. CASE Preflight(p)
      BY <1>5, <3>1, Zenon DEF Preflight
    <3>2. CASE Construct(p)
      BY <1>5, <3>2, Zenon DEF Construct
    <3>3. CASE Summarize(p)
      BY <1>5, <3>3, Zenon DEF Summarize
    <3> QED BY <1>10, <3>1, <3>2, <3>3
  <2>2. i[1] = op
    BY <1>5, <2>1
  <2> QED BY <1>1, <1>2, <2>1, <2>2 DEF Setters
<1>11. CASE Admit(p)
  <2>1. /\ At(p, "admit") /\ Advance(p)
        /\ UNCHANGED <<now, exists, files, memory, secrets, frozen, runs,
                       alarms>>
    BY <1>11 DEF Admit
  <2> QED BY <1>1, <1>3, <1>5, <2>1
<1>12. ASSUME NEW answer, Run(p, answer) PROVE Fine
  <2>1. /\ At(p, "run")
        /\ \E value : Assign(p, "result", value)
        /\ UNCHANGED <<now, exists, files, secrets, spent, frozen, alarms>>
    BY <1>12 DEF Run, Simulate
  <2>2. i[1] = "run" /\ i[2] = "result"
    BY <1>5, <2>1, Named
  <2> QED BY <1>1, <1>2, <2>1, <2>2 DEF Setters
<1>13. CASE \/ Inspect(p) \/ Verify(p) \/ VerifyResult(p)
            \/ Advance(p) /\ (TryAltered(p) \/ TryReplay(p))
                /\ UNCHANGED <<memory, executing, alarms>>
  <2>1. PICK op \in {"inspect", "verify", "verify result", "try altered",
                     "try replay"} :
           /\ At(p, op) /\ Advance(p)
           /\ UNCHANGED <<now, exists, files, memory, executing, secrets,
                          spent, frozen, runs, alarms>>
    BY <1>13, Zenon DEF Inspect, Verify, VerifyResult, Check, TryAltered,
                        TryReplay, Try
  <2> QED BY <1>1, <1>3, <1>5, <2>1
<1>14. CASE TryAltered(p) \/ TryReplay(p)
  <2>1. Exit(p) \/ (Advance(p) /\ UNCHANGED <<memory, executing, alarms>>)
    BY <1>14 DEF TryAltered, TryReplay, Try
  <2> QED BY <1>13, <1>14, <2>1
<1> QED BY <1>6, <1>7, <1>8, <1>9, <1>10, <1>11, <1>12, <1>13, <1>14 DEF Step

-----------------------------------------------------------------------------
(* No command takes a step; the operator may edit a file that is there.    *)
Waiting ==
    /\ UNCHANGED <<exists, command, pc, memory, executing, secrets, spent,
                   frozen, runs, alarms>>
    /\ \/ files' = files
       \/ \E e : EditExperiment(e) \/ EditIntent(e)
    /\ \A n \in File \ {"experiment", "intent"} : files'[n] = files[n]
    /\ \A n \in File : files'[n] # Nothing => files[n] # Nothing

(* Nothing of the other commands changes.                                  *)
Alone(p) ==
    \A q \in Process \ {p} :
        /\ command'[q] = command[q] /\ pc'[q] = pc[q]
        /\ executing'[q] = executing[q]
        /\ \A n \in Local : memory'[q][n] = memory[q][n]
        /\ \A v : Knows(q, v)' <=> Knows(q, v)

(* The command p begins, ...                                               *)
Begins(p) ==
    /\ command[p] = Idle /\ Alone(p) /\ pc'[p] = 1
    /\ \A v : Knows(p, v)' => v \in Blank
    /\ UNCHANGED <<exists, files, memory, executing, secrets, spent, frozen,
                   runs, alarms>>

(* ... ends, perhaps with a job that a simulator was given, ...            *)
Ends(p) ==
    /\ command'[p] = Idle /\ Alone(p)
    /\ \A v : ~ Knows(p, v)'
    /\ executing'[p] = Nothing
    /\ \A n \in Local : memory'[p][n] = Nothing
    /\ UNCHANGED <<exists, files, secrets, spent, frozen>>
    /\ \/ runs' = runs
       \/ \E answer \in Answer : Simulate(p, answer)
    /\ \/ alarms' = alarms
       \/ TryAltered(p) \/ TryReplay(p)

(* ... or goes on.                                                         *)
Goes(p) ==
    /\ Step(p) /\ Alone(p) /\ pc'[p] = pc[p] + 1
    /\ command' = command /\ command[p] # Idle
    /\ Moves(p, instruction(p)) /\ Frame(p, instruction(p))

(* A step of the system is one of the four above; whichever, every process *)
(* stays at an instruction of its command.                                 *)
LEMMA Progress ==
    ASSUME Placed, FrozenShape, [Next]_vars
    PROVE  /\ Placed'
           /\ \/ Waiting
              \/ \E p \in Process : Begins(p) \/ Ends(p) \/ Goes(p)
<1>1. /\ exists \in BOOLEAN /\ secrets \in 0 .. MaxSecrets
      /\ command = [p \in Process |-> command[p]]
      /\ pc = [p \in Process |-> pc[p]]
      /\ executing = [p \in Process |-> executing[p]]
      /\ memory = [p \in Process |-> [n \in Local |-> memory[p][n]]]
      /\ files = [n \in File |-> files[n]]
  BY DEF Placed, FrozenShape
<1>2. ASSUME UNCHANGED <<exists, command, pc, memory, executing, secrets,
                         spent, runs, alarms>>
      PROVE  Placed'
  BY <1>2 DEF Placed
<1>3. CASE UNCHANGED vars \/ Tick
  <2>1. /\ UNCHANGED <<exists, command, pc, memory, executing, secrets, spent,
                       frozen, runs, alarms>>
        /\ files' = files
    BY <1>3 DEF vars, Tick
  <2> QED BY <1>2, <2>1 DEF Waiting
<1>4. ASSUME NEW e, EditExperiment(e) \/ EditIntent(e)
      PROVE  Placed' /\ Waiting
  <2>1. /\ UNCHANGED <<exists, command, pc, memory, executing, secrets, spent,
                       frozen, runs, alarms>>
        /\ \E n \in {"experiment", "intent"} : \E content :
              files[n] # Nothing /\ files' = [files EXCEPT ![n] = content]
    <3>1. CASE EditExperiment(e)
      BY <3>1 DEF EditExperiment
    <3>2. CASE EditIntent(e)
      BY <3>2 DEF EditIntent
    <3> QED BY <1>4, <3>1, <3>2
  <2>2. PICK n \in {"experiment", "intent"} : \E content :
           files[n] # Nothing /\ files' = [files EXCEPT ![n] = content]
    BY <2>1
  <2>3. \A m \in File : m # n => files'[m] = files[m]
    BY <1>1, <2>2
  <2>4. \A m \in File : files'[m] # Nothing => files[m] # Nothing
    BY <2>2, <2>3
  <2> QED BY <1>2, <1>4, <2>1, <2>2, <2>3, <2>4 DEF Waiting
<1>5. ASSUME NEW p \in Process, NEW c \in Command[p], Start(p, c)
      PROVE  Placed' /\ Begins(p)
  <2>1. /\ Placed'
        /\ \A v : Knows(p, v)' => v \in Blank
        /\ \A q \in Process \ {p} : \A v : Knows(q, v)' <=> Knows(q, v)
    BY <1>5, Starts
  <2>2. /\ command[p] = Idle
        /\ \A q \in Process \ {p} :
              command'[q] = command[q] /\ pc'[q] = pc[q]
        /\ pc'[p] = 1
        /\ UNCHANGED <<exists, files, memory, executing, secrets, spent,
                       frozen, runs, alarms>>
    BY <1>1, <1>5 DEF Start
  <2> QED BY <2>1, <2>2 DEF Begins, Alone
<1>6. ASSUME NEW p \in Process, Exit(p),
             UNCHANGED <<exists, files, secrets, spent, frozen>>,
             \/ runs' = runs
             \/ \E answer \in Answer : Simulate(p, answer),
             \/ alarms' = alarms
             \/ TryAltered(p) \/ TryReplay(p)
      PROVE  Placed' /\ Ends(p)
  <2>1. /\ Placed'
        /\ \A v : ~ Knows(p, v)'
        /\ \A q \in Process \ {p} : \A v : Knows(q, v)' <=> Knows(q, v)
    BY <1>6, Exits
  <2>2. /\ command'[p] = Idle /\ executing'[p] = Nothing
        /\ \A n \in Local : memory'[p][n] = Nothing
    BY <1>1, <1>6 DEF Exit
  <2>3. \A q \in Process \ {p} :
           /\ command'[q] = command[q] /\ pc'[q] = pc[q]
           /\ executing'[q] = executing[q]
           /\ \A n \in Local : memory'[q][n] = memory[q][n]
    BY <1>1, <1>6 DEF Exit
  <2> QED BY <1>6, <2>1, <2>2, <2>3 DEF Ends, Alone
<1>7. ASSUME NEW p \in Process, Return(p) \/ Stop(p)
      PROVE  Placed' /\ Ends(p)
  BY <1>6, <1>7 DEF Return, Stop
<1>8. ASSUME NEW p \in Process, Step(p)
      PROVE  Placed' /\ (Ends(p) \/ Goes(p))
  <2> DEFINE i == instruction(p)
  <2>1. CASE Advance(p) /\ Frame(p, i)
    <3>1. At(p, i[1]) /\ i[1] # "print" /\ command[p] # Idle
      BY <1>8, ActionAt DEF At
    <3>2. exists' \in BOOLEAN /\ secrets' \in 0 .. MaxSecrets
      BY <2>1 DEF Frame
    <3>3. Placed' /\ Moves(p, i)
      BY <2>1, <3>1, <3>2, Advances
    <3>4. \A q \in Process \ {p} : executing'[q] = executing[q]
      <4>1. CASE i[1] \notin {"admit", "run"}
        BY <2>1, <4>1 DEF Frame
      <4>2. CASE i[1] = "admit"
        <5>1. Admit(p)
          BY <1>8, <4>2, ActionAt
        <5> QED BY <1>1, <5>1 DEF Admit
      <4>3. CASE i[1] = "run"
        <5>1. PICK answer \in Answer : Run(p, answer) \/ RunFails(p, answer)
          BY <1>8, <4>3, ActionAt
        <5>2. executing' = [executing EXCEPT ![p] = Nothing]
          BY <5>1 DEF Run, RunFails, Exit
        <5> QED BY <1>1, <5>2
      <4> QED BY <4>1, <4>2, <4>3
    <3>5. \A q \in Process \ {p} : \A n \in Local :
             memory'[q][n] = memory[q][n]
      BY <2>1 DEF Frame
    <3>6. /\ pc'[p] = pc[p] + 1 /\ command' = command
          /\ \A q \in Process \ {p} : pc'[q] = pc[q]
      BY <1>1, <2>1 DEF Advance
    <3> QED BY <1>8, <2>1, <3>1, <3>3, <3>4, <3>5, <3>6
            DEF Goes, Alone, Moves
  <2>2. CASE \E answer \in Answer : RunFails(p, answer)
    BY <1>6, <2>2 DEF RunFails
  <2>3. CASE Exit(p) /\ (TryAltered(p) \/ TryReplay(p))
    BY <1>6, <2>3 DEF TryAltered, TryReplay, Try
  <2> QED BY <1>8, <2>1, <2>2, <2>3, StepFrame
<1> QED BY <1>3, <1>4, <1>5, <1>7, <1>8 DEF Next

-----------------------------------------------------------------------------
(* What a fact is known from.                                              *)
LEMMA GivenBy ==
    ASSUME NEW i
    PROVE  /\ \A n : Gives(i, has(n)) => i[1] \in Setters /\ i[2] = n
           /\ \A n : Gives(i, opened(n)) => i[1] = "open" /\ i[2] = n
           /\ \A n : Gives(i, written(n)) => i[1] = "fill" /\ i[2] = n
           /\ Gives(i, made) \/ Gives(i, new) => i[1] = "mkdir"
           /\ Gives(i, admitted) => i[1] = "admit"
           /\ Gives(i, proved) => i[1] \in {"run", "verify result"}
           /\ ~ Gives(i, own) /\ ~ Gives(i, none)
           /\ Gives(i, vetted) => i[1] = "require new"
           /\ Gives(i, builtin) => i[1] = "bundle"
           /\ Gives(i, fits) => /\ i[1] \in {"load", "bell", "workload"}
                                /\ i[2] = "experiment"
BY DEF Gives, has, opened, written, made, new, admitted, proved, own, none,
       vetted, builtin, fits

(* What a variable gets its value from.                                    *)
LEMMA SetBy ==
    ASSUME NEW i \in Instructions, i[1] \in Setters
    PROVE  LET op == i[1]
               n  == i[2]
           IN  /\ n = "header" => op = "issue"
               /\ n = "receipt" => op \in {"load", "attest"}
               /\ n = "request" => op \in {"load", "sign"}
               /\ n = "intent" => op \in {"load", "freeze"}
               /\ n = "experiment" => op \in {"load", "bell", "workload"}
               /\ n = "result" => op \in {"load", "run"}
               /\ n = "trust" => op \in {"load", "bundle", "accelerate"}
               /\ n \in Keys => op \in {"load", "generate"}
<1> DEFINE op == i[1]
           n  == i[2]
<1>1. /\ op = "load" => n \in File \cup {"issuer"}
      /\ op = "generate" => n \in Keys
      /\ op \in {"mkdir", "bundle", "accelerate"} => n = "trust"
      /\ op \in {"bell", "workload"} => n = "experiment"
      /\ op = "freeze" => n = "intent"
      /\ op \in {"sign", "admit"} => n = "request"
      /\ op = "issue" => n = "header"
      /\ op = "attest" => n = "receipt"
      /\ op \in {"preflight", "construct"} => n = "adapter"
      /\ op \in {"run", "verify result"} => n = "result"
      /\ op = "summarize" => n = "summary"
  BY Named
<1>2. op \in Setters
  OBVIOUS
<1>3. Keys \cap {"header", "receipt", "request", "intent", "experiment",
                "result", "trust", "adapter", "summary"} = {}
  BY DEF Keys, Range, Identities
<1>4. "header" \notin File \cup {"issuer"}
  BY DEF File, Range, Identities
<1> HIDE DEF op, n
<1>5. \/ op \in {"load", "generate"}
      \/ op \in {"bundle", "accelerate", "bell", "workload"}
      \/ op \in {"freeze", "sign", "issue", "attest", "preflight",
                 "construct"}
      \/ op \in {"run", "summarize"}
  BY <1>2 DEF Setters
<1>6. CASE op \in {"load", "generate"}
  BY <1>1, <1>3, <1>4, <1>6 DEF op, n
<1>7. CASE op \in {"bundle", "accelerate", "bell", "workload"}
  BY <1>1, <1>3, <1>7 DEF op, n
<1>8. CASE op \in {"freeze", "sign", "issue", "attest", "preflight",
                   "construct"}
  BY <1>1, <1>3, <1>8 DEF op, n
<1>9. CASE op \in {"run", "summarize"}
  BY <1>1, <1>3, <1>9 DEF op, n
<1> QED BY <1>5, <1>6, <1>7, <1>8, <1>9

(* The value that a variable gets.                                         *)
LEMMA Assigned ==
    ASSUME FrozenShape, NEW p \in Process, NEW name \in Local, NEW value,
           Assign(p, name, value)
    PROVE  memory'[p][name] = value
BY DEF FrozenShape, Assign

(* Where n is new to p, or its value, p is at the one that sets it.        *)
LEMMA Variable ==
    ASSUME NEW p \in Process, Goes(p), NEW q \in Process, NEW n \in Local,
           Knows(q, has(n))'
    PROVE  LET i == instruction(p) IN
           \/ q = p /\ i \in Instructions /\ i[1] \in Setters /\ i[2] = n
           \/ Knows(q, has(n)) /\ memory'[q][n] = memory[q][n]
<1> DEFINE i == instruction(p)
<1>1. Moves(p, i) /\ Frame(p, i) /\ Alone(p)
  BY DEF Goes
<1>2. CASE q = p
  <2>1. i \in Instructions
    BY <1>1 DEF Moves
  <2>2. Gives(i, has(n)) \/ Knows(p, has(n))
    BY <1>1, <1>2 DEF Moves
  <2>3. memory'[p][n] = memory[p][n] \/ (i[1] \in Setters /\ n = i[2])
    BY <1>1 DEF Frame
  <2> QED BY <1>2, <2>1, <2>2, <2>3, GivenBy
<1>3. CASE q # p
  BY <1>1, <1>3 DEF Alone
<1> QED BY <1>2, <1>3

(* What p knows at the instruction it is at.                               *)
LEMMA Needed ==
    ASSUME NEW p, NEW i, Moves(p, i)
    PROVE  LET op == i[1]
               n  == i[2]
           IN  /\ op = "generate" => Knows(p, made)
               /\ op \in {"open", "fill"} /\ n \in Keys =>
                      Knows(p, made) /\ Knows(p, new)
               /\ op \in {"open", "fill"} /\ n = "trust" => Knows(p, made)
               /\ op = "fill" => Knows(p, has(n)) /\ Knows(p, opened(n))
               /\ op = "fill" /\ n = "trust" =>
                      \A k \in Keys : Knows(p, written(k))
               /\ op = "bundle" => \A k \in Keys : Knows(p, has(k))
               /\ op = "accelerate" => Knows(p, has("trust"))
               /\ op = "freeze" => Knows(p, has("trust"))
                                   /\ Knows(p, has("experiment"))
               /\ op = "sign" => Knows(p, has("intent"))
                                 /\ Knows(p, has("scientist"))
               /\ op = "attest" => Knows(p, has("header"))
               /\ op = "admit" => Knows(p, has("request"))
                                  /\ Knows(p, has("receipt"))
                                  /\ Knows(p, has("trust"))
               /\ op \in {"run", "try replay"} => Knows(p, admitted)
               /\ op = "verify result" => Knows(p, has("request"))
                                          /\ Knows(p, has("result"))
               /\ op = "try altered" => Knows(p, own)
                                        /\ Knows(p, has("request"))
               /\ op = "fill" /\ n = "experiment" => Knows(p, fits)
               /\ op = "bundle" => Knows(p, vetted)
               /\ op = "bell" => Knows(p, builtin)
               /\ op = "issue" => Knows(p, has("issuer"))
                                  /\ Knows(p, has("request"))
               /\ op = "run" => Knows(p, has("executor"))
<1> DEFINE op == i[1]
           n  == i[2]
<1>1. \A v : Needs(i, v) => Knows(p, v)
  BY DEF Moves
<1>2. i \in Instructions
  BY DEF Moves
<1>3. op \in {"open", "fill"} /\ n = "trust" => Needs(i, made)
  BY DEF Needs
<1>4. op = "fill" /\ n = "trust" => \A k \in Keys : Needs(i, written(k))
  <2> SUFFICES ASSUME op = "fill", n = "trust", NEW k \in Keys
               PROVE  Needs(i, written(k))
    OBVIOUS
  <2>1. i = <<"fill", "trust">>
    BY <1>2, Named
  <2>2. written(k) \in {"written"} \X Range(Identities)
    BY DEF written, Keys
  <2> QED BY <2>1, <2>2 DEF Needs
<1>5. op = "bundle" => \A k \in Keys : Needs(i, has(k))
  <2> SUFFICES ASSUME op = "bundle", NEW k \in Keys PROVE Needs(i, has(k))
    OBVIOUS
  <2>1. has(k) \in {"has"} \X Range(Identities)
    BY DEF has, Keys
  <2> QED BY <2>1 DEF Needs
<1>6. /\ op = "generate" => Needs(i, made)
      /\ op \in {"open", "fill"} /\ n \in Keys =>
             Needs(i, made) /\ Needs(i, new)
      /\ op = "fill" => Needs(i, has(n)) /\ Needs(i, opened(n))
      /\ op = "accelerate" => Needs(i, has("trust"))
      /\ op = "freeze" => Needs(i, has("experiment")) /\ Needs(i, has("trust"))
  BY DEF Needs, Keys
<1>7. /\ op = "sign" => Needs(i, has("intent")) /\ Needs(i, has("scientist"))
      /\ op = "attest" => Needs(i, has("header"))
      /\ op = "admit" => /\ Needs(i, has("request"))
                         /\ Needs(i, has("receipt"))
                         /\ Needs(i, has("trust"))
      /\ op \in {"run", "try replay"} => Needs(i, admitted)
      /\ op = "verify result" =>
             Needs(i, has("request")) /\ Needs(i, has("result"))
      /\ op = "try altered" => Needs(i, own) /\ Needs(i, has("request"))
  BY DEF Needs
<1>8. /\ op = "generate" => Knows(p, made)
      /\ op \in {"open", "fill"} /\ n \in Keys =>
             Knows(p, made) /\ Knows(p, new)
      /\ op = "fill" => Knows(p, has(n)) /\ Knows(p, opened(n))
      /\ op = "accelerate" => Knows(p, has("trust"))
      /\ op = "freeze" => Knows(p, has("experiment")) /\ Knows(p, has("trust"))
  BY <1>1, <1>6
<1>9. /\ op = "sign" => Knows(p, has("intent"))
                        /\ Knows(p, has("scientist"))
      /\ op = "attest" => Knows(p, has("header"))
      /\ op = "admit" => /\ Knows(p, has("request"))
                         /\ Knows(p, has("receipt"))
                         /\ Knows(p, has("trust"))
      /\ op \in {"run", "try replay"} => Knows(p, admitted)
      /\ op = "verify result" =>
             Knows(p, has("request")) /\ Knows(p, has("result"))
      /\ op = "try altered" => Knows(p, own) /\ Knows(p, has("request"))
  BY <1>1, <1>7
<1>10. op \in {"open", "fill"} /\ n = "trust" => Knows(p, made)
  BY <1>1, <1>3
<1>11. op = "fill" /\ n = "trust" => \A k \in Keys : Knows(p, written(k))
  BY <1>1, <1>4
<1>12. op = "bundle" => \A k \in Keys : Knows(p, has(k))
  BY <1>1, <1>5
<1>13. op = "fill" /\ n = "experiment" => Needs(i, fits)
  <2> SUFFICES ASSUME op = "fill", n = "experiment" PROVE Needs(i, fits)
    OBVIOUS
  <2>1. i = <<"fill", "experiment">>
    BY <1>2, Named
  <2> QED BY <2>1 DEF Needs
<1>14. /\ op = "bundle" => Needs(i, vetted)
       /\ op = "bell" => Needs(i, builtin)
       /\ op = "issue" => Needs(i, has("issuer")) /\ Needs(i, has("request"))
       /\ op = "run" => Needs(i, has("executor"))
  BY DEF Needs
<1>15. /\ op = "fill" /\ n = "experiment" => Knows(p, fits)
       /\ op = "bundle" => Knows(p, vetted)
       /\ op = "bell" => Knows(p, builtin)
       /\ op = "issue" => Knows(p, has("issuer")) /\ Knows(p, has("request"))
       /\ op = "run" => Knows(p, has("executor"))
  BY <1>1, <1>13, <1>14
<1> HIDE DEF op, n
<1> QED BY <1>8, <1>9, <1>10, <1>11, <1>12, <1>15 DEF op, n

(* A file that changes is opened or filled.                                *)
LEMMA Touched ==
    ASSUME FrozenShape, NEW p \in Process, Goes(p), NEW n \in File,
           files'[n] # files[n]
    PROVE  LET i == instruction(p) IN
           /\ i \in Instructions /\ i[1] \in {"open", "fill"} /\ i[2] = n
           /\ i[1] = "open" => files'[n] = Torn
           /\ i[1] = "fill" => /\ files'[n] \in {memory[p][n], Torn}
                               /\ files[n] = Torn => files'[n] # Torn
<1> DEFINE i == instruction(p)
<1>1. Step(p) /\ Frame(p, i) /\ i \in Instructions
  BY DEF Goes, Moves
<1>2. i[1] \in {"open", "fill"}
  BY <1>1 DEF Frame
<1>3. CASE i[1] = "open"
  <2>1. files' = [files EXCEPT ![i[2]] = Torn]
    BY <1>1, <1>3, ActionAt DEF Open
  <2> QED BY <1>1, <1>3, <2>1 DEF FrozenShape
<1>4. CASE i[1] = "fill"
  <2>1. PICK content \in {memory[p][i[2]], Torn} :
           /\ files[i[2]] = Torn => content # Torn
           /\ files' = [files EXCEPT ![i[2]] = content]
    BY <1>1, <1>4, ActionAt DEF Fill
  <2>2. i[2] = n /\ files'[n] = content
    BY <2>1 DEF FrozenShape
  <2> QED BY <1>1, <1>4, <2>1, <2>2
<1> QED BY <1>2, <1>3, <1>4

-----------------------------------------------------------------------------
(* The receipt identifiers that are about have been drawn.                 *)
Drawn(id) == id \in 0 .. secrets - 1

(* Files are in trust/ only, so none is there before trust/ is.            *)
FilesExist ==
    /\ \A n \in File : files[n] # Nothing => exists
    /\ \A p \in Process : \A n \in File : Knows(p, opened(n)) => exists

(* The header a memory holds has a receipt id that was drawn.              *)
HeadersDrawn ==
    \A p \in Process :
        Knows(p, has("header")) => Drawn(memory[p].header.receipt_id)

(* The receipt a memory holds has a receipt id that was drawn.             *)
ReceiptsDrawn ==
    \A p \in Process :
        Knows(p, has("receipt")) => Drawn(memory[p].receipt.header.receipt_id)

(* The receipt file, if readable, has a receipt id that was drawn.         *)
FileDrawn ==
    files["receipt"] \notin {Nothing, Torn} =>
        Drawn(files["receipt"].header.receipt_id)

(* The rows of the replay store are of receipts that were drawn.           *)
RowsDrawn == \A row \in spent : Drawn(row.receipt_id)

(* The strengthening TypeOK needs: receipts and rows name drawn ids.       *)
IssuedInv ==
    /\ FilesExist
    /\ HeadersDrawn
    /\ ReceiptsDrawn
    /\ FileDrawn
    /\ RowsDrawn

(* Nothing is issued in an empty directory.                                *)
LEMMA IssuedInitial == Init => Placed /\ IssuedInv
<1> SUFFICES ASSUME Init PROVE Placed /\ IssuedInv
  OBVIOUS
<1>1. \A p \in Process : command[p] = Idle /\ pc[p] = 0
  BY DEF Init
<1>2. \A p \in Process : \A v : ~ Knows(p, v)
  BY <1>1 DEF Knows
<1>3. \A n \in File : files[n] = Nothing
  BY DEF Init
<1>4. "receipt" \in File
  BY DEF File
<1>5. Placed
  <2>1. /\ exists \in BOOLEAN /\ secrets \in 0 .. MaxSecrets
        /\ command = [p \in Process |-> Idle]
        /\ pc = [p \in Process |-> 0]
    <3>1. 0 \in 0 .. MaxSecrets
      BY WorkspaceAssumption
    <3> QED BY <3>1 DEF Init
  <2>2. /\ command = [p \in Process |-> command[p]]
        /\ pc = [p \in Process |-> pc[p]]
    BY <2>1, Zenon
  <2> QED BY <1>1, <2>1, <2>2 DEF Placed
<1> QED BY <1>2, <1>3, <1>4, <1>5
        DEF Init, IssuedInv, FilesExist, HeadersDrawn, ReceiptsDrawn,
            FileDrawn, RowsDrawn

(* Ids drawn before a step are drawn after it.                             *)
LEMMA Wider ==
    ASSUME NEW a \in Nat, NEW b \in Nat, a <= b, NEW id \in 0 .. a - 1
    PROVE  id \in 0 .. b - 1
OBVIOUS

(* An instruction preserves what is issued: only issue draws a receipt id, *)
(* attest copies the header's, load reads the file's, consume the          *)
(* receipt's.                                                              *)
LEMMA IssuedGoes ==
    ASSUME Placed, FrozenShape, IssuedInv, NEW p \in Process, Goes(p)
    PROVE  IssuedInv'
<1> DEFINE i == instruction(p)
<1>1. /\ Step(p) /\ Moves(p, i) /\ Frame(p, i) /\ Alone(p)
      /\ i \in Instructions
  BY DEF Goes, Moves
<1>2. /\ secrets \in Nat /\ secrets' \in Nat
      /\ secrets <= secrets'
  BY <1>1, WorkspaceAssumption DEF Frame, Placed
<1>10. exists => exists'
  BY <1>1 DEF Frame
<1>3. ASSUME NEW id, Drawn(id) PROVE id \in 0 .. secrets' - 1
  BY <1>2, <1>3, Wider DEF Drawn
<1>4. "receipt" \in File /\ "receipt" \in Local /\ "header" \in Local
  BY DEF File, Local
<1>5. FilesExist'
  <2>1. i[1] = "open" => exists'
    BY <1>1, ActionAt DEF Open
  <2>2. i[1] = "fill" => exists'
    <3> SUFFICES ASSUME i[1] = "fill" PROVE exists
      BY <1>10
    <3>1. i[2] \in File
      BY <1>1, Named
    <3>2. Needs(i, opened(i[2]))
      BY DEF Needs
    <3> QED BY <1>1, <3>1, <3>2 DEF Moves, IssuedInv, FilesExist
  <2>3. i[1] \notin {"open", "fill"} => files' = files
    BY <1>1 DEF Frame
  <2>4. ASSUME NEW q \in Process, NEW n \in File, Knows(q, opened(n))'
        PROVE  exists'
    <3>1. Knows(q, opened(n)) \/ Gives(i, opened(n))
      BY <1>1, <2>4 DEF Moves
    <3> QED BY <1>10, <2>1, <2>4, <3>1, GivenBy DEF IssuedInv, FilesExist
  <2> QED BY <1>10, <2>1, <2>2, <2>3, <2>4 DEF IssuedInv, FilesExist
<1>6. HeadersDrawn'
  <2> SUFFICES ASSUME NEW q \in Process, Knows(q, has("header"))'
               PROVE  Drawn(memory[q].header.receipt_id)'
    BY DEF HeadersDrawn
  <2>1. CASE q = p /\ i[1] \in Setters /\ i[2] = "header"
    <3>1. Issue(p)
      BY <1>1, <2>1, SetBy, ActionAt
    <3>2. PICK value : /\ Assign(p, "header", value)
                       /\ value.receipt_id = secrets
                       /\ secrets' = secrets + 1
      BY <3>1 DEF Issue, new_header
    <3>3. memory'[p].header = value
      BY <1>4, <3>2, Assigned
    <3> QED BY <1>2, <2>1, <3>2, <3>3 DEF Drawn
  <2>2. CASE Knows(q, has("header")) /\ memory'[q].header = memory[q].header
    BY <1>3, <2>2 DEF IssuedInv, HeadersDrawn, Drawn
  <2> QED BY <1>4, <2>1, <2>2, Variable
<1>7. ReceiptsDrawn'
  <2> SUFFICES ASSUME NEW q \in Process, Knows(q, has("receipt"))'
               PROVE  Drawn(memory[q].receipt.header.receipt_id)'
    BY DEF ReceiptsDrawn
  <2>1. CASE q = p /\ i[1] \in Setters /\ i[2] = "receipt"
    <3>1. PICK value : /\ Assign(p, "receipt", value)
                       /\ Drawn(value.header.receipt_id)
      <4>1. CASE i[1] = "load"
        <5>1. Load(p)
          BY <1>1, <4>1, ActionAt
        <5>2. /\ files["receipt"] \notin {Nothing, Torn}
              /\ Assign(p, "receipt", files["receipt"])
          BY <2>1, <5>1 DEF Load, readable, file
        <5> QED BY <5>2 DEF IssuedInv, FileDrawn
      <4>2. CASE i[1] = "attest"
        <5>1. Attest(p)
          BY <1>1, <4>2, ActionAt
        <5>2. PICK votes :
                 Assign(p, "receipt", assemble(memory[p].header, votes,
                                               memory[p].issuer))
          BY <5>1, AttestAssembles
        <5>3. Knows(p, has("header"))
          BY <1>1, <4>2 DEF Moves, Needs
        <5> QED BY <5>2, <5>3 DEF assemble, IssuedInv, HeadersDrawn
      <4> QED BY <1>1, <2>1, <4>1, <4>2, SetBy
    <3>2. memory'[p].receipt = value
      BY <1>4, <3>1, Assigned
    <3> QED BY <1>3, <2>1, <3>1, <3>2 DEF Drawn
  <2>2. CASE Knows(q, has("receipt"))
             /\ memory'[q].receipt = memory[q].receipt
    BY <1>3, <2>2 DEF IssuedInv, ReceiptsDrawn, Drawn
  <2> QED BY <1>4, <2>1, <2>2, Variable
<1>8. FileDrawn'
  <2> SUFFICES ASSUME files'["receipt"] \notin {Nothing, Torn}
               PROVE  Drawn(files["receipt"].header.receipt_id)'
    BY DEF FileDrawn
  <2>0. files'["receipt"] # Torn
    OBVIOUS
  <2>1. CASE files'["receipt"] = files["receipt"]
    BY <1>3, <2>1 DEF IssuedInv, FileDrawn, Drawn
  <2>2. CASE files'["receipt"] # files["receipt"]
    <3>1. /\ i[1] = "fill" /\ i[2] = "receipt"
          /\ files'["receipt"] = memory[p].receipt
      BY <1>4, <2>0, <2>2, Touched
    <3>2. Knows(p, has("receipt"))
      BY <1>1, <3>1, Needed
    <3> QED BY <1>3, <3>1, <3>2 DEF IssuedInv, ReceiptsDrawn, Drawn
  <2> QED BY <2>1, <2>2
<1>9. RowsDrawn'
  <2>1. CASE i[1] # "admit"
    BY <1>1, <1>3, <2>1 DEF Frame, IssuedInv, RowsDrawn, Drawn
  <2>2. CASE i[1] = "admit"
    <3> DEFINE row == permit(memory[p].request, memory[p].receipt)
    <3>1. /\ spent' = spent \cup {row}
          /\ row.receipt_id = memory[p].receipt.header.receipt_id
      BY <1>1, <2>2, ActionAt DEF Admit, permit
    <3> HIDE DEF row
    <3>2. Knows(p, has("receipt"))
      BY <1>1, <2>2 DEF Moves, Needs
    <3> QED BY <1>3, <3>1, <3>2 DEF IssuedInv, RowsDrawn, ReceiptsDrawn, Drawn
  <2> QED BY <2>1, <2>2
<1> QED BY <1>5, <1>6, <1>7, <1>8, <1>9 DEF IssuedInv

(* Every step preserves it: a crash or an exit only forgets.               *)
LEMMA IssuedStep ==
    ASSUME Placed, FrozenShape, IssuedInv, [Next]_vars
    PROVE  Placed' /\ IssuedInv'
<1> USE DEF IssuedInv, FilesExist, HeadersDrawn, ReceiptsDrawn, FileDrawn,
            RowsDrawn, Drawn
<1>1. "receipt" \in File /\ "receipt" \in Local /\ "header" \in Local
  BY DEF File, Local
<1>2. CASE Waiting
  <2>1. \A q \in Process : \A v : Knows(q, v)' <=> Knows(q, v)
    BY <1>2, Waits DEF Waiting
  <2>2. files'["receipt"] = files["receipt"]
    BY <1>1, <1>2 DEF Waiting
  <2> QED BY <1>2, <2>1, <2>2, Progress DEF Waiting
<1>3. ASSUME NEW p \in Process, Begins(p) PROVE IssuedInv'
  <2>1. \A v : Knows(p, v)' => v \in Blank
    BY <1>3 DEF Begins
  <2>2. /\ ~ Knows(p, has("header"))' /\ ~ Knows(p, has("receipt"))'
        /\ \A n : ~ Knows(p, opened(n))'
    BY <2>1 DEF Blank, own, none, has, opened
  <2> QED BY <1>1, <1>3, <2>2 DEF Begins, Alone
<1>4. ASSUME NEW p \in Process, Ends(p) PROVE IssuedInv'
  BY <1>1, <1>4 DEF Ends, Alone
<1> QED BY <1>2, <1>3, <1>4, IssuedGoes, Progress

(* Commands stay within their programs, and at every instruction all that  *)
(* it needs is known: what it reads was loaded or made by an instruction   *)
(* before it.  The directory is there once a file is, and no receipt, in a *)
(* file, in memory or in the replay store, has an identifier that was not  *)
(* drawn.                                                                  *)
THEOREM ProgramInvariant == Spec => [](Placed /\ IssuedInv)
<1>1. Init => Placed /\ IssuedInv
  BY IssuedInitial
<1>2. FrozenInv /\ (Placed /\ IssuedInv) /\ [Next]_vars =>
          (Placed /\ IssuedInv)'
  BY IssuedStep DEF FrozenInv
<1> QED BY <1>1, <1>2, FrozenInvariant, PTL DEF Spec

(* The types of the workspace: every command stands within its program,    *)
(* files lie only in a directory that exists, and the rows of              *)
(* replay.sqlite have receipt ids that were drawn.                         *)
THEOREM CommandsTypes == Spec => []TypeOK
<1>1. WorkspaceInv /\ FrozenInv /\ (Placed /\ IssuedInv) => TypeOK
  <2> SUFFICES ASSUME WorkspaceInv, FrozenInv, Placed, IssuedInv PROVE TypeOK
    OBVIOUS
  <2>1. now \in Instants
    BY DEF WorkspaceInv, Shape
  <2>2. DOMAIN files = File /\ \A p \in Process : DOMAIN memory[p] = Local
    BY DEF FrozenInv, FrozenShape
  <2>3. DOMAIN command = Process
    BY DEF Placed
  <2>4. \A row \in spent : row.receipt_id < secrets
    BY DEF Placed, IssuedInv, RowsDrawn, Drawn
  <2>5. \A n \in File : files[n] # Nothing => exists
    BY DEF IssuedInv, FilesExist
  <2> QED BY <2>1, <2>2, <2>3, <2>4, <2>5 DEF TypeOK, Placed
<1> QED BY <1>1, WorkspaceInvariant, FrozenInvariant, ProgramInvariant, PTL

-----------------------------------------------------------------------------

(* The three verifiers of the trust bundle.                                *)
VerifierNames == {"verifier-1", "verifier-2", "verifier-3"}

(* The private keys that q generated for the suite s.                      *)
generated(k, s, q) == key_file(k, s, q).private_keys

(* The bundle t has their public keys.                                     *)
Keyed(t, s, q) ==
    /\ {"verifiers", "requesters", "executor_id", "executor_keys"}
           \subseteq DOMAIN t
    /\ t.verifiers = [k \in VerifierNames |-> generated(k, s, q)]
    /\ t.requesters = [k \in {"scientist"} |-> generated(k, s, q)]
    /\ t.executor_id = "executor"
    /\ t.executor_keys = generated("executor", s, q)

(* Signed with the key that q generated for the scientist.                 *)
Genuine(request, q) ==
    LET intent == request.intent
        s      == intent.required_suite
        key    == key_file("scientist", s, q)
    IN  \E draw \in Draws["intent"] :
           request = [intent     |-> intent,
                      signatures |-> sign(s, key.private_keys,
                                          message("intent", s,
                                                  intent.subject, intent),
                                          draw)]

(* Only q, which made the directory, provisions it, ...                    *)
OneMaker(s, q) ==
    \A p \in Process : Knows(p, made) =>
        exists /\ p = q /\ suite(command[p]) = s

(* ... trust.json last, ...                                                *)
KeysFirst ==
    \A p \in Process : Knows(p, made) /\ Knows(p, new) =>
        files["trust"] = Nothing

(* ... and nobody fills what it opened.                                    *)
OpenedTorn ==
    \A p \in Process : \A n \in Keys \cup {"trust"} :
        Knows(p, made) /\ Knows(p, opened(n)) => files[n] = Torn

(* A key file present is the one q generated, or torn as q writes it.      *)
KeysWritten(s, q) ==
    \A p \in Process : \A k \in Keys : Knows(p, written(k)) =>
        exists /\ (Knows(p, made) => files[k] = key_file(k, s, q))

(* The keys in any memory are those q generated.                           *)
KeysMade(s, q) ==
    \A k \in Keys :
        /\ files[k] \notin {Nothing, Torn} =>
               exists /\ files[k] = key_file(k, s, q)
        /\ \A p \in Process : Knows(p, has(k)) =>
               exists /\ memory[p][k] = key_file(k, s, q)

(* trust.json and every memory's trust are made of q's public keys.        *)
TrustMade(s, q) ==
    /\ files["trust"] \notin {Nothing, Torn} =>
           /\ exists /\ Keyed(files["trust"], s, q)
           /\ \A k \in Keys : files[k] = key_file(k, s, q)
    /\ \A p \in Process : Knows(p, has("trust")) =>
           exists /\ Keyed(memory[p].trust, s, q)

(* Every request, on disk or in memory, is signed with q's scientist key.  *)
RequestsMade(q) ==
    /\ files["request"] \notin {Nothing, Torn} =>
           exists /\ Genuine(files["request"], q)
    /\ \A p \in Process : Knows(p, has("request")) =>
           exists /\ Genuine(memory[p].request, q)

(* Every run the quantum processor executed is of such a request.          *)
RunsMade(q) ==
    /\ \A p \in Process : executing[p] # Nothing =>
           exists /\ Genuine(executing[p].request, q)
    /\ \A i \in DOMAIN runs : exists /\ Genuine(runs[i].request, q)

(* Process q, with suite s, is the one that provisioned the workspace.     *)
Owned(s, q) ==
    /\ OneMaker(s, q) /\ KeysFirst /\ OpenedTorn
    /\ KeysWritten(s, q) /\ KeysMade(s, q)
    /\ TrustMade(s, q) /\ RequestsMade(q) /\ RunsMade(q)

(* The workspace has at most one provisioner: mkdir without exist_ok lets  *)
(* one process through, ever.                                              *)
OwnerInv == \E s \in Suites, q \in Process : Owned(s, q)

(* The identities are files and variables; trust and request are others.   *)
LEMMA KeyNames ==
    /\ Keys \subseteq File /\ Keys \subseteq Local
    /\ {"trust", "request"} \subseteq File
    /\ {"trust", "request"} \subseteq Local
    /\ \A k \in Keys : k \notin {"trust", "request", "experiment", "intent"}
    /\ Keys = {"verifier-1", "verifier-2", "verifier-3",
               "scientist", "executor"}
BY DEF Keys, File, Local, Range, Identities

(* Nothing is there before the directory is.                               *)
LEMMA NothingYet ==
    ASSUME IssuedInv, NEW s, NEW q, Owned(s, q), ~ exists
    PROVE  /\ \A n \in File : files[n] = Nothing
           /\ \A p \in Process :
                 /\ ~ Knows(p, made)
                 /\ \A n \in File : ~ Knows(p, opened(n))
                 /\ \A k \in Keys : ~ Knows(p, has(k))
                                    /\ ~ Knows(p, written(k))
                 /\ ~ Knows(p, has("trust")) /\ ~ Knows(p, has("request"))
                 /\ executing[p] = Nothing
           /\ DOMAIN runs = {}
<1>1. \A n \in File : files[n] = Nothing
  BY DEF IssuedInv, FilesExist
<1>2. \A p \in Process : \A n \in File : ~ Knows(p, opened(n))
  BY DEF IssuedInv, FilesExist
<1>3. \A p \in Process : ~ Knows(p, made)
  BY DEF Owned, OneMaker
<1>4. \A p \in Process : \A k \in Keys :
         ~ Knows(p, has(k)) /\ ~ Knows(p, written(k))
  BY DEF Owned, KeysMade, KeysWritten
<1>5. \A p \in Process : ~ Knows(p, has("trust")) /\ ~ Knows(p, has("request"))
  BY DEF Owned, TrustMade, RequestsMade
<1>6. (\A p \in Process : executing[p] = Nothing) /\ DOMAIN runs = {}
  BY DEF Owned, RunsMade
<1> QED BY <1>1, <1>2, <1>3, <1>4, <1>5, <1>6

(* ... whoever makes it is the one who provisions it.                      *)
LEMMA MkdirOwns ==
    ASSUME Placed, FrozenShape, IssuedInv, NEW s, NEW q, Owned(s, q),
           NEW p \in Process, Goes(p), instruction(p)[1] = "mkdir"
    PROVE  Owned(suite(command[p]), p)'
<1> DEFINE i == instruction(p)
<1>1. /\ ~ exists /\ exists' = TRUE
      /\ UNCHANGED <<files, memory, executing, runs, command>>
  BY ActionAt DEF Goes, Mkdir, Advance
<1>2. /\ \A n \in File : files[n] = Nothing
      /\ \A o \in Process :
            /\ ~ Knows(o, made)
            /\ \A n \in File : ~ Knows(o, opened(n))
            /\ \A k \in Keys : ~ Knows(o, has(k)) /\ ~ Knows(o, written(k))
            /\ ~ Knows(o, has("trust")) /\ ~ Knows(o, has("request"))
            /\ executing[o] = Nothing
      /\ DOMAIN runs = {}
  BY <1>1, NothingYet
<1>3. /\ Moves(p, i) /\ Alone(p)
      /\ i[1] \notin Setters /\ i[1] \notin {"open", "fill"}
  BY DEF Goes, Setters
<1>4. \A o \in Process :
         /\ Knows(o, made)' => o = p
         /\ \A n \in File : ~ Knows(o, opened(n))'
         /\ \A k \in Keys : ~ Knows(o, has(k))' /\ ~ Knows(o, written(k))'
         /\ ~ Knows(o, has("trust"))' /\ ~ Knows(o, has("request"))'
  <2> SUFFICES ASSUME NEW o \in Process
               PROVE  /\ Knows(o, made)' => o = p
                      /\ \A n \in File : ~ Knows(o, opened(n))'
                      /\ \A k \in Keys : ~ Knows(o, has(k))'
                                         /\ ~ Knows(o, written(k))'
                      /\ ~ Knows(o, has("trust"))'
                      /\ ~ Knows(o, has("request"))'
    OBVIOUS
  <2>1. CASE o # p
    BY <1>2, <1>3, <2>1 DEF Alone
  <2>2. CASE o = p
    BY <1>2, <1>3, <2>2, GivenBy DEF Moves
  <2> QED BY <2>1, <2>2
<1>5. "trust" \in File /\ "request" \in File /\ Keys \subseteq File
  BY KeyNames
<1>6. (OneMaker(suite(command[p]), p) /\ KeysFirst /\ OpenedTorn)'
  BY <1>1, <1>2, <1>4, <1>5 DEF OneMaker, KeysFirst, OpenedTorn
<1>7. (KeysWritten(suite(command[p]), p) /\ KeysMade(suite(command[p]), p))'
  BY <1>1, <1>2, <1>4, <1>5 DEF KeysWritten, KeysMade
<1>8. (TrustMade(suite(command[p]), p) /\ RequestsMade(p) /\ RunsMade(p))'
  BY <1>1, <1>2, <1>4, <1>5 DEF TrustMade, RequestsMade, RunsMade
<1> QED BY <1>6, <1>7, <1>8 DEF Owned

(* A key file or trust.json changes in the hands of the maker alone.       *)
LEMMA MakerTouches ==
    ASSUME FrozenShape, NEW s, NEW q, Owned(s, q), NEW p \in Process, Goes(p),
           NEW n \in Keys \cup {"trust"}, files'[n] # files[n]
    PROVE  LET i == instruction(p) IN
           /\ p = q /\ suite(command[p]) = s /\ exists
           /\ Knows(p, made) /\ i[2] = n
           /\ n \in Keys => files["trust"] = Nothing
           /\ \/ i[1] = "open" /\ files'[n] = Torn
              \/ /\ i[1] = "fill" /\ Knows(p, has(n))
                 /\ files'[n] = memory[p][n] /\ files'[n] # Torn
                 /\ n = "trust" => \A k \in Keys : Knows(p, written(k))
<1> DEFINE i == instruction(p)
<1>1. n \in File
  BY KeyNames
<1>2. /\ i[1] \in {"open", "fill"} /\ i[2] = n
      /\ i[1] = "open" => files'[n] = Torn
      /\ i[1] = "fill" => /\ files'[n] \in {memory[p][n], Torn}
                          /\ files[n] = Torn => files'[n] # Torn
  BY <1>1, Touched
<1>3. Moves(p, i)
  BY DEF Goes
<1>4. /\ Knows(p, made)
      /\ n \in Keys => Knows(p, new)
      /\ i[1] = "fill" => Knows(p, has(n)) /\ Knows(p, opened(n))
      /\ i[1] = "fill" /\ n = "trust" => \A k \in Keys : Knows(p, written(k))
  BY <1>2, <1>3, Needed
<1>5. p = q /\ suite(command[p]) = s /\ exists
  BY <1>4 DEF Owned, OneMaker
<1>6. n \in Keys => files["trust"] = Nothing
  BY <1>4 DEF Owned, KeysFirst
<1>7. i[1] = "fill" => files[n] = Torn
  BY <1>4 DEF Owned, OpenedTorn
<1> QED BY <1>2, <1>4, <1>5, <1>6, <1>7

(* The facts that p has after its instruction, of files.                   *)
LEMMA MadeStays ==
    ASSUME NEW p \in Process, Goes(p), instruction(p)[1] # "mkdir",
           NEW o \in Process
    PROVE  LET i == instruction(p) IN
           /\ Knows(o, made)' => Knows(o, made)
           /\ Knows(o, new)' => /\ Knows(o, new)
                                /\ ~ (o = p /\ i = <<"open", "trust">>)
           /\ \A n : Knows(o, opened(n))' =>
                 \/ o = p /\ i[1] = "open" /\ i[2] = n
                 \/ Knows(o, opened(n))
                        /\ ~ (o = p /\ i[1] = "fill" /\ i[2] = n)
           /\ \A n : Knows(o, written(n))' =>
                 \/ o = p /\ i[1] = "fill" /\ i[2] = n
                 \/ Knows(o, written(n))
                        /\ ~ (o = p /\ i[1] = "open" /\ i[2] = n)
<1> DEFINE i == instruction(p)
<1>1. Moves(p, i) /\ Alone(p)
  BY DEF Goes
<1>2. CASE o # p
  BY <1>1, <1>2 DEF Alone
<1>3. CASE o = p
  <2>1. \A v : Knows(p, v)' => Gives(i, v) \/ (Knows(p, v) /\ ~ Kills(i, v))
    BY <1>1 DEF Moves
  <2>2. /\ i = <<"open", "trust">> => Kills(i, new)
        /\ \A n : i[1] = "fill" /\ i[2] = n => Kills(i, opened(n))
        /\ \A n : i[1] = "open" /\ i[2] = n => Kills(i, written(n))
    BY DEF Kills
  <2> QED BY <1>3, <2>1, <2>2, GivenBy
<1> QED BY <1>2, <1>3

(* Only the process that made trust/ opens or writes files in it.          *)
LEMMA FilesOwned ==
    ASSUME Placed, FrozenShape, IssuedInv, NEW s, NEW q, Owned(s, q),
           NEW p \in Process, Goes(p), instruction(p)[1] # "mkdir"
    PROVE  (OneMaker(s, q) /\ KeysFirst /\ OpenedTorn /\ KeysWritten(s, q))'
<1> DEFINE i == instruction(p)
<1>1. /\ command' = command /\ (exists => exists')
      /\ Moves(p, i) /\ i \in Instructions
  BY DEF Goes, Moves, Frame
<1>2. OneMaker(s, q)'
  BY <1>1, MadeStays DEF Owned, OneMaker
<1>3. KeysFirst'
  <2> SUFFICES ASSUME NEW o \in Process, Knows(o, made)', Knows(o, new)'
               PROVE  files'["trust"] = Nothing
    BY DEF KeysFirst
  <2>1. /\ Knows(o, made) /\ Knows(o, new)
        /\ ~ (o = p /\ i = <<"open", "trust">>)
    BY MadeStays
  <2>2. o = q /\ files["trust"] = Nothing
    BY <2>1 DEF Owned, OneMaker, KeysFirst
  <2>3. ASSUME files'["trust"] # files["trust"] PROVE FALSE
    <3>1. /\ p = q /\ i[2] = "trust"
          /\ i[1] \in {"open", "fill"}
      BY <2>3, MakerTouches
    <3>2. i[1] = "fill"
      <4>1. i = <<i[1], i[2]>>
        BY <1>1, Named
      <4> QED BY <2>1, <2>2, <3>1, <4>1
    <3>3. Knows(p, made) /\ Knows(p, opened("trust"))
      BY <1>1, <3>1, <3>2, Needed
    <3>4. files["trust"] = Torn
      BY <3>3 DEF Owned, OpenedTorn
    <3> QED BY <2>2, <3>4, MarkAssumption
  <2> QED BY <2>2, <2>3
<1>4. OpenedTorn'
  <2> SUFFICES ASSUME NEW o \in Process, NEW n \in Keys \cup {"trust"},
                      Knows(o, made)', Knows(o, opened(n))'
               PROVE  files'[n] = Torn
    BY DEF OpenedTorn
  <2>1. Knows(o, made)
    BY MadeStays
  <2>2. o = q
    BY <2>1 DEF Owned, OneMaker
  <2>3. CASE o = p /\ i[1] = "open" /\ i[2] = n
    <3>1. files' = [files EXCEPT ![n] = Torn]
      BY <2>3, ActionAt DEF Goes, Open
    <3>2. n \in File
      BY KeyNames
    <3> QED BY <3>1, <3>2 DEF FrozenShape
  <2>4. CASE Knows(o, opened(n)) /\ ~ (o = p /\ i[1] = "fill" /\ i[2] = n)
    <3>1. files[n] = Torn
      BY <2>1, <2>4 DEF Owned, OpenedTorn
    <3>2. files'[n] # files[n] => files'[n] = Torn
      BY <2>2, <2>4, MakerTouches
    <3> QED BY <3>1, <3>2
  <2> QED BY <2>3, <2>4, MadeStays
<1>5. KeysWritten(s, q)'
  <2> SUFFICES ASSUME NEW o \in Process, NEW k \in Keys, Knows(o, written(k))'
               PROVE  /\ exists'
                      /\ Knows(o, made)' => files'[k] = key_file(k, s, q)
    BY DEF KeysWritten
  <2>1. CASE o = p /\ i[1] = "fill" /\ i[2] = k
    <3>1. Knows(p, made) /\ Knows(p, opened(k)) /\ Knows(p, has(k))
      BY <1>1, <2>1, Needed
    <3>2. /\ exists /\ memory[p][k] = key_file(k, s, q)
          /\ files[k] = Torn
      BY <3>1 DEF Owned, OneMaker, OpenedTorn, KeysMade
    <3>3. PICK content \in {memory[p][k], Torn} :
             /\ files[k] = Torn => content # Torn
             /\ files' = [files EXCEPT ![k] = content]
      BY <2>1, ActionAt DEF Goes, Fill
    <3>4. files'[k] = memory[p][k]
      <4>1. k \in File
        BY KeyNames
      <4> QED BY <3>2, <3>3, <4>1 DEF FrozenShape
    <3> QED BY <1>1, <3>2, <3>4
  <2>2. CASE Knows(o, written(k)) /\ ~ (o = p /\ i[1] = "open" /\ i[2] = k)
    <3>1. exists
      BY <2>2 DEF Owned, KeysWritten
    <3>2. ASSUME Knows(o, made)' PROVE files'[k] = key_file(k, s, q)
      <4>1. Knows(o, made)
        BY <3>2, MadeStays
      <4>2. o = q /\ files[k] = key_file(k, s, q)
        BY <2>2, <4>1 DEF Owned, OneMaker, KeysWritten
      <4>3. ASSUME files'[k] # files[k] PROVE files'[k] = key_file(k, s, q)
        <5>1. Knows(p, has(k)) /\ files'[k] = memory[p][k]
          BY <2>2, <4>2, <4>3, MakerTouches
        <5> QED BY <5>1 DEF Owned, KeysMade
      <4> QED BY <4>2, <4>3
    <3> QED BY <1>1, <3>1, <3>2
  <2> QED BY <2>1, <2>2, MadeStays
<1> QED BY <1>2, <1>3, <1>4, <1>5

(* Keys are generated by the provisioner and loaded from what it wrote.    *)
LEMMA KeysOwned ==
    ASSUME Placed, FrozenShape, IssuedInv, NEW s, NEW q, Owned(s, q),
           NEW p \in Process, Goes(p), instruction(p)[1] # "mkdir"
    PROVE  KeysMade(s, q)'
<1> DEFINE i == instruction(p)
<1>1. /\ Step(p) /\ Moves(p, i) /\ i \in Instructions /\ (exists => exists')
  BY DEF Goes, Moves, Frame
<1>2. ASSUME NEW k \in Keys, files'[k] \notin {Nothing, Torn}
      PROVE  exists' /\ files'[k] = key_file(k, s, q)
  <2>1. CASE files'[k] = files[k]
    BY <1>1, <1>2, <2>1 DEF Owned, KeysMade
  <2>2. CASE files'[k] # files[k]
    <3>1. exists /\ Knows(p, has(k)) /\ files'[k] = memory[p][k]
      BY <1>2, <2>2, MakerTouches
    <3> QED BY <1>1, <3>1 DEF Owned, KeysMade
  <2> QED BY <2>1, <2>2
<1>3. ASSUME NEW k \in Keys, NEW o \in Process, Knows(o, has(k))'
      PROVE  exists' /\ memory'[o][k] = key_file(k, s, q)
  <2>0. k \in Local
    BY KeyNames
  <2>1. CASE o = p /\ i[1] \in Setters /\ i[2] = k
    <3>1. CASE i[1] = "load"
      <4>1. Load(p)
        BY <1>1, <3>1, ActionAt
      <4>2. /\ files[k] \notin {Nothing, Torn}
            /\ Assign(p, k, files[k])
        <5>1. k # "issuer"
          BY DEF Keys, Range, Identities
        <5> QED BY <2>1, <4>1, <5>1 DEF Load, readable, file
      <4>3. memory'[p][k] = files[k]
        BY <2>0, <4>2, Assigned
      <4> QED BY <1>1, <2>1, <4>2, <4>3 DEF Owned, KeysMade
    <3>2. CASE i[1] = "generate"
      <4>1. Generate(p, k)
        BY <1>1, <2>1, <3>2, ActionAt
      <4>2. Knows(p, made)
        BY <1>1, <3>2, Needed
      <4>3. p = q /\ suite(command[p]) = s /\ exists
        BY <4>2 DEF Owned, OneMaker
      <4>4. Assign(p, k, key_file(k, s, q))
        BY <4>1, <4>3 DEF Generate
      <4> QED BY <1>1, <2>0, <2>1, <4>3, <4>4, Assigned
    <3> QED BY <1>1, <2>1, <3>1, <3>2, SetBy
  <2>2. CASE Knows(o, has(k)) /\ memory'[o][k] = memory[o][k]
    BY <1>1, <2>2 DEF Owned, KeysMade
  <2> QED BY <1>3, <2>0, <2>1, <2>2, Variable
<1> QED BY <1>2, <1>3 DEF KeysMade

(* provision makes its bundle of the first three identities.               *)
LEMMA FirstIdentities == Range(SubSeq(Identities, 1, 3)) = VerifierNames
<1> DEFINE v == SubSeq(Identities, 1, 3)
<1>1. Identities \in Seq(Keys)
  <2>1. /\ "verifier-1" \in Keys /\ "verifier-2" \in Keys
        /\ "verifier-3" \in Keys /\ "scientist" \in Keys
        /\ "executor" \in Keys
    BY KeyNames
  <2> QED BY <2>1 DEF Identities
<1>2. /\ DOMAIN v = 1 .. 3
      /\ \A n \in 1 .. 3 : v[n] = Identities[n]
  <2>1. Len(Identities) = 5
    BY DEF Identities
  <2> QED BY <1>1, <2>1
<1>3. /\ Identities[1] = "verifier-1" /\ Identities[2] = "verifier-2"
      /\ Identities[3] = "verifier-3"
  BY DEF Identities
<1> HIDE DEF v
<1>4. 1 .. 3 = {1, 2, 3}
  OBVIOUS
<1> QED BY <1>2, <1>3, <1>4 DEF Range, v, VerifierNames

(* The bundle lists the public halves of the generated keys.               *)
LEMMA BundleKeyed ==
    ASSUME NEW s, NEW q, NEW c, NEW keys,
           \A k \in Keys : keys[k] = key_file(k, s, q)
    PROVE  Keyed(local_trust(c, keys), s, q)
<1> DEFINE t == local_trust(c, keys)
<1>1. /\ t.verifiers = [k \in VerifierNames |-> keys[k].private_keys]
      /\ t.requesters = [k \in {"scientist"} |-> keys[k].private_keys]
      /\ t.executor_keys = keys["executor"].private_keys
  BY FirstIdentities DEF local_trust
<1>2. /\ {"verifiers", "requesters", "executor_id", "executor_keys"}
             \subseteq DOMAIN t
      /\ t.executor_id = "executor"
  BY DEF local_trust
<1>3. Keys = VerifierNames \cup {"scientist", "executor"}
  BY KeyNames DEF VerifierNames
<1>4. \A k \in Keys : keys[k].private_keys = generated(k, s, q)
  BY DEF generated
<1> HIDE DEF t
<1>5. /\ t.verifiers = [k \in VerifierNames |-> generated(k, s, q)]
      /\ t.requesters = [k \in {"scientist"} |-> generated(k, s, q)]
      /\ t.executor_keys = generated("executor", s, q)
  BY <1>1, <1>3, <1>4
<1> QED BY <1>2, <1>5 DEF Keyed, t

(* Changing the policy leaves the bundle's keys.                           *)
LEMMA AcceleratedKeyed ==
    ASSUME NEW s, NEW q, NEW t, NEW policy, Keyed(t, s, q)
    PROVE  Keyed([t EXCEPT !.policy = policy], s, q)
<1> DEFINE u == [t EXCEPT !.policy = policy]
<1>1. /\ DOMAIN u = DOMAIN t
      /\ u.verifiers = t.verifiers /\ u.requesters = t.requesters
      /\ u.executor_keys = t.executor_keys /\ u.executor_id = t.executor_id
  BY DEF Keyed
<1> HIDE DEF u
<1> QED BY <1>1 DEF Keyed, u

(* The trust in memory or on disk is made of the provisioner's keys.       *)
LEMMA TrustOwned ==
    ASSUME Placed, FrozenShape, IssuedInv, NEW s, NEW q, Owned(s, q),
           NEW p \in Process, Goes(p), instruction(p)[1] # "mkdir"
    PROVE  TrustMade(s, q)'
<1> DEFINE i == instruction(p)
<1>1. /\ Step(p) /\ Moves(p, i) /\ i \in Instructions /\ (exists => exists')
  BY DEF Goes, Moves, Frame
<1>2. "trust" \in File /\ "trust" \in Local /\ "trust" \notin Keys
      /\ Keys \subseteq File
  BY KeyNames
<1>3. ASSUME files'["trust"] \notin {Nothing, Torn}
      PROVE  /\ exists' /\ Keyed(files'["trust"], s, q)
             /\ \A k \in Keys : files'[k] = key_file(k, s, q)
  <2>1. CASE files'["trust"] # files["trust"]
    <3>1. /\ p = q /\ exists /\ Knows(p, made) /\ i[2] = "trust"
          /\ i[1] = "fill" /\ Knows(p, has("trust"))
          /\ files'["trust"] = memory[p].trust
          /\ \A k \in Keys : Knows(p, written(k))
      BY <1>3, <2>1, MakerTouches
    <3>2. Keyed(memory[p].trust, s, q)
      BY <3>1 DEF Owned, TrustMade
    <3>3. \A k \in Keys : files[k] = key_file(k, s, q)
      BY <3>1 DEF Owned, KeysWritten
    <3>4. \A k \in Keys : files'[k] = files[k]
      BY <1>2, <3>1, MakerTouches
    <3> QED BY <1>1, <3>1, <3>2, <3>3, <3>4
  <2>2. CASE files'["trust"] = files["trust"]
    <3>1. /\ exists /\ Keyed(files["trust"], s, q)
          /\ \A k \in Keys : files[k] = key_file(k, s, q)
      BY <1>3, <2>2 DEF Owned, TrustMade
    <3>2. \A k \in Keys : files'[k] = files[k]
      BY <1>3, <2>2, MakerTouches
    <3> QED BY <1>1, <2>2, <3>1, <3>2
  <2> QED BY <2>1, <2>2
<1>4. ASSUME NEW o \in Process, Knows(o, has("trust"))'
      PROVE  exists' /\ Keyed(memory'[o].trust, s, q)
  <2>1. CASE o = p /\ i[1] \in Setters /\ i[2] = "trust"
    <3>1. CASE i[1] = "load"
      <4>1. Load(p)
        BY <1>1, <3>1, ActionAt
      <4>2. /\ files["trust"] \notin {Nothing, Torn}
            /\ Assign(p, "trust", files["trust"])
        BY <2>1, <4>1 DEF Load, readable, file
      <4>3. memory'[p].trust = files["trust"]
        BY <1>2, <4>2, Assigned
      <4> QED BY <1>1, <2>1, <4>2, <4>3 DEF Owned, TrustMade
    <3>2. CASE i[1] = "bundle"
      <4>1. Bundle(p)
        BY <1>1, <3>2, ActionAt
      <4>2. \A k \in Keys : Knows(p, has(k))
        BY <1>1, <3>2, Needed
      <4>3. exists /\ \A k \in Keys : memory[p][k] = key_file(k, s, q)
        <5>1. "executor" \in Keys
          BY KeyNames
        <5> QED BY <4>2, <5>1 DEF Owned, KeysMade
      <4>4. Assign(p, "trust", local_trust(command[p], memory[p]))
        BY <4>1 DEF Bundle
      <4>5. memory'[p].trust = local_trust(command[p], memory[p])
        BY <1>2, <4>4, Assigned
      <4>6. Keyed(local_trust(command[p], memory[p]), s, q)
        BY <4>3, BundleKeyed
      <4> QED BY <1>1, <2>1, <4>3, <4>5, <4>6
    <3>3. CASE i[1] = "accelerate"
      <4>1. Accelerate(p)
        BY <1>1, <3>3, ActionAt
      <4>2. PICK policy :
               Assign(p, "trust", [memory[p].trust EXCEPT !.policy = policy])
        BY <4>1 DEF Accelerate
      <4>3. memory'[p].trust = [memory[p].trust EXCEPT !.policy = policy]
        BY <1>2, <4>2, Assigned
      <4>4. Knows(p, has("trust"))
        BY <1>1, <3>3, Needed
      <4>5. exists /\ Keyed(memory[p].trust, s, q)
        BY <4>4 DEF Owned, TrustMade
      <4> QED BY <1>1, <2>1, <4>3, <4>5, AcceleratedKeyed
    <3> QED BY <1>1, <2>1, <3>1, <3>2, <3>3, SetBy
  <2>2. CASE Knows(o, has("trust")) /\ memory'[o].trust = memory[o].trust
    BY <1>1, <2>2 DEF Owned, TrustMade
  <2> QED BY <1>2, <1>4, <2>1, <2>2, Variable
<1> QED BY <1>3, <1>4 DEF TrustMade

(* Requests are signed with the one scientist key there is.                *)
LEMMA RequestsOwned ==
    ASSUME Placed, FrozenShape, IssuedInv, NEW s, NEW q, Owned(s, q),
           NEW p \in Process, Goes(p), instruction(p)[1] # "mkdir"
    PROVE  RequestsMade(q)'
<1> DEFINE i == instruction(p)
<1>1. /\ Step(p) /\ Moves(p, i) /\ i \in Instructions /\ (exists => exists')
  BY DEF Goes, Moves, Frame
<1>2. "request" \in File /\ "request" \in Local /\ "scientist" \in Keys
  BY KeyNames
<1>3. ASSUME files'["request"] \notin {Nothing, Torn}
      PROVE  exists' /\ Genuine(files'["request"], q)
  <2>1. CASE files'["request"] = files["request"]
    BY <1>1, <1>3, <2>1 DEF Owned, RequestsMade
  <2>2. CASE files'["request"] # files["request"]
    <3>1. /\ i[1] = "fill" /\ i[2] = "request"
          /\ files'["request"] = memory[p].request
      BY <1>2, <1>3, <2>2, Touched
    <3>2. Knows(p, has("request"))
      BY <1>1, <3>1, Needed
    <3> QED BY <1>1, <3>1, <3>2 DEF Owned, RequestsMade
  <2> QED BY <2>1, <2>2
<1>4. ASSUME NEW o \in Process, Knows(o, has("request"))'
      PROVE  exists' /\ Genuine(memory'[o].request, q)
  <2>1. CASE o = p /\ i[1] \in Setters /\ i[2] = "request"
    <3>1. CASE i[1] = "load"
      <4>1. Load(p)
        BY <1>1, <3>1, ActionAt
      <4>2. /\ files["request"] \notin {Nothing, Torn}
            /\ Assign(p, "request", files["request"])
        BY <2>1, <4>1 DEF Load, readable, file
      <4>3. memory'[p].request = files["request"]
        BY <1>2, <4>2, Assigned
      <4> QED BY <1>1, <2>1, <4>2, <4>3 DEF Owned, RequestsMade
    <3>2. CASE i[1] = "sign"
      <4> DEFINE intent == memory[p].intent
                 key    == memory[p].scientist
                 data   == message("intent", key.suite, key.identity, intent)
                 signing(draw) ==
                    [intent     |-> intent,
                     signatures |-> sign(key.suite, key.private_keys, data,
                                         draw)]
      <4>0. Sign(p)
        BY <1>1, <3>2, ActionAt
      <4>1. PICK draw \in Draws["intent"] :
               /\ sign_check(intent, key) = OK
               /\ Assign(p, "request", signing(draw))
        BY <4>0, Zenon DEF Sign
      <4> DEFINE signed == signing(draw)
      <4>2. Knows(p, has("scientist"))
        BY <1>1, <3>2, Needed
      <4>3. exists /\ key = key_file("scientist", s, q)
        BY <1>2, <4>2 DEF Owned, KeysMade
      <4>4. key.identity = intent.subject /\ key.suite = intent.required_suite
        <5>1. require(key.identity = intent.subject
                          /\ key.suite = intent.required_suite,
                      "REQUESTER_KEY_MISMATCH") = OK
          BY <4>1, ChainPasses DEF sign_check
        <5> QED BY <5>1 DEF require, OK
      <4>5. key.suite = s
        BY <4>3 DEF key_file
      <4>6. memory'[p].request = signed
        BY <1>2, <4>1, Assigned
      <4> HIDE DEF intent, key
      <4>7. Genuine(signed, q)
        BY <4>3, <4>4, <4>5 DEF Genuine
      <4> QED BY <1>1, <2>1, <4>3, <4>6, <4>7
    <3> QED BY <1>1, <2>1, <3>1, <3>2, SetBy
  <2>2. CASE Knows(o, has("request"))
             /\ memory'[o].request = memory[o].request
    BY <1>1, <2>2 DEF Owned, RequestsMade
  <2> QED BY <1>2, <1>4, <2>1, <2>2, Variable
<1> QED BY <1>3, <1>4 DEF RequestsMade

(* The runs that a job for a genuine request adds to are of such.          *)
LEMMA SimulatedGenuine ==
    ASSUME FrozenShape, NEW s, NEW q, Owned(s, q), NEW p \in Process,
           \/ runs' = runs
           \/ \E answer \in Answer : Simulate(p, answer)
    PROVE  \A n \in DOMAIN runs' : exists /\ Genuine(runs'[n].request, q)
<1>1. CASE runs' = runs
  BY <1>1 DEF Owned, RunsMade
<1>2. ASSUME NEW answer \in Answer, Simulate(p, answer)
      PROVE  \A n \in DOMAIN runs' : exists /\ Genuine(runs'[n].request, q)
  <2> DEFINE j == job(p, answer)
  <2>1. /\ executing[p] # Nothing /\ runs' = Append(runs, j)
        /\ j.request = executing[p].request
    BY <1>2 DEF Simulate, job
  <2>2. exists /\ Genuine(j.request, q)
    BY <2>1 DEF Owned, RunsMade
  <2> HIDE DEF j
  <2>3. \A n \in DOMAIN runs' : \/ n \in DOMAIN runs /\ runs'[n] = runs[n]
                                \/ runs'[n] = j
    BY <2>1, OneMoreRun DEF FrozenShape
  <2> QED BY <2>2, <2>3 DEF Owned, RunsMade
<1> QED BY <1>1, <1>2

(* The processor executes only requests signed with that key.              *)
LEMMA RunsOwned ==
    ASSUME Placed, FrozenShape, IssuedInv, NEW s, NEW q, Owned(s, q),
           NEW p \in Process, Goes(p), instruction(p)[1] # "mkdir"
    PROVE  RunsMade(q)'
<1> DEFINE i == instruction(p)
<1>1. /\ Step(p) /\ Moves(p, i) /\ Frame(p, i) /\ Alone(p)
      /\ (exists => exists')
  BY DEF Goes, Moves, Frame
<1>2. ASSUME NEW o \in Process, executing'[o] # Nothing
      PROVE  exists' /\ Genuine(executing'[o].request, q)
  <2>1. CASE executing'[o] = executing[o]
    BY <1>1, <1>2, <2>1 DEF Owned, RunsMade
  <2>2. CASE executing'[o] # executing[o]
    <3>1. o = p /\ i[1] \in {"admit", "run"}
      BY <1>1, <2>2 DEF Alone, Frame
    <3>2. CASE i[1] = "admit"
      <4>1. executing'[p].request = memory[p].request
        <5>1. Admit(p)
          BY <1>1, <3>2, ActionAt
        <5> QED BY <5>1 DEF Admit, FrozenShape
      <4>2. Knows(p, has("request"))
        BY <1>1, <3>2, Needed
      <4> QED BY <1>1, <3>1, <4>1, <4>2 DEF Owned, RequestsMade
    <3>3. CASE i[1] = "run"
      <4>1. executing'[p] = Nothing
        <5>1. PICK answer \in Answer : Run(p, answer) \/ RunFails(p, answer)
          BY <1>1, <3>3, ActionAt
        <5>2. executing' = [executing EXCEPT ![p] = Nothing]
          BY <5>1 DEF Run, RunFails, Exit
        <5> QED BY <5>2 DEF FrozenShape
      <4> QED BY <1>2, <3>1, <4>1
    <3> QED BY <3>1, <3>2, <3>3
  <2> QED BY <2>1, <2>2
<1>3. \A n \in DOMAIN runs' : exists' /\ Genuine(runs'[n].request, q)
  <2>1. \/ runs' = runs
        \/ \E answer \in Answer : Simulate(p, answer)
    <3>1. i[1] = "run" =>
             \E answer \in Answer : Run(p, answer) \/ RunFails(p, answer)
      BY <1>1, ActionAt
    <3> QED BY <1>1, <3>1 DEF Frame, Run, RunFails
  <2> QED BY <1>1, <2>1, SimulatedGenuine
<1> QED BY <1>2, <1>3 DEF RunsMade

(* Who waits, begins or ends leaves files and directory alone.             *)
LEMMA OwnerRests ==
    ASSUME FrozenShape, NEW s, NEW q, Owned(s, q),
           \/ Waiting
           \/ \E p \in Process : Begins(p) \/ Ends(p)
    PROVE  Owned(s, q)'
<1>2. /\ Keys \subseteq File /\ Keys \subseteq Local
      /\ {"trust", "request"} \subseteq File
      /\ {"trust", "request"} \subseteq Local
      /\ \A k \in Keys : k \notin {"experiment", "intent"}
  BY KeyNames
<1> USE DEF Owned, OneMaker, KeysFirst, OpenedTorn, KeysWritten, KeysMade,
            TrustMade, RequestsMade, RunsMade
<1>3. CASE Waiting
  <2>1. \A o, v : Knows(o, v)' <=> Knows(o, v)
    BY <1>3, Waits DEF Waiting
  <2>2. \A n \in Keys \cup {"trust", "request"} : files'[n] = files[n]
    BY <1>2, <1>3 DEF Waiting
  <2>3. UNCHANGED <<exists, command, memory, executing, runs>>
    BY <1>3 DEF Waiting
  <2>4. (OneMaker(s, q) /\ KeysFirst /\ OpenedTorn)'
    BY <2>1, <2>2, <2>3
  <2>5. (KeysWritten(s, q) /\ KeysMade(s, q))'
    BY <2>1, <2>2, <2>3
  <2>6. (TrustMade(s, q) /\ RequestsMade(q) /\ RunsMade(q))'
    BY <2>1, <2>2, <2>3
  <2> QED BY <2>4, <2>5, <2>6
<1>4. ASSUME NEW p \in Process, Begins(p) \/ Ends(p) PROVE Owned(s, q)'
  <2>1. /\ Alone(p) /\ UNCHANGED <<exists, files>>
        /\ executing'[p] = executing[p] \/ executing'[p] = Nothing
    BY <1>4 DEF Begins, Ends
  <2>2. /\ ~ Knows(p, made)' /\ ~ Knows(p, has("trust"))'
        /\ ~ Knows(p, has("request"))'
        /\ \A n : ~ Knows(p, opened(n))' /\ ~ Knows(p, written(n))'
                 /\ ~ Knows(p, has(n))'
    <3>1. \A v : Knows(p, v)' => v \in Blank
      BY <1>4 DEF Begins, Ends
    <3> QED BY <3>1 DEF Blank, own, none, made, has, opened, written
  <2>3. (OneMaker(s, q) /\ KeysFirst /\ OpenedTorn)'
    BY <2>1, <2>2 DEF Alone
  <2>4. (KeysWritten(s, q) /\ KeysMade(s, q))'
    BY <1>2, <2>1, <2>2 DEF Alone
  <2>5. (TrustMade(s, q) /\ RequestsMade(q))'
    BY <1>2, <2>1, <2>2 DEF Alone
  <2>6. RunsMade(q)'
    <3>1. \A n \in DOMAIN runs' : exists /\ Genuine(runs'[n].request, q)
      BY <1>4, SimulatedGenuine DEF Begins, Ends
    <3> QED BY <2>1, <3>1 DEF Alone
  <2> QED BY <2>3, <2>4, <2>5, <2>6
<1> QED BY <1>3, <1>4

(* Every step leaves the workspace with at most one provisioner.           *)
LEMMA OwnerStep ==
    ASSUME Placed, FrozenShape, IssuedInv, OwnerInv, [Next]_vars
    PROVE  OwnerInv'
<1>1. PICK s \in Suites, q \in Process : Owned(s, q)
  BY DEF OwnerInv
<1>4. CASE Waiting \/ \E p \in Process : Begins(p) \/ Ends(p)
  <2>1. Owned(s, q)'
    BY <1>1, <1>4, OwnerRests
  <2> QED BY <2>1 DEF OwnerInv
<1>5. ASSUME NEW p \in Process, Goes(p), instruction(p)[1] = "mkdir"
      PROVE  OwnerInv'
  <2>1. command[p] \in Command[p] /\ command' = command
    BY <1>5 DEF Goes, Placed
  <2>2. suite(command[p]) \in Suites
    <3>1. command[p].name \in {"init", "quantum_demo"} =>
             command[p].suite \in Suites
      BY <2>1, CommandAssumption
    <3> QED BY <3>1 DEF suite, Suites
  <2>3. Owned(suite(command[p]), p)'
    BY <1>1, <1>5, MkdirOwns
  <2>4. Owned(suite(command[p]), p)' => \E t \in Suites : Owned(t, p)'
    BY <2>1, <2>2, Zenon
  <2> QED BY <2>3, <2>4 DEF OwnerInv
<1>6. ASSUME NEW p \in Process, Goes(p), instruction(p)[1] # "mkdir"
      PROVE  OwnerInv'
  <2>1. /\ (OneMaker(s, q) /\ KeysFirst /\ OpenedTorn /\ KeysWritten(s, q))'
        /\ KeysMade(s, q)' /\ TrustMade(s, q)' /\ RequestsMade(q)'
        /\ RunsMade(q)'
    BY <1>1, <1>6, FilesOwned, KeysOwned, TrustOwned, RequestsOwned, RunsOwned
  <2> QED BY <2>1 DEF OwnerInv, Owned
<1> QED BY <1>4, <1>5, <1>6, Progress

(* An empty directory will be provisioned by whoever comes first.          *)
LEMMA OwnerInitial == Init => OwnerInv
<1> SUFFICES ASSUME Init PROVE OwnerInv
  OBVIOUS
<1>1. PICK q \in Process : TRUE
  BY WorkspaceAssumption
<1>2. "ed25519-v1" \in Suites
  BY DEF Suites
<1>3. \A p, v : p \in Process => ~ Knows(p, v)
  BY DEF Init, Knows
<1>4. \A n \in Keys \cup {"trust", "request"} : files[n] = Nothing
  BY KeyNames DEF Init
<1>5. /\ \A p \in Process : executing[p] = Nothing
      /\ DOMAIN runs = {}
  BY DEF Init
<1>6. OneMaker("ed25519-v1", q) /\ KeysFirst /\ OpenedTorn
  BY <1>3 DEF OneMaker, KeysFirst, OpenedTorn
<1>7. KeysWritten("ed25519-v1", q) /\ KeysMade("ed25519-v1", q)
  BY <1>3, <1>4 DEF KeysWritten, KeysMade
<1>8. TrustMade("ed25519-v1", q) /\ RequestsMade(q) /\ RunsMade(q)
  BY <1>3, <1>4, <1>5 DEF TrustMade, RequestsMade, RunsMade
<1> QED BY <1>1, <1>2, <1>6, <1>7, <1>8 DEF OwnerInv, Owned

(* One process provisions a workspace, with one suite: all key files, the  *)
(* trust bundles and the signed requests that are ever about are its.      *)
THEOREM ProvisionedOnce == Spec => []OwnerInv
<1>1. Init => OwnerInv
  BY OwnerInitial
<1>2. FrozenInv /\ (Placed /\ IssuedInv) /\ OwnerInv /\ [Next]_vars =>
          OwnerInv'
  BY OwnerStep DEF FrozenInv
<1> QED BY <1>1, <1>2, FrozenInvariant, ProgramInvariant, PTL DEF Spec

(* Once trust.json can be read, every key file can, and holds the private  *)
(* keys of the public keys in trust.json.                                  *)
THEOREM CommandsKeepKeys == Spec => []TrustHasKeys
<1>1. OwnerInv => TrustHasKeys
  <2> SUFFICES ASSUME OwnerInv, readable("trust", Nothing),
                      NEW k \in Keys
               PROVE  /\ readable(k, Nothing)
                      /\ files[k].private_keys = public(files["trust"], k)
    BY DEF TrustHasKeys, Keys
  <2> DEFINE t == files["trust"]
             key == files[k]
  <2>1. PICK s \in Suites, q \in Process : Owned(s, q)
    BY DEF OwnerInv
  <2>2. /\ t \notin {Nothing, Torn} /\ TrustBundle(t)
        /\ trust_snapshot(t) = OK
    <3>1. "trust" \notin Range(Identities)
      BY KeyNames DEF Keys
    <3> QED BY <3>1 DEF readable, file, accepts
  <2>3. /\ Keyed(t, s, q) /\ \A n \in Keys : files[n] = key_file(n, s, q)
    BY <2>1, <2>2 DEF Owned, TrustMade
  <2>4. key \notin {Nothing, Torn}
    BY <2>1, <2>3, MarkAssumption DEF Keys
  <2>5. key = [identity     |-> k, suite |-> s,
               private_keys |-> key_file(k, s, q).private_keys]
    BY <2>3 DEF key_file
  <2>6. components(s) \subseteq STRING
    BY <2>2, <2>3 DEF TrustBundle, is_dict, key_file, Keyed, generated
  <2>7. k \in STRING
    <3>1. k \in VerifierNames \cup {"scientist", "executor"}
      BY KeyNames DEF VerifierNames
    <3>2. /\ DOMAIN t.verifiers = VerifierNames
          /\ DOMAIN t.requesters = {"scientist"}
          /\ t.executor_id = "executor"
      BY <2>3 DEF Keyed
    <3>3. /\ DOMAIN t.verifiers \subseteq STRING
          /\ DOMAIN t.requesters \subseteq STRING
          /\ t.executor_id \in STRING
      BY <2>2 DEF TrustBundle, is_dict, Identifier
    <3> QED BY <3>1, <3>2, <3>3
  <2>8. KeyFile(key)
    BY <2>5, <2>6, <2>7 DEF KeyFile, Identifier, is_dict, key_file
  <2>9. readable(k, Nothing)
    <3>1. file(k) = key
      <4>1. k # "issuer"
        BY KeyNames
      <4> QED BY <4>1 DEF file
    <3>2. accepts(k, key, Nothing)
      <4>1. k \in Range(Identities) /\ k \notin {"trust", "issuer",
               "experiment",
               "intent", "request", "receipt", "result", "summary"}
        BY KeyNames DEF Keys
      <4> HIDE DEF key
      <4> QED BY <2>8, <4>1 DEF accepts
    <3> HIDE DEF key
    <3> QED BY <2>4, <3>1, <3>2 DEF readable
  <2>10. public(t, k) = generated(k, s, q)
    <3>1. k \in VerifierNames \cup {"scientist", "executor"}
      BY KeyNames DEF VerifierNames
    <3> QED BY <2>3, <3>1 DEF Keyed, public, VerifierNames
  <2> QED BY <2>3, <2>9, <2>10 DEF generated
<1> QED BY <1>1, ProvisionedOnce, PTL

-----------------------------------------------------------------------------
(* The run that the documents p has belong to.                             *)
Supported(p) ==
    \E i \in DOMAIN runs :
        /\ runs[i].request.intent = memory[p].request.intent
        /\ runs[i].receipt = memory[p].receipt
        /\ runs[i].answer.counts = memory[p].result.body.counts
        /\ runs[i].time = memory[p].result.body.executed_at

(* Who claims nothing has no result, ...                                   *)
NoClaim ==
    \A p \in Process : Knows(p, none) \/ command[p] = Idle =>
        memory[p].result = Nothing

(* ... execute() runs the request and the receipt it was called with, ...  *)
HeldInMemory ==
    \A p \in Process : Knows(p, admitted) /\ executing[p] # Nothing =>
        /\ executing[p].request = memory[p].request
        /\ executing[p].receipt = memory[p].receipt

(* ... and a result that was run or verified belongs to its documents.     *)
ProvedSupported ==
    \A p \in Process : Knows(p, proved) /\ memory[p].result # Nothing =>
        Supported(p)

(* The inductive invariant behind ClaimsTrue.                              *)
ClaimInv == NoClaim /\ HeldInMemory /\ ProvedSupported

(* What _verify_result checks: outcome, request and receipt digests.       *)
LEMMA ResultVerified ==
    ASSUME NEW result, NEW request, NEW receipt, NEW trust,
           verify_result(result, request, receipt, trust) = OK
    PROVE  /\ result.body.action_digest = digest("intent", request.intent)
           /\ result.body.receipt_digest = digest("receipt", receipt)
<1> DEFINE body == result.body
           acted == body.action_digest = digest("intent", request.intent)
           received == /\ body.receipt_digest = digest("receipt", receipt)
                       /\ body.receipt_id = receipt.header.receipt_id
<1>1. require(acted, "RESULT_ACTION_MISMATCH") = OK
  BY ZenonT(30) DEF verify_result, ??
<1>2. require(received, "RESULT_RECEIPT_MISMATCH") = OK
  BY ZenonT(30) DEF verify_result, ??
<1> HIDE DEF acted, received
<1>3. acted /\ received
  BY <1>1, <1>2, RequirePasses DEF OK
<1> QED BY <1>3 DEF acted, received

(* A supported claim stays supported: runs are never erased.               *)
LEMMA SupportedStays ==
    ASSUME FrozenShape, NEW p, Supported(p),
           \/ runs' = runs
           \/ \E o : \E answer \in Answer : Simulate(o, answer),
           /\ memory'[p].request = memory[p].request
           /\ memory'[p].receipt = memory[p].receipt
           /\ memory'[p].result = memory[p].result
    PROVE  Supported(p)'
<1>1. CASE runs' = runs
  BY <1>1 DEF Supported
<1>2. ASSUME NEW o, NEW answer \in Answer, Simulate(o, answer)
      PROVE  Supported(p)'
  <2>1. runs' = Append(runs, job(o, answer))
    BY <1>2 DEF Simulate
  <2>2. /\ \A n \in DOMAIN runs : n \in DOMAIN runs' /\ runs'[n] = runs[n]
    BY <2>1, OneMoreRun DEF FrozenShape
  <2> QED BY <2>2 DEF Supported
<1> QED BY <1>1, <1>2

(* Digests under one domain tell documents apart.                          *)
LEMMA DigestsTell ==
    ASSUME NEW domain, NEW a, NEW b, digest(domain, a) = digest(domain, b)
    PROVE  a = b
BY DEF digest

(* A result that verifies was signed by the executor for a run it made:    *)
(* the run is recorded, on the intent of the request the command holds.    *)
LEMMA VerifiedSupported ==
    ASSUME RecordInv, NEW p \in Process, memory[p].result # Nothing,
           verify_result(memory[p].result, memory[p].request,
                         memory[p].receipt, memory[p].trust) = OK
    PROVE  Supported(p)
<1>1. PICK n \in DOMAIN runs : RecordOf(memory[p].result, runs[n])
  BY DEF RecordInv, MemoryRecorded, Recorded
<1> DEFINE body == memory[p].result.body
<1>2. /\ body.action_digest = digest("intent", memory[p].request.intent)
      /\ body.receipt_digest = digest("receipt", memory[p].receipt)
  BY ResultVerified
<1>3. /\ body.action_digest = digest("intent", runs[n].request.intent)
      /\ body.receipt_digest = digest("receipt", runs[n].receipt)
      /\ body.counts = runs[n].answer.counts
      /\ body.executed_at = runs[n].time
  BY <1>1 DEF RecordOf
<1>4. /\ runs[n].request.intent = memory[p].request.intent
      /\ runs[n].receipt = memory[p].receipt
  BY <1>2, <1>3, DigestsTell
<1> QED BY <1>1, <1>3, <1>4 DEF Supported

(* The result a run returns is of the request the command had admitted.    *)
LEMMA RunSupported ==
    ASSUME FrozenShape, HeldInMemory, NEW p \in Process, Knows(p, admitted),
           NEW answer \in Answer, Run(p, answer)
    PROVE  Supported(p)'
<1> DEFINE call == executing[p]
           signing(draw) == record(call.request, call.receipt, call.trust,
                                   memory[p].executor, now, answer.counts,
                                   draw)
           run == job(p, answer)
<1>0. PICK draw \in Draws["result"] : Assign(p, "result", signing(draw))
  BY Zenon DEF Run
<1> DEFINE value == signing(draw)
<1>1. /\ call # Nothing /\ runs' = Append(runs, run)
      /\ Assign(p, "result", value)
  BY <1>0 DEF Run, Simulate
<1>2. /\ "result" \in Local /\ "request" \in Local /\ "receipt" \in Local
  BY DEF Local, File
<1>3. /\ memory'[p].result = value
      /\ memory'[p].request = memory[p].request
      /\ memory'[p].receipt = memory[p].receipt
  BY <1>1, <1>2 DEF FrozenShape, Assign
<1>4. /\ value.body.counts = answer.counts /\ value.body.executed_at = now
  BY DEF record, result_body
<1>5. /\ run.request = memory[p].request /\ run.receipt = memory[p].receipt
      /\ run.answer = answer /\ run.time = now
  BY <1>1 DEF job, HeldInMemory
<1>6. Len(runs) + 1 \in DOMAIN runs' /\ runs'[Len(runs) + 1] = run
  BY <1>1, OneMoreRun DEF FrozenShape
<1> HIDE DEF value, run, signing
<1> QED BY <1>3, <1>4, <1>5, <1>6 DEF Supported

(* An instruction preserves ClaimInv: only run and verify result prove,    *)
(* and loading another result, request or receipt forgets.                 *)
LEMMA ClaimGoes ==
    ASSUME Placed, FrozenShape, RecordInv, ClaimInv,
           NEW p \in Process, Goes(p)
    PROVE  ClaimInv'
<1> DEFINE i == instruction(p)
<1>1. /\ Step(p) /\ Moves(p, i) /\ Frame(p, i) /\ Alone(p)
      /\ i \in Instructions
      /\ command' = command /\ command[p] # Idle
  BY DEF Goes, Moves
<1>2. "result" \in Local /\ "request" \in Local /\ "receipt" \in Local
  BY DEF Local, File
<1>3. \A v : Knows(p, v)' => Gives(i, v) \/ (Knows(p, v) /\ ~ Kills(i, v))
  BY <1>1 DEF Moves
<1>4. \A o \in Process, n \in {"result", "request", "receipt"} :
         \/ memory'[o][n] = memory[o][n]
         \/ o = p /\ i[1] \in Setters /\ i[2] = n
  BY <1>1, <1>2 DEF Frame
<1>5. /\ i[1] \in Setters /\ i[2] = "result" => i[1] \in {"load", "run"}
      /\ i[1] \in Setters /\ i[2] = "request" => i[1] \in {"load", "sign"}
      /\ i[1] \in Setters /\ i[2] = "receipt" => i[1] \in {"load", "attest"}
  BY <1>1, SetBy
<1>6. i[1] = "run" => \E answer \in Answer : Run(p, answer)
  <2> SUFFICES ASSUME i[1] = "run" PROVE \E answer \in Answer : Run(p, answer)
    OBVIOUS
  <2>1. PICK answer \in Answer : Run(p, answer) \/ RunFails(p, answer)
    BY <1>1, ActionAt
  <2>2. CASE RunFails(p, answer)
    <3>1. command' = [command EXCEPT ![p] = Idle]
      BY <2>2 DEF RunFails, Exit
    <3> QED BY <1>1, <3>1 DEF Placed
  <2> QED BY <2>1, <2>2
<1>7. \/ runs' = runs
      \/ \E answer \in Answer : Simulate(p, answer)
  BY <1>1, <1>6 DEF Frame, Run
<1>8. NoClaim'
  <2> SUFFICES ASSUME NEW o \in Process, Knows(o, none)' \/ command'[o] = Idle
               PROVE  memory'[o].result = Nothing
    BY DEF NoClaim
  <2>1. CASE o # p
    <3>1. /\ Knows(o, none) \/ command[o] = Idle
          /\ memory'[o].result = memory[o].result
      BY <1>1, <1>2, <2>1 DEF Alone
    <3> QED BY <3>1 DEF ClaimInv, NoClaim
  <2>2. CASE o = p
    <3>1. Knows(p, none) /\ ~ Kills(i, none)
      BY <1>1, <1>3, <2>2, GivenBy
    <3>2. ~ (i[1] \in {"load", "run"} /\ i[2] = "result")
      BY <3>1 DEF Kills
    <3>3. memory'[p].result = memory[p].result
      BY <1>4, <1>5, <3>2
    <3> QED BY <2>2, <3>1, <3>3 DEF ClaimInv, NoClaim
  <2> QED BY <2>1, <2>2
<1>9. HeldInMemory'
  <2> SUFFICES ASSUME NEW o \in Process, Knows(o, admitted)',
                      executing'[o] # Nothing
               PROVE  /\ executing'[o].request = memory'[o].request
                      /\ executing'[o].receipt = memory'[o].receipt
    BY DEF HeldInMemory
  <2>1. CASE o # p
    <3>1. /\ Knows(o, admitted) /\ executing'[o] = executing[o]
          /\ memory'[o].request = memory[o].request
          /\ memory'[o].receipt = memory[o].receipt
      BY <1>1, <1>2, <2>1 DEF Alone
    <3> QED BY <3>1 DEF ClaimInv, HeldInMemory
  <2>2. CASE o = p /\ i[1] = "admit"
    <3>1. Admit(p)
      BY <1>1, <2>2, ActionAt
    <3>2. /\ executing'[p].request = memory[p].request
          /\ executing'[p].receipt = memory[p].receipt
          /\ memory' = memory
      BY <3>1 DEF Admit, FrozenShape
    <3> QED BY <2>2, <3>2
  <2>3. CASE o = p /\ i[1] # "admit"
    <3>1. Knows(p, admitted) /\ ~ Kills(i, admitted)
      BY <1>3, <2>3, GivenBy
    <3>2. ~ (/\ i[1] \in {"load", "sign", "attest"}
             /\ i[2] \in {"request", "receipt"})
      BY <3>1 DEF Kills
    <3>3. /\ memory'[p].request = memory[p].request
          /\ memory'[p].receipt = memory[p].receipt
      BY <1>4, <1>5, <3>2
    <3>4. executing'[p] = executing[p]
      <4>1. CASE i[1] = "run"
        <5>1. executing' = [executing EXCEPT ![p] = Nothing]
          BY <1>6, <4>1 DEF Run
        <5> QED BY <2>3, <5>1 DEF FrozenShape
      <4>2. CASE i[1] # "run"
        BY <1>1, <2>3, <4>2 DEF Frame
      <4> QED BY <4>1, <4>2
    <3> QED BY <2>3, <3>1, <3>3, <3>4 DEF ClaimInv, HeldInMemory
  <2> QED BY <2>1, <2>2, <2>3
<1>10. ProvedSupported'
  <2> SUFFICES ASSUME NEW o \in Process, Knows(o, proved)',
                      memory'[o].result # Nothing
               PROVE  Supported(o)'
    BY DEF ProvedSupported
  <2>1. ASSUME Knows(o, proved), memory'[o].request = memory[o].request,
               memory'[o].receipt = memory[o].receipt,
               memory'[o].result = memory[o].result
        PROVE  Supported(o)'
    BY <1>7, <2>1, SupportedStays DEF ClaimInv, ProvedSupported
  <2>2. CASE o # p
    BY <1>1, <1>2, <2>1, <2>2 DEF Alone
  <2>3. CASE o = p /\ i[1] = "run"
    <3>1. Knows(p, admitted)
      BY <1>1, <2>3, Needed
    <3> QED BY <1>6, <2>3, <3>1, RunSupported DEF ClaimInv
  <2>4. CASE o = p /\ i[1] = "verify result"
    <3>1. /\ verify_result(memory[p].result, memory[p].request,
                           memory[p].receipt, memory[p].trust) = OK
          /\ memory' = memory /\ runs' = runs
      BY <1>1, <2>4, ActionAt DEF VerifyResult, Check
    <3>2. Supported(p)
      BY <2>4, <3>1, VerifiedSupported
    <3> QED BY <2>4, <3>1, <3>2 DEF Supported
  <2>5. CASE o = p /\ i[1] \notin {"run", "verify result"}
    <3>1. Knows(p, proved) /\ ~ Kills(i, proved)
      BY <1>3, <2>5, GivenBy
    <3>2. /\ ~ (/\ i[1] \in {"load", "sign", "attest"}
                /\ i[2] \in {"request", "receipt"})
          /\ ~ (i[1] \in {"load", "run"} /\ i[2] = "result")
      BY <3>1 DEF Kills
    <3>3. /\ memory'[p].request = memory[p].request
          /\ memory'[p].receipt = memory[p].receipt
          /\ memory'[p].result = memory[p].result
      BY <1>4, <1>5, <3>2
    <3> QED BY <2>1, <2>5, <3>1, <3>3
  <2> QED BY <2>2, <2>3, <2>4, <2>5
<1> QED BY <1>8, <1>9, <1>10 DEF ClaimInv

(* Every step preserves ClaimInv.                                          *)
LEMMA ClaimStep ==
    ASSUME Placed, FrozenShape, RecordInv, ClaimInv, [Next]_vars
    PROVE  ClaimInv'
<1>1. "result" \in Local /\ "request" \in Local /\ "receipt" \in Local
  BY DEF Local, File
<1>2. CASE Waiting
  <2>1. \A o, v : Knows(o, v)' <=> Knows(o, v)
    BY <1>2, Waits DEF Waiting
  <2>2. UNCHANGED <<command, memory, executing, runs>>
    BY <1>2 DEF Waiting
  <2> QED BY <2>1, <2>2
          DEF ClaimInv, NoClaim, HeldInMemory, ProvedSupported, Supported
<1>3. ASSUME NEW p \in Process, Begins(p) \/ Ends(p) PROVE ClaimInv'
  <2>1. /\ Alone(p)
        /\ memory'[p].result = Nothing
        /\ \/ runs' = runs
           \/ \E answer \in Answer : Simulate(p, answer)
    BY <1>1, <1>3 DEF Begins, Ends, ClaimInv, NoClaim
  <2>2. /\ ~ Knows(p, admitted)' /\ ~ Knows(p, proved)'
    <3>1. \A v : Knows(p, v)' => v \in Blank
      BY <1>3 DEF Begins, Ends
    <3> QED BY <3>1 DEF Blank, own, none, admitted, proved
  <2>3. (NoClaim /\ HeldInMemory)'
    BY <1>1, <2>1, <2>2 DEF ClaimInv, NoClaim, HeldInMemory, Alone
  <2>4. ProvedSupported'
    <3> SUFFICES ASSUME NEW o \in Process, Knows(o, proved)',
                        memory'[o].result # Nothing
                 PROVE  Supported(o)'
      BY DEF ProvedSupported
    <3>1. /\ Knows(o, proved) /\ memory[o].result # Nothing
          /\ memory'[o].request = memory[o].request
          /\ memory'[o].receipt = memory[o].receipt
          /\ memory'[o].result = memory[o].result
      BY <1>1, <2>1, <2>2 DEF Alone
    <3>2. Supported(o)
      BY <3>1 DEF ClaimInv, ProvedSupported
    <3> QED BY <2>1, <3>1, <3>2, SupportedStays
  <2> QED BY <2>3, <2>4 DEF ClaimInv
<1> QED BY <1>2, <1>3, ClaimGoes, Progress

(* Nothing is claimed in an empty directory.                               *)
LEMMA ClaimInitial == Init => ClaimInv
<1> SUFFICES ASSUME Init PROVE ClaimInv
  OBVIOUS
<1>1. \A p \in Process : \A v : ~ Knows(p, v)
  BY DEF Init, Knows
<1>2. \A p \in Process : memory[p].result = Nothing
  BY DEF Init, Local, File
<1> QED BY <1>1, <1>2 DEF ClaimInv, NoClaim, HeldInMemory, ProvedSupported

(* print is no instruction of a subroutine.                                *)
LEMMA InstructionNames ==
    ASSUME NEW i \in Instructions
    PROVE  i[1] # "print"
<1> SUFFICES ASSUME i[1] = "print" PROVE FALSE
  OBVIOUS
<1>1. i = <<"print", i[2]>>
  BY Named
<1> HIDE DEF Instructions
<1>2. <<"print", i[2]>> \in Instructions
  BY <1>1
<1> DEFINE n == i[2]
<1> HIDE DEF n
<1>3. <<"print", n>> \notin Fixed
  BY DEF Fixed
<1> QED BY <1>2, <1>3 DEF Instructions, n

(* The documents of a command that reports a result are of one run.        *)
THEOREM ClaimsInvariant == Spec => []ClaimInv
<1>1. Init => ClaimInv
  BY ClaimInitial
<1>2. FrozenInv /\ (Placed /\ IssuedInv) /\ RecordInv /\ ClaimInv
          /\ [Next]_vars => ClaimInv'
  BY ClaimStep DEF FrozenInv
<1> QED
  BY <1>1, <1>2, FrozenInvariant, ProgramInvariant, ResultsRecordRuns, PTL
     DEF Spec

(* When a command prints a result, the intent, the receipt and the result  *)
(* it holds belong to one run that gave these counts at this time: execute *)
(* prints what its run returned, verify-result what passed verify_result,  *)
(* whatever other processes write into the directory meanwhile and         *)
(* wherever they die.  The request of that run may bear another of the     *)
(* scientist's signatures over the intent.                                 *)
THEOREM CommandsClaimTrue == Spec => []ClaimsTrue
<1>1. Placed /\ IssuedInv /\ ClaimInv => ClaimsTrue
  <2> SUFFICES ASSUME Placed, ClaimInv, NEW p \in Process, At(p, "print"),
                      memory[p].result # Nothing
               PROVE  Supported(p)
    BY DEF ClaimsTrue, Supported
  <2>1. command[p] # Idle /\ instruction(p)[1] = "print"
    BY DEF At
  <2>2. Knows(p, proved) \/ Knows(p, none)
    BY <2>1, AtInstruction, InstructionNames
  <2> QED BY <2>2 DEF ClaimInv, NoClaim, ProvedSupported
<1> QED BY <1>1, ProgramInvariant, ClaimsInvariant, PTL

-----------------------------------------------------------------------------
(* An experiment that both ways of altering a request change.              *)
Studied(e) ==
    /\ [e EXCEPT !.shots = @ + 1] # e
    /\ [e EXCEPT !.gates[1].op = "X"] # e

(* An intent as freeze() makes it of such an experiment.                   *)
Sealed(intent) ==
    LET e == intent.parameters.experiment IN
    /\ "parameters" \in DOMAIN intent
    /\ intent.parameters = [experiment    |-> e,
                            frozen_digest |-> digest("experiment", e)]
    /\ Studied(e)

(* A demo has not looked at files that others may have replaced, ...       *)
DemosSealed ==
    \A p \in Process : Knows(p, own) =>
        /\ Knows(p, has("experiment")) => Studied(memory[p].experiment)
        /\ Knows(p, has("intent")) => Sealed(memory[p].intent)
        /\ Knows(p, has("request")) =>
               /\ "intent" \in DOMAIN memory[p].request
               /\ Sealed(memory[p].request.intent)

(* ... and a request that was admitted is spent.                           *)
AdmittedSpent ==
    \A p \in Process : Knows(p, admitted) =>
        intent_key(memory[p].request) \in SpentKeys

(* The inductive invariant behind DemosRefuse.                             *)
DemoInv == DemosSealed /\ AdmittedSpent /\ DemosRefuse

(* One more shot, or another first gate, makes another experiment of the   *)
(* Bell experiment of provision.                                           *)
LEMMA BellStudied == Studied(bell_experiment)
<1> DEFINE e == bell_experiment
           gates == <<gate("H", <<0>>), gate("CX", <<0, 1>>)>>
<1>1. /\ e = [schema_version |-> 1, backend |-> BUILTIN, qubits |-> 2,
              gates |-> gates, shots |-> 1024, seed |-> 7]
      /\ gates[1] = gate("H", <<0>>) /\ 1 \in DOMAIN gates
  BY DEF bell_experiment
<1> HIDE DEF e, gates
<1>2. [e EXCEPT !.shots = @ + 1].shots = 1025 /\ e.shots = 1024
  BY <1>1
<1>3. e.gates[1].op = "H" /\ [e EXCEPT !.gates[1].op = "X"].gates[1].op = "X"
  BY <1>1 DEF gate
<1>4. [e EXCEPT !.shots = @ + 1] # e
  <2> DEFINE more == [e EXCEPT !.shots = @ + 1]
  <2>1. more.shots = 1025 /\ e.shots = 1024
    BY <1>2
  <2> HIDE DEF more
  <2>2. more # e
    BY <2>1
  <2> QED BY <2>2 DEF more
<1>5. [e EXCEPT !.gates[1].op = "X"] # e
  BY <1>3
<1> QED BY <1>4, <1>5 DEF Studied, e

(* The same of a generated workload within its limits, whatever orders its *)
(* layers draw.                                                            *)
LEMMA WorkloadStudied ==
    ASSUME workload_limit(Qubits, Layers) = OK, NEW device,
           NEW orders \in Orders
    PROVE  Studied(workload(Qubits, device, orders))
<1> DEFINE e == workload(Qubits, device, orders)
           size == 3 * Qubits - 1
           gates == [i \in 1 .. Len(orders) * size |->
                        layer_gate(Qubits, orders[1 + ((i - 1) \div size)],
                                   1 + ((i - 1) % size))]
<1>1. Qubits \in 2 .. 26 /\ Layers \in 1 .. 20
  BY DEF workload_limit, require, OK
<1>2. Len(orders) = Layers
  BY WorkspaceAssumption
<1>3. size \in Nat /\ size > 0
  BY <1>1
<1>4. 1 \in 1 .. Len(orders) * size
  <2> HIDE DEF size
  <2>1. Layers * size \in Nat /\ Layers * size >= 1
    BY <1>1, <1>3
  <2> QED BY <1>2, <2>1
<1>5. 1 + ((1 - 1) % size) = 1
  <2> HIDE DEF size
  <2> QED BY <1>3
<1>6. 1 \in DOMAIN gates /\ gates[1].op = "H" /\ "op" \in DOMAIN gates[1]
  <2>1. PICK order : gates[1] = layer_gate(Qubits, order, 1)
    BY <1>4, <1>5
  <2>2. layer_gate(Qubits, order, 1) = gate("H", <<(1 - 1) \div 2>>)
    BY <1>1 DEF layer_gate
  <2>3. 1 \in DOMAIN gates
    BY <1>4
  <2> HIDE DEF gates
  <2> QED BY <2>1, <2>2, <2>3 DEF gate
<1>7. e = [schema_version |-> 2, backend |-> AerRevision(device),
           qubits |-> Qubits, gates |-> gates, shots |-> 1024, seed |-> 7]
  BY DEF workload
<1> HIDE DEF e, gates
<1>8. [e EXCEPT !.shots = @ + 1].shots = 1025 /\ e.shots = 1024
  BY <1>7
<1>9. e.gates[1].op = "H" /\ [e EXCEPT !.gates[1].op = "X"].gates[1].op = "X"
  BY <1>6, <1>7
<1>10. [e EXCEPT !.shots = @ + 1] # e
  <2> DEFINE more == [e EXCEPT !.shots = @ + 1]
  <2>1. more.shots = 1025 /\ e.shots = 1024
    BY <1>8
  <2> HIDE DEF more
  <2>2. more # e
    BY <2>1
  <2> QED BY <2>2 DEF more
<1>11. [e EXCEPT !.gates[1].op = "X"] # e
  BY <1>9
<1> QED BY <1>10, <1>11 DEF Studied, e

(* freeze() of such an experiment seals its digest in the intent.          *)
LEMMA FreezeSeals ==
    ASSUME NEW e, NEW t, NEW time, NEW nonce, Studied(e)
    PROVE  Sealed(freeze(e, t, time, nonce))
<1> DEFINE intent == freeze(e, t, time, nonce)
<1>1. /\ "parameters" \in DOMAIN intent
      /\ intent.parameters = [experiment    |-> e,
                              frozen_digest |-> digest("experiment", e)]
  BY DEF freeze
<1> HIDE DEF intent
<1>2. intent.parameters.experiment = e
  BY <1>1
<1> QED BY <1>1, <1>2 DEF Sealed, intent

(* execute() refuses a sealed request that was altered: its experiment no  *)
(* longer has the frozen digest.                                           *)
LEMMA AlteredRefused ==
    ASSUME NEW p, NEW c, NEW request, "intent" \in DOMAIN request,
           Sealed(request.intent)
    PROVE  admission(p, altered(c, request)) # OK
<1> DEFINE e == request.intent.parameters.experiment
           other == altered(c, request)
<1>1. /\ "parameters" \in DOMAIN request.intent
      /\ request.intent.parameters =
             [experiment    |-> e, frozen_digest |-> digest("experiment", e)]
      /\ Studied(e)
  BY DEF Sealed
<1> HIDE DEF e
<1>2. PICK f : /\ f # e
               /\ other.intent.parameters.experiment = f
               /\ other.intent.parameters.frozen_digest
                     = digest("experiment", e)
  <2>1. ASSUME NEW r, NEW f,
               r = [request EXCEPT !.intent.parameters.experiment = f]
        PROVE  /\ r.intent.parameters.experiment = f
               /\ r.intent.parameters.frozen_digest = digest("experiment", e)
    BY <1>1, <2>1
  <2>2. request.intent.parameters.experiment = e
    BY DEF e
  <2>3. CASE c.name = "quantum_demo"
    <3> DEFINE f == [e EXCEPT !.shots = @ + 1]
    <3>1. other = [request EXCEPT !.intent.parameters.experiment = f]
      BY <1>1, <2>2, <2>3 DEF altered
    <3>2. f # e
      BY <1>1 DEF Studied
    <3> HIDE DEF f
    <3> QED BY <2>1, <3>1, <3>2
  <2>4. CASE c.name # "quantum_demo"
    <3> DEFINE f == [e EXCEPT !.gates[1].op = "X"]
    <3>1. other = [request EXCEPT !.intent.parameters.experiment = f]
      BY <1>1, <2>2, <2>4 DEF altered
    <3>2. f # e
      BY <1>1 DEF Studied
    <3> HIDE DEF f
    <3> QED BY <2>1, <3>1, <3>2
  <2> QED BY <2>3, <2>4
<1> HIDE DEF other
<1>3. ASSUME admission(p, other) = OK PROVE FALSE
  <2>1. digest("experiment", e) = digest("experiment", f)
    BY <1>2, <1>3, AdmittedDigest
  <2> QED BY <1>2, <2>1, DigestsTell
<1> QED BY <1>3 DEF other

(* A request whose row is in the store is not admitted again.              *)
LEMMA SpentRefused ==
    ASSUME NEW p, NEW request, intent_key(request) \in SpentKeys
    PROVE  admission(p, request) # OK
<1> DEFINE row == permit(request, memory[p].receipt)
           free == \A other \in spent :
                      /\ other.receipt_id # row.receipt_id
                      /\ other.intent_key # row.intent_key
<1> SUFFICES ASSUME admission(p, request) = OK PROVE FALSE
  OBVIOUS
<1>1. reserve(row) = OK
  BY ChainPasses DEF admission
<1>2. (require(now < row.expires_at, "RECEIPT_EXPIRED")
          ?? require(free, "REPLAY")) = OK
  BY <1>1, Zenon DEF reserve
<1>3. free
  <2> HIDE DEF free
  <2>1. require(free, "REPLAY") = OK
    BY ONLY <1>2, ChainPasses
  <2> QED BY <2>1, RequirePasses DEF OK
<1>4. row.intent_key = intent_key(request)
  BY DEF permit
<1> QED BY <1>3, <1>4 DEF SpentKeys

(* An instruction keeps a demo's own request sealed.                       *)
LEMMA SealedGoes ==
    ASSUME Placed, FrozenShape, DemosSealed, NEW p \in Process, Goes(p)
    PROVE  DemosSealed'
<1> DEFINE i == instruction(p)
<1>1. /\ Step(p) /\ Moves(p, i) /\ Alone(p) /\ i \in Instructions
  BY DEF Goes, Moves
<1>2. "experiment" \in Local /\ "intent" \in Local /\ "request" \in Local
  BY DEF Local, File
<1> SUFFICES ASSUME NEW o \in Process, Knows(o, own)'
             PROVE  /\ Knows(o, has("experiment"))' =>
                           Studied(memory'[o].experiment)
                    /\ Knows(o, has("intent"))' => Sealed(memory'[o].intent)
                    /\ Knows(o, has("request"))' =>
                           /\ "intent" \in DOMAIN memory'[o].request
                           /\ Sealed(memory'[o].request.intent)
  BY DEF DemosSealed
<1>3. /\ Knows(o, own)
      /\ o = p => ~ (/\ i[1] = "load"
                     /\ i[2] \in {"experiment", "intent", "request"})
  <2>1. CASE o # p
    BY <1>1, <2>1 DEF Alone
  <2>2. CASE o = p
    <3>1. Knows(p, own) /\ ~ Kills(i, own)
      BY <1>1, <2>2, GivenBy DEF Moves
    <3> QED BY <2>2, <3>1 DEF Kills
  <2> QED BY <2>1, <2>2
<1>4. /\ Knows(o, has("experiment")) => Studied(memory[o].experiment)
      /\ Knows(o, has("intent")) => Sealed(memory[o].intent)
      /\ Knows(o, has("request")) => /\ "intent" \in DOMAIN memory[o].request
                                     /\ Sealed(memory[o].request.intent)
  BY <1>3 DEF DemosSealed
<1>5. ASSUME Knows(o, has("experiment"))'
      PROVE  Studied(memory'[o].experiment)
  <2>1. CASE o = p /\ i[1] \in Setters /\ i[2] = "experiment"
    <3>1. i[1] \in {"bell", "workload"}
      BY <1>1, <1>3, <2>1, SetBy
    <3>2. PICK e : Assign(p, "experiment", e) /\ Studied(e)
      <4>1. CASE i[1] = "bell"
        BY <1>1, <4>1, ActionAt, BellStudied DEF Bell
      <4>2. CASE i[1] = "workload"
        <5>1. /\ workload_limit(Qubits, Layers) = OK
              /\ \E orders \in Orders :
                    Assign(p, "experiment",
                           workload(Qubits, command[p].device, orders))
          BY <1>1, <4>2, ActionAt DEF Workload
        <5> QED BY <5>1, WorkloadStudied
      <4> QED BY <3>1, <4>1, <4>2
    <3> QED BY <1>2, <2>1, <3>2, Assigned
  <2> QED BY <1>2, <1>4, <1>5, <2>1, Variable
<1>6. ASSUME Knows(o, has("intent"))'
      PROVE  Sealed(memory'[o].intent)
  <2>1. CASE o = p /\ i[1] \in Setters /\ i[2] = "intent"
    <3>1. i[1] = "freeze"
      BY <1>1, <1>3, <2>1, SetBy
    <3>2. Assign(p, "intent", freeze(memory[p].experiment, memory[p].trust,
                                     now, secrets))
      BY <1>1, <3>1, ActionAt DEF Freeze
    <3>3. Knows(p, has("experiment"))
      BY <1>1, <3>1, Needed
    <3> QED BY <1>2, <1>4, <2>1, <3>2, <3>3, Assigned, FreezeSeals
  <2> QED BY <1>2, <1>4, <1>6, <2>1, Variable
<1>7. ASSUME Knows(o, has("request"))'
      PROVE  /\ "intent" \in DOMAIN memory'[o].request
             /\ Sealed(memory'[o].request.intent)
  <2>1. CASE o = p /\ i[1] \in Setters /\ i[2] = "request"
    <3>1. i[1] = "sign"
      BY <1>1, <1>3, <2>1, SetBy
    <3>2. PICK signatures :
             Assign(p, "request", [intent     |-> memory[p].intent,
                                   signatures |-> signatures])
      BY <1>1, <3>1, ActionAt DEF Sign
    <3>3. Knows(p, has("intent"))
      BY <1>1, <3>1, Needed
    <3>4. memory'[p].request = [intent     |-> memory[p].intent,
                                signatures |-> signatures]
      BY <1>2, <3>2, Assigned
    <3> QED BY <1>4, <2>1, <3>3, <3>4
  <2> QED BY <1>2, <1>4, <1>7, <2>1, Variable
<1> QED BY <1>5, <1>6, <1>7

(* An instruction keeps the admitted request in the replay store: its row  *)
(* is committed by admit, and rows are never deleted.                      *)
LEMMA SpentGoes ==
    ASSUME Placed, FrozenShape, AdmittedSpent, NEW p \in Process, Goes(p)
    PROVE  AdmittedSpent'
<1> DEFINE i == instruction(p)
           row == permit(memory[p].request, memory[p].receipt)
<1>1. /\ Step(p) /\ Moves(p, i) /\ Frame(p, i) /\ Alone(p)
      /\ i \in Instructions
  BY DEF Goes, Moves
<1>2. "request" \in Local
  BY DEF Local, File
<1>3. /\ i[1] = "admit" => spent' = spent \cup {row} /\ memory' = memory
      /\ i[1] # "admit" => spent' = spent
  BY <1>1, ActionAt DEF Admit, Frame
<1>4. row.intent_key = intent_key(memory[p].request)
  BY DEF permit
<1> HIDE DEF row
<1>5. SpentKeys \subseteq SpentKeys'
  BY <1>3 DEF SpentKeys
<1> SUFFICES ASSUME NEW o \in Process, Knows(o, admitted)'
             PROVE  intent_key(memory'[o].request) \in SpentKeys'
  BY DEF AdmittedSpent
<1>6. CASE o # p
  <2>1. Knows(o, admitted) /\ memory'[o].request = memory[o].request
    BY <1>1, <1>2, <1>6 DEF Alone
  <2> QED BY <1>5, <2>1 DEF AdmittedSpent
<1>7. CASE o = p /\ i[1] = "admit"
  BY <1>3, <1>4, <1>7 DEF SpentKeys
<1>8. CASE o = p /\ i[1] # "admit"
  <2>1. Knows(p, admitted) /\ ~ Kills(i, admitted)
    BY <1>1, <1>8, GivenBy DEF Moves
  <2>2. ~ (i[1] \in {"load", "sign", "attest"} /\ i[2] = "request")
    BY <2>1 DEF Kills
  <2>3. i[1] \in Setters /\ i[2] = "request" => i[1] \in {"load", "sign"}
    BY <1>1, SetBy
  <2>4. memory'[p].request = memory[p].request
    BY <1>1, <1>2, <2>2, <2>3 DEF Frame
  <2> QED BY <1>5, <1>8, <2>1, <2>4 DEF AdmittedSpent
<1> QED BY <1>6, <1>7, <1>8

(* No demo has its altered request or its replay executed.                 *)
LEMMA TriesFail ==
    ASSUME Placed, DemoInv, NEW p \in Process, TryAltered(p) \/ TryReplay(p)
    PROVE  alarms' = {}
<1> DEFINE i == instruction(p)
<1>1. alarms = {}
  BY DEF DemoInv, DemosRefuse
<1>2. /\ command[p] # Idle
      /\ \/ i[1] = "try altered" /\ TryAltered(p)
         \/ i[1] = "try replay" /\ TryReplay(p)
  BY DEF TryAltered, TryReplay, Try, At
<1>3. /\ i \in Instructions
      /\ \A v : Needs(i, v) => Knows(p, v)
  <2>1. i # <<"print", "result">>
    <3> SUFFICES ASSUME i = <<"print", "result">> PROVE FALSE
      OBVIOUS
    <3>1. i[1] = "print"
      OBVIOUS
    <3> HIDE DEF i
    <3> QED BY <1>2, <3>1
  <2> QED BY <1>2, <2>1, AtInstruction
<1>4. CASE i[1] = "try altered"
  <2>1. Knows(p, own) /\ Knows(p, has("request"))
    BY <1>3, <1>4 DEF Needs
  <2>2. admission(p, altered(command[p], memory[p].request)) # OK
    BY <2>1, AlteredRefused DEF DemoInv, DemosSealed
  <2> QED BY <1>1, <1>2, <1>4, <2>2 DEF TryAltered, Try
<1>5. CASE i[1] = "try replay"
  <2>1. Knows(p, admitted)
    BY <1>3, <1>5 DEF Needs
  <2>2. admission(p, memory[p].request) # OK
    BY <2>1, SpentRefused DEF DemoInv, AdmittedSpent
  <2> QED BY <1>1, <1>2, <1>5, <2>2 DEF TryReplay, Try
<1> QED BY <1>2, <1>4, <1>5

(* Every step preserves DemoInv.                                           *)
LEMMA DemoStep ==
    ASSUME Placed, FrozenShape, DemoInv, [Next]_vars
    PROVE  DemoInv'
<1>1. "experiment" \in Local /\ "intent" \in Local /\ "request" \in Local
  BY DEF Local, File
<1>2. CASE Waiting
  <2>1. \A o, v : Knows(o, v)' <=> Knows(o, v)
    BY <1>2, Waits DEF Waiting
  <2>2. UNCHANGED <<memory, spent, alarms>>
    BY <1>2 DEF Waiting
  <2> QED BY <2>1, <2>2
          DEF DemoInv, DemosSealed, AdmittedSpent, DemosRefuse, SpentKeys
<1>3. ASSUME NEW p \in Process, Begins(p) \/ Ends(p) PROVE DemoInv'
  <2>1. /\ Alone(p) /\ spent' = spent
        /\ \/ alarms' = alarms
           \/ TryAltered(p) \/ TryReplay(p)
    BY <1>3 DEF Begins, Ends
  <2>2. /\ ~ Knows(p, admitted)' /\ ~ Knows(p, has("experiment"))'
        /\ ~ Knows(p, has("intent"))' /\ ~ Knows(p, has("request"))'
    <3>1. \A v : Knows(p, v)' => v \in Blank
      BY <1>3 DEF Begins, Ends
    <3> QED BY <3>1 DEF Blank, own, none, admitted, has
  <2>3. DemosSealed'
    BY <1>1, <2>1, <2>2 DEF DemoInv, DemosSealed, Alone
  <2>4. AdmittedSpent'
    BY <1>1, <2>1, <2>2 DEF DemoInv, AdmittedSpent, Alone, SpentKeys
  <2>5. DemosRefuse'
    BY <2>1, TriesFail DEF DemoInv, DemosRefuse
  <2> QED BY <2>3, <2>4, <2>5 DEF DemoInv
<1>4. ASSUME NEW p \in Process, Goes(p) PROVE DemoInv'
  <2>1. DemosRefuse'
    BY <1>4 DEF Goes, Frame, DemoInv, DemosRefuse
  <2> QED BY <1>4, <2>1, SealedGoes, SpentGoes DEF DemoInv
<1> QED BY <1>2, <1>3, <1>4, Progress

(* No demo runs in an empty directory.                                     *)
LEMMA DemoInitial == Init => DemoInv
<1> SUFFICES ASSUME Init PROVE DemoInv
  OBVIOUS
<1>1. \A p \in Process : \A v : ~ Knows(p, v)
  BY DEF Init, Knows
<1>2. alarms = {}
  BY DEF Init
<1> QED BY <1>1, <1>2 DEF DemoInv, DemosSealed, AdmittedSpent, DemosRefuse

(* No demo ever sees its altered request or its replay executed: the       *)
(* experiment of its own request still has the frozen digest, which the    *)
(* altered circuit has not, and its admitted permit is in the replay       *)
(* store.                                                                  *)
THEOREM CommandsRefuseDemos == Spec => []DemosRefuse
<1>1. Init => DemoInv
  BY DemoInitial
<1>2. FrozenInv /\ (Placed /\ IssuedInv) /\ DemoInv /\ [Next]_vars => DemoInv'
  BY DemoStep DEF FrozenInv
<1>3. DemoInv => DemosRefuse
  BY DEF DemoInv
<1> QED BY <1>1, <1>2, <1>3, FrozenInvariant, ProgramInvariant, PTL DEF Spec

-----------------------------------------------------------------------------
(* What the last of some instructions was: before the n-th of s there is   *)
(* an i, and none of S after it.                                           *)
Since(s, n, i, S) ==
    \E m \in 1 .. n - 1 : /\ s[m] = i
                          /\ \A k \in m + 1 .. n - 1 : s[k] \notin S

(* The same where process p stands in its command.                         *)
Latest(p, i, S) ==
    command[p] # Idle /\ Since(Programs[command[p].name], pc[p], i, S)

(* One instruction later it is i itself, or it was so before.              *)
LEMMA SinceNext ==
    ASSUME NEW s, NEW n \in Nat \ {0}, NEW i, NEW S, Since(s, n + 1, i, S)
    PROVE  s[n] = i \/ (Since(s, n, i, S) /\ s[n] \notin S)
<1>1. PICK m \in 1 .. n + 1 - 1 :
         s[m] = i /\ \A k \in m + 1 .. n + 1 - 1 : s[k] \notin S
  BY DEF Since
<1>2. CASE m = n
  BY <1>1, <1>2
<1>3. CASE m # n
  <2>1. m \in 1 .. n - 1 /\ n \in m + 1 .. n + 1 - 1
    BY <1>3
  <2>2. \A k \in m + 1 .. n - 1 : k \in m + 1 .. n + 1 - 1
    OBVIOUS
  <2> QED BY <1>1, <2>1, <2>2 DEF Since
<1> QED BY <1>2, <1>3

(* The instruction of a command that goes on is i, or not one of S.        *)
LEMMA LatestGoes ==
    ASSUME Placed, NEW p \in Process, Goes(p), NEW q \in Process, NEW i,
           NEW S, Latest(q, i, S)'
    PROVE  \/ q = p /\ instruction(p) = i
           \/ Latest(q, i, S) /\ (q = p => instruction(p) \notin S)
<1>1. command' = command /\ command[p] # Idle /\ Alone(p)
  BY DEF Goes
<1> DEFINE s == Programs[command[q].name]
<1>2. Since(s, pc'[q], i, S) /\ command[q] # Idle
  BY <1>1 DEF Latest
<1>3. CASE q = p
  <2>1. pc'[p] = pc[p] + 1
    BY DEF Goes
  <2>2. pc[p] \in Nat \ {0}
    BY <1>1, AtInstruction
  <2>3. instruction(p) = s[pc[p]]
    BY <1>3 DEF instruction
  <2> HIDE DEF s
  <2>4. s[pc[p]] = i \/ (Since(s, pc[p], i, S) /\ s[pc[p]] \notin S)
    BY <1>2, <1>3, <2>1, <2>2, SinceNext
  <2> QED BY <1>1, <1>3, <2>3, <2>4 DEF Latest, s
<1>4. CASE q # p
  BY <1>1, <1>2, <1>4 DEF Alone, Latest
<1> QED BY <1>3, <1>4

(* Other steps leave a command that goes on as it is.                      *)
LEMMA LatestRests ==
    ASSUME NEW q \in Process, NEW i, NEW S, Latest(q, i, S)',
           Waiting \/ \E p \in Process : Begins(p) \/ Ends(p)
    PROVE  /\ Latest(q, i, S) /\ command'[q] = command[q]
           /\ \A n \in Local : memory'[q][n] = memory[q][n]
<1>1. CASE Waiting
  BY <1>1 DEF Waiting, Latest
<1>2. ASSUME NEW p \in Process, Begins(p)
      PROVE  q # p /\ Alone(p)
  <2>1. pc'[p] = 1 /\ Alone(p)
    BY <1>2 DEF Begins
  <2>2. \A m : m \notin 1 .. 1 - 1
    OBVIOUS
  <2> QED BY <2>1, <2>2 DEF Latest, Since
<1>3. ASSUME NEW p \in Process, Ends(p)
      PROVE  q # p /\ Alone(p)
  BY <1>3 DEF Ends, Latest
<1>4. ASSUME NEW p \in Process, q # p, Alone(p)
      PROVE  /\ Latest(q, i, S) /\ command'[q] = command[q]
             /\ \A n \in Local : memory'[q][n] = memory[q][n]
  BY <1>4 DEF Alone, Latest
<1> QED BY <1>1, <1>2, <1>3, <1>4

(* s has no j but after an i, with none of S between them; ...             *)
Follows(s, j, i, S) == \A n \in DOMAIN s : s[n] = j => Since(s, n, i, S)

(* ... and it ends after an i, with none of S between.                     *)
Leaves(s, i, S) == Since(s, Len(s) + 1, i, S)

(* What holds of two sequences holds of one after the other.               *)
LEMMA FollowsJoined ==
    ASSUME NEW X, NEW s \in Seq(X), NEW t \in Seq(X), NEW j, NEW i, NEW S,
           Follows(s, j, i, S), Follows(t, j, i, S)
    PROVE  Follows(s \o t, j, i, S)
<1> DEFINE u == s \o t
<1>1. /\ Len(s) \in Nat /\ Len(t) \in Nat
      /\ \A n \in 1 .. Len(s) : u[n] = s[n]
      /\ \A n \in 1 .. Len(t) : u[Len(s) + n] = t[n]
      /\ DOMAIN s = 1 .. Len(s) /\ DOMAIN t = 1 .. Len(t)
      /\ DOMAIN u = 1 .. Len(s) + Len(t)
  BY Joined
<1> HIDE DEF u
<1>2. ASSUME NEW n \in DOMAIN u, u[n] = j PROVE Since(u, n, i, S)
  <2>1. CASE n \in 1 .. Len(s)
    <3>1. PICK m \in 1 .. n - 1 :
             s[m] = i /\ \A k \in m + 1 .. n - 1 : s[k] \notin S
      BY <1>1, <1>2, <2>1 DEF Follows, Since
    <3>2. /\ m \in 1 .. Len(s)
          /\ \A k \in m + 1 .. n - 1 : k \in 1 .. Len(s)
      BY <1>1, <2>1, <3>1
    <3>3. u[m] = i /\ \A k \in m + 1 .. n - 1 : u[k] \notin S
      BY <1>1, <3>1, <3>2
    <3> QED BY <3>1, <3>3 DEF Since
  <2>2. CASE n \notin 1 .. Len(s)
    <3> DEFINE d == n - Len(s)
    <3>1. d \in 1 .. Len(t) /\ n = Len(s) + d
      BY <1>1, <2>2
    <3>2. t[d] = j
      BY <1>1, <1>2, <3>1
    <3>3. PICK m \in 1 .. d - 1 :
             t[m] = i /\ \A k \in m + 1 .. d - 1 : t[k] \notin S
      BY <1>1, <3>1, <3>2 DEF Follows, Since
    <3>4. Len(s) + m \in 1 .. n - 1 /\ u[Len(s) + m] = i
      BY <1>1, <3>1, <3>3
    <3>5. ASSUME NEW k \in Len(s) + m + 1 .. n - 1 PROVE u[k] \notin S
      <4>1. /\ k - Len(s) \in m + 1 .. d - 1 /\ k - Len(s) \in 1 .. Len(t)
            /\ k = Len(s) + (k - Len(s))
        BY <1>1, <3>1, <3>3
      <4> QED BY <1>1, <3>3, <4>1
    <3> QED BY <3>4, <3>5 DEF Since
  <2> QED BY <2>1, <2>2
<1> QED BY <1>2 DEF Follows, u

(* An i that s ended after is not forgotten by instructions not in S; ...  *)
LEMMA LeavesLater ==
    ASSUME NEW X, NEW s \in Seq(X), NEW t \in Seq(X), NEW i, NEW S,
           Leaves(s, i, S), NEW d \in 1 .. Len(t) + 1,
           \A k \in 1 .. d - 1 : t[k] \notin S
    PROVE  Since(s \o t, Len(s) + d, i, S)
<1> DEFINE u == s \o t
<1>1. /\ Len(s) \in Nat /\ Len(t) \in Nat
      /\ \A n \in 1 .. Len(s) : u[n] = s[n]
      /\ \A n \in 1 .. Len(t) : u[Len(s) + n] = t[n]
  BY Joined
<1> HIDE DEF u
<1>2. PICK m \in 1 .. Len(s) :
         s[m] = i /\ \A k \in m + 1 .. Len(s) : s[k] \notin S
  BY <1>1 DEF Leaves, Since
<1>3. m \in 1 .. Len(s) + d - 1 /\ u[m] = i
  BY <1>1, <1>2
<1>4. ASSUME NEW k \in m + 1 .. Len(s) + d - 1 PROVE u[k] \notin S
  <2>1. CASE k <= Len(s)
    BY <1>1, <1>2, <2>1
  <2>2. CASE ~ k <= Len(s)
    <3>1. k - Len(s) \in 1 .. d - 1 /\ k - Len(s) \in 1 .. Len(t)
          /\ k = Len(s) + (k - Len(s))
      BY <1>1, <1>2, <2>2
    <3> QED BY <1>1, <3>1
  <2> QED BY <2>1, <2>2
<1> QED BY <1>3, <1>4, SMTT(30) DEF Since, u

(* ... so a j may come next, or after some that are not in S.              *)
LEMMA FollowsNext ==
    ASSUME NEW X, NEW s \in Seq(X), NEW j \in X, NEW i, NEW S,
           Follows(s, j, i, S), Leaves(s, i, S)
    PROVE  Follows(s \o <<j>>, j, i, S)
<1> DEFINE t == <<j>>
           u == s \o t
<1>1. t \in Seq(X) /\ Len(t) = 1
  OBVIOUS
<1>2. /\ Len(s) \in Nat
      /\ \A n \in 1 .. Len(s) : u[n] = s[n]
      /\ DOMAIN s = 1 .. Len(s)
      /\ DOMAIN u = 1 .. Len(s) + 1
  BY <1>1, Joined
<1> HIDE DEF t, u
<1>3. Since(u, Len(s) + 1, i, S)
  <2>1. 1 \in 1 .. Len(t) + 1 /\ \A k \in 1 .. 1 - 1 : t[k] \notin S
    BY <1>1
  <2> QED BY <1>1, <2>1, LeavesLater DEF u
<1>4. ASSUME NEW n \in 1 .. Len(s), u[n] = j PROVE Since(u, n, i, S)
  <2>1. PICK m \in 1 .. n - 1 :
           s[m] = i /\ \A k \in m + 1 .. n - 1 : s[k] \notin S
    BY <1>2, <1>4 DEF Follows, Since
  <2>2. /\ m \in 1 .. Len(s)
        /\ \A k \in m + 1 .. n - 1 : k \in 1 .. Len(s)
    BY <1>2, <1>4, <2>1
  <2>3. u[m] = i /\ \A k \in m + 1 .. n - 1 : u[k] \notin S
    BY <1>2, <2>1, <2>2
  <2> QED BY <2>1, <2>3 DEF Since
<1>5. \A n \in DOMAIN u : n \in 1 .. Len(s) \/ n = Len(s) + 1
  BY <1>2
<1> QED BY <1>3, <1>4, <1>5 DEF Follows, t, u

(* It is not forgotten by the whole of a sequence with none of S.          *)
LEMMA LeavesOn ==
    ASSUME NEW X, NEW s \in Seq(X), NEW t \in Seq(X), NEW i, NEW S,
           Leaves(s, i, S), NEW Y, t \in Seq(Y), Y \cap S = {}
    PROVE  Leaves(s \o t, i, S)
<1>1. /\ Len(s) \in Nat /\ Len(t) \in Nat
      /\ Len(s \o t) = Len(s) + Len(t)
  BY Joined
<1>2. /\ Len(t) + 1 \in 1 .. Len(t) + 1
      /\ \A k \in 1 .. Len(t) + 1 - 1 : t[k] \in Y
      /\ Len(s \o t) + 1 = Len(s) + (Len(t) + 1)
  BY <1>1
<1>3. Since(s \o t, Len(s) + (Len(t) + 1), i, S)
  BY <1>2, LeavesLater
<1> QED BY <1>2, <1>3 DEF Leaves

(* After an i, i was the last.                                             *)
LEMMA LeavesOne ==
    ASSUME NEW X, NEW s \in Seq(X), NEW i \in X, NEW S
    PROVE  Leaves(s \o <<i>>, i, S)
<1> DEFINE t == <<i>>
           u == s \o t
<1>1. t \in Seq(X) /\ Len(t) = 1 /\ t[1] = i
  OBVIOUS
<1>2. Len(s) \in Nat /\ Len(u) = Len(s) + 1 /\ u[Len(s) + 1] = i
  BY <1>1, Joined
<1> HIDE DEF u
<1>3. /\ Len(s) + 1 \in 1 .. Len(u) + 1 - 1
      /\ \A k \in Len(s) + 1 + 1 .. Len(u) + 1 - 1 : u[k] \notin S
  BY <1>2
<1>4. Leaves(u, i, S)
  BY <1>2, <1>3 DEF Leaves, Since
<1> QED BY <1>4 DEF u, t

(* Where there is no j, nothing is asked for.                              *)
LEMMA FollowsNone ==
    ASSUME NEW Y, NEW s \in Seq(Y), NEW j, j \notin Y, NEW i, NEW S
    PROVE  Follows(s, j, i, S)
<1>1. \A n \in DOMAIN s : s[n] \in Y
  OBVIOUS
<1> QED BY <1>1 DEF Follows

-----------------------------------------------------------------------------
(* The instructions that give a command a trust bundle, and those that     *)
(* make the bundle and the workload of an accelerated gateway.             *)
Trusts == {<<"load", "trust">>, <<"bundle", "trust">>,
           <<"accelerate", "trust">>}

bundled     == <<"bundle", "trust">>
accelerated == <<"accelerate", "trust">>
worked      == <<"workload", "experiment">>

(* All but the last two, and all that leave the trust bundle alone.        *)
Plain == {i \in Instructions : i[1] \notin {"accelerate", "workload"}}

Calm == {i \in Plain : i \notin Trusts}

(* Most instructions are calm.                                             *)
LEMMA CalmOnes ==
    /\ \A n \in File : <<"open", n>> \in Calm /\ <<"fill", n>> \in Calm
    /\ \A n \in (File \cup {"issuer"}) \ {"trust"} : <<"load", n>> \in Calm
    /\ \A k \in Keys : <<"generate", k>> \in Calm
    /\ <<"load", "trust">> \in Plain /\ bundled \in Plain
    /\ \A op, n : <<op, n>> \in Fixed =>
           \/ op \in {"bundle", "accelerate", "workload"}
           \/ <<op, n>> \in Calm
    /\ accelerated \in Instructions /\ worked \in Instructions
    /\ accelerated \notin Plain /\ worked \notin Plain
    /\ Calm \subseteq Plain /\ Plain \subseteq Instructions
    /\ Calm \cap Trusts = {} /\ worked \notin Trusts
<1>1. "trust" \in File
  BY DEF File
<1>2. \A op, n : <<op, n>>[1] = op
  OBVIOUS
<1>3. \A op, n, o, m : <<op, n>> = <<o, m>> => op = o /\ n = m
  OBVIOUS
<1>4. \A op, n : op \notin {"load", "bundle", "accelerate"} =>
                     <<op, n>> \notin Trusts
  BY DEF Trusts
<1>5. \A n : n # "trust" => <<"load", n>> \notin Trusts
  BY DEF Trusts
<1>6. \A n \in File \cup {"issuer"} : <<"load", n>> \in Plain
  BY DEF Plain, Instructions
<1>7. \A n \in File : <<"open", n>> \in Calm /\ <<"fill", n>> \in Calm
  <2>1. \A n \in File : /\ <<"open", n>> \in Instructions
                        /\ <<"fill", n>> \in Instructions
    BY DEF Instructions
  <2> QED BY <1>4, <2>1 DEF Calm, Plain
<1>8. \A k \in Keys : <<"generate", k>> \in Calm
  BY <1>4, InstructionsOf DEF Calm, Plain
<1>9. /\ bundled \in Fixed /\ accelerated \in Fixed /\ worked \in Fixed
  BY DEF Fixed, bundled, accelerated, worked
<1>10. ASSUME NEW op, NEW n, <<op, n>> \in Fixed,
              op \notin {"bundle", "accelerate", "workload"}
       PROVE  <<op, n>> \in Calm
  <2>1. op # "load"
    BY <1>10, FixedNames
  <2>2. <<op, n>> \in Plain
    BY <1>2, <1>10, InstructionsOf DEF Plain
  <2> QED BY <1>4, <1>10, <2>1, <2>2 DEF Calm
<1>11. /\ bundled \in Plain
       /\ accelerated \in Instructions /\ worked \in Instructions
       /\ accelerated \notin Plain /\ worked \notin Plain
  BY <1>9, InstructionsOf DEF Plain, bundled, accelerated, worked
<1>12. Calm \subseteq Plain /\ Plain \subseteq Instructions
       /\ Calm \cap Trusts = {}
  BY DEF Calm, Plain
<1>13. worked \notin Trusts
  BY <1>4 DEF worked
<1> QED BY <1>1, <1>5, <1>6, <1>7, <1>8, <1>10, <1>11, <1>12, <1>13 DEF Calm

(* So are these.                                                           *)
LEMMA CalmSteps ==
    /\ <<"require new", "trust">> \in Calm /\ <<"mkdir", "trust">> \in Calm
    /\ <<"bell", "experiment">> \in Calm /\ <<"freeze", "intent">> \in Calm
    /\ <<"sign", "request">> \in Calm /\ <<"issue", "header">> \in Calm
    /\ <<"attest", "receipt">> \in Calm
    /\ <<"preflight", "adapter">> \in Calm
    /\ <<"construct", "adapter">> \in Calm
    /\ <<"admit", "request">> \in Calm /\ <<"run", "result">> \in Calm
    /\ <<"inspect", "receipt">> \in Calm /\ <<"verify", "receipt">> \in Calm
    /\ <<"verify result", "result">> \in Calm
    /\ <<"try altered", "request">> \in Calm
    /\ <<"try replay", "request">> \in Calm
    /\ <<"summarize", "summary">> \in Calm
<1>1. \A op, n : /\ <<op, n>> \in Fixed
                 /\ op # "bundle" /\ op # "accelerate" /\ op # "workload"
                 => <<op, n>> \in Calm
  BY CalmOnes
<1>2. <<"require new", "trust">> \in Calm
  <2>1. <<"require new", "trust">> \in Fixed
    BY Zenon DEF Fixed
  <2> QED BY <1>1, <2>1, Zenon
<1>3. <<"mkdir", "trust">> \in Calm
  <2>1. <<"mkdir", "trust">> \in Fixed
    BY Zenon DEF Fixed
  <2> QED BY <1>1, <2>1, Zenon
<1>4. <<"bell", "experiment">> \in Calm
  <2>1. <<"bell", "experiment">> \in Fixed
    BY Zenon DEF Fixed
  <2> QED BY <1>1, <2>1, Zenon
<1>5. <<"freeze", "intent">> \in Calm
  <2>1. <<"freeze", "intent">> \in Fixed
    BY Zenon DEF Fixed
  <2> QED BY <1>1, <2>1, Zenon
<1>6. <<"sign", "request">> \in Calm
  <2>1. <<"sign", "request">> \in Fixed
    BY Zenon DEF Fixed
  <2> QED BY <1>1, <2>1, Zenon
<1>7. <<"issue", "header">> \in Calm
  <2>1. <<"issue", "header">> \in Fixed
    BY Zenon DEF Fixed
  <2> QED BY <1>1, <2>1, Zenon
<1>8. <<"attest", "receipt">> \in Calm
  <2>1. <<"attest", "receipt">> \in Fixed
    BY Zenon DEF Fixed
  <2> QED BY <1>1, <2>1, Zenon
<1>9. <<"preflight", "adapter">> \in Calm
  <2>1. <<"preflight", "adapter">> \in Fixed
    BY Zenon DEF Fixed
  <2> QED BY <1>1, <2>1, Zenon
<1>10. <<"construct", "adapter">> \in Calm
  <2>1. <<"construct", "adapter">> \in Fixed
    BY Zenon DEF Fixed
  <2> QED BY <1>1, <2>1, Zenon
<1>11. <<"admit", "request">> \in Calm
  <2>1. <<"admit", "request">> \in Fixed
    BY Zenon DEF Fixed
  <2> QED BY <1>1, <2>1, Zenon
<1>12. <<"run", "result">> \in Calm
  <2>1. <<"run", "result">> \in Fixed
    BY Zenon DEF Fixed
  <2> QED BY <1>1, <2>1, Zenon
<1>13. <<"inspect", "receipt">> \in Calm
  <2>1. <<"inspect", "receipt">> \in Fixed
    BY Zenon DEF Fixed
  <2> QED BY <1>1, <2>1, Zenon
<1>14. <<"verify", "receipt">> \in Calm
  <2>1. <<"verify", "receipt">> \in Fixed
    BY Zenon DEF Fixed
  <2> QED BY <1>1, <2>1, Zenon
<1>15. <<"verify result", "result">> \in Calm
  <2>1. <<"verify result", "result">> \in Fixed
    BY Zenon DEF Fixed
  <2> QED BY <1>1, <2>1, Zenon
<1>16. <<"try altered", "request">> \in Calm
  <2>1. <<"try altered", "request">> \in Fixed
    BY Zenon DEF Fixed
  <2> QED BY <1>1, <2>1, Zenon
<1>17. <<"try replay", "request">> \in Calm
  <2>1. <<"try replay", "request">> \in Fixed
    BY Zenon DEF Fixed
  <2> QED BY <1>1, <2>1, Zenon
<1>18. <<"summarize", "summary">> \in Calm
  <2>1. <<"summarize", "summary">> \in Fixed
    BY Zenon DEF Fixed
  <2> QED BY <1>1, <2>1, Zenon
<1> QED BY <1>2, <1>3, <1>4, <1>5, <1>6, <1>7, <1>8, <1>9, <1>10, <1>11,
      <1>12, <1>13, <1>14, <1>15, <1>16, <1>17, <1>18, Zenon

(* One after the other, too.                                               *)
LEMMA CalmJoined ==
    ASSUME NEW s \in Seq(Calm), NEW t \in Seq(Calm)
    PROVE  s \o t \in Seq(Calm)
BY Joined

(* The parts of the programs without those instructions.                   *)
LEMMA CalmParts ==
    /\ \A op, n : <<op, n>> \in Calm => do(op, n) \in Seq(Calm)
    /\ \A n \in (File \cup {"issuer"}) \ {"trust"} : load(n) \in Seq(Calm)
    /\ \A n \in File : save(n) \in Seq(Calm)
    /\ generate_keys \in Seq(Calm) /\ sign_intent \in Seq(Calm)
    /\ authorize_processes \in Seq(Calm) /\ executor \in Seq(Calm)
    /\ execute \in Seq(Calm) /\ evidence \in Seq(Calm)
    /\ one \in Seq(Calm)
<1> DEFINE C(s) == s \in Seq(Calm)
<1>1. ASSUME NEW s, NEW t, C(s), C(t) PROVE C(s \o t)
  BY <1>1, CalmJoined
<1>2. \A op, n : <<op, n>> \in Calm => C(do(op, n))
  BY DEF do
<1>3. /\ "scientist" \in Keys /\ "executor" \in Keys
      /\ "verifier-1" \in Keys /\ "verifier-2" \in Keys
      /\ "verifier-3" \in Keys /\ Keys \subseteq File \ {"trust"}
      /\ {"request", "receipt"} \subseteq File \ {"trust"}
  BY DEF Keys, File, Range, Identities
<1> HIDE DEF C
<1>5. \A n \in (File \cup {"issuer"}) \ {"trust"} : C(load(n))
  BY <1>2, CalmOnes DEF load
<1>6. \A n \in File : C(save(n))
  <2> SUFFICES ASSUME NEW n \in File PROVE C(save(n))
    OBVIOUS
  <2>1. C(do("open", n)) /\ C(do("fill", n))
    BY <1>2, CalmOnes
  <2> QED BY <1>1, <2>1 DEF save
<1>7. \A k \in Keys : C(create(k))
  <2> SUFFICES ASSUME NEW k \in Keys PROVE C(create(k))
    OBVIOUS
  <2>1. C(do("generate", k)) /\ C(save(k))
    BY <1>2, <1>3, <1>6, CalmOnes
  <2> QED BY <1>1, <2>1 DEF create
<1>8. C(generate_keys)
  BY <1>1, <1>3, <1>7, Zenon DEF generate_keys
<1>9. C(sign_intent)
  <2>1. C(load("scientist")) /\ C(do("sign", "request"))
    BY <1>2, <1>3, <1>5, CalmSteps
  <2> QED BY <1>1, <2>1 DEF sign_intent
<1>10. C(authorize_processes)
  <2>1. /\ C(load("issuer")) /\ C(do("issue", "header"))
        /\ C(do("attest", "receipt"))
    <3>1. "issuer" # "trust"
      OBVIOUS
    <3> QED BY <1>2, <1>5, <3>1, CalmSteps
  <2> QED BY <1>1, <2>1, Zenon DEF authorize_processes
<1>11. C(executor)
  <2>1. C(load("executor")) /\ C(do("construct", "adapter"))
    BY <1>2, <1>3, <1>5, CalmSteps
  <2> QED BY <1>1, <2>1 DEF executor
<1>12. C(execute)
  <2>1. C(do("admit", "request")) /\ C(do("run", "result"))
    BY <1>2, CalmSteps
  <2> QED BY <1>1, <2>1 DEF execute
<1>13. C(evidence)
  <2>1. C(load("request")) /\ C(load("receipt"))
    BY <1>3, <1>5
  <2> QED BY <1>1, <2>1 DEF evidence
<1>14. C(one)
  <2>1. C(do("freeze", "intent")) /\ C(do("verify result", "result"))
    BY <1>2, CalmSteps, Zenon
  <2> QED BY <1>1, <1>9, <1>10, <1>12, <2>1, Zenon DEF one
<1> QED BY <1>2, <1>5, <1>6, <1>8, <1>9, <1>10, <1>11, <1>12, <1>13, <1>14
        DEF C

(* Every accelerated policy is made from the one that was just bundled,    *)
(* and every workload for the gateway just accelerated: no program takes   *)
(* up another trust bundle between them.                                   *)
Orderly(s) ==
    /\ Follows(s, accelerated, bundled, Trusts)
    /\ Follows(s, worked, accelerated, Trusts)

(* The programs, and what they print.                                      *)
Printing == Instructions \cup {<<"print", "result">>}

(* The order of s remains when t has none of the two.                      *)
LEMMA OrderlyOn ==
    ASSUME NEW s \in Seq(Printing), Orderly(s), NEW t \in Seq(Plain)
    PROVE  s \o t \in Seq(Printing) /\ Orderly(s \o t)
<1>1. Plain \subseteq Printing /\ t \in Seq(Printing)
  BY CalmOnes DEF Printing
<1>2. Orderly(t)
  BY CalmOnes, FollowsNone DEF Orderly
<1> HIDE DEF Printing
<1>3. s \o t \in Seq(Printing)
  BY <1>1, Joined
<1> QED BY <1>1, <1>2, <1>3, FollowsJoined DEF Orderly

(* Plain programs are in order.                                            *)
LEMMA PlainOrderly ==
    ASSUME NEW s \in Seq(Plain)
    PROVE  s \in Seq(Printing) /\ Orderly(s)
<1>1. Plain \subseteq Printing
  BY CalmOnes DEF Printing
<1>2. s \in Seq(Printing)
  BY <1>1
<1> QED BY <1>2, CalmOnes, FollowsNone DEF Orderly

(* What a sequence ends after does not depend on what is before it.        *)
LEMMA LeavesBehind ==
    ASSUME NEW X, NEW s \in Seq(X), NEW t \in Seq(X), NEW i, NEW S,
           Leaves(t, i, S)
    PROVE  Leaves(s \o t, i, S)
<1> DEFINE u == s \o t
<1>1. /\ Len(s) \in Nat /\ Len(t) \in Nat
      /\ Len(u) = Len(s) + Len(t)
      /\ \A n \in 1 .. Len(t) : u[Len(s) + n] = t[n]
  BY Joined
<1> HIDE DEF u
<1>2. PICK m \in 1 .. Len(t) :
         t[m] = i /\ \A k \in m + 1 .. Len(t) : t[k] \notin S
  BY <1>1 DEF Leaves, Since
<1>3. Len(s) + m \in 1 .. Len(u) + 1 - 1 /\ u[Len(s) + m] = i
  BY <1>1, <1>2
<1>4. ASSUME NEW k \in Len(s) + m + 1 .. Len(u) + 1 - 1
      PROVE  u[k] \notin S
  <2>1. /\ k - Len(s) \in m + 1 .. Len(t) /\ k - Len(s) \in 1 .. Len(t)
        /\ k = Len(s) + (k - Len(s))
    BY <1>1, <1>2
  <2> QED BY <1>1, <1>2, <2>1
<1>5. Leaves(u, i, S)
  BY <1>3, <1>4 DEF Leaves, Since
<1> QED BY <1>5 DEF u

(* Provisioning bundles the trust it writes, and then leaves it alone.     *)
LEMMA ProvisionOrderly ==
    /\ provision \in Seq(Plain)
    /\ Leaves(provision, bundled, Trusts)
<1> DEFINE a == do("require new", "trust") \o do("mkdir", "trust")
                \o generate_keys
           b == a \o <<bundled>>
           c == b \o save("trust")
           d == c \o do("bell", "experiment")
           e == d \o save("experiment")
<1>1. {"trust", "experiment"} \subseteq File
  BY DEF File
<1>2. a \in Seq(Calm)
  <2>1. /\ do("require new", "trust") \in Seq(Calm)
        /\ do("mkdir", "trust") \in Seq(Calm) /\ generate_keys \in Seq(Calm)
    BY CalmParts, CalmSteps, Zenon
  <2> QED BY <2>1, CalmJoined, Zenon
<1>3. /\ save("trust") \in Seq(Calm) /\ save("experiment") \in Seq(Calm)
      /\ do("bell", "experiment") \in Seq(Calm)
  BY <1>1, CalmParts, CalmSteps, Zenon
<1>4. \A s \in Seq(Calm) : s \in Seq(Plain)
  BY CalmOnes
<1>5. bundled \in Plain /\ Calm \cap Trusts = {}
  BY CalmOnes
<1> HIDE DEF a
<1>6. b \in Seq(Plain) /\ Leaves(b, bundled, Trusts)
  BY <1>2, <1>4, <1>5, LeavesOne
<1> HIDE DEF b
<1>7. ASSUME NEW s \in Seq(Plain), Leaves(s, bundled, Trusts),
             NEW t \in Seq(Calm)
      PROVE  s \o t \in Seq(Plain) /\ Leaves(s \o t, bundled, Trusts)
  BY <1>4, <1>5, <1>7, Joined, LeavesOn
<1>8. c \in Seq(Plain) /\ Leaves(c, bundled, Trusts)
  BY <1>3, <1>6, <1>7
<1> HIDE DEF c
<1>9. d \in Seq(Plain) /\ Leaves(d, bundled, Trusts)
  BY <1>3, <1>7, <1>8
<1> HIDE DEF d
<1>10. e \in Seq(Plain) /\ Leaves(e, bundled, Trusts)
  BY <1>3, <1>7, <1>9
<1>11. provision = e
  BY Zenon DEF provision, a, b, c, d, e, do, bundled
<1> HIDE DEF e
<1> QED BY <1>10, <1>11

(* Accelerated provisioning accelerates it, and then leaves it alone.      *)
LEMMA ProvisionAcceleratedOrderly ==
    /\ provision_accelerated \in Seq(Printing)
    /\ Orderly(provision_accelerated)
    /\ Leaves(provision_accelerated, accelerated, Trusts)
<1> DEFINE a == provision \o <<accelerated>>
           b == a \o save("trust")
<1>1. "trust" \in File
  BY DEF File
<1>2. /\ accelerated \in Printing /\ Plain \subseteq Printing
      /\ Calm \subseteq Plain /\ Calm \cap Trusts = {}
      /\ accelerated # worked
  BY CalmOnes DEF Printing, accelerated, worked
<1>3. /\ provision \in Seq(Printing) /\ Orderly(provision)
      /\ Leaves(provision, bundled, Trusts)
  BY ProvisionOrderly, PlainOrderly
<1>4. save("trust") \in Seq(Calm)
  BY <1>1, CalmParts
<1>5. save("trust") \in Seq(Plain) /\ save("trust") \in Seq(Printing)
  BY <1>2, <1>4
<1> HIDE DEF Printing
<1>6. /\ a \in Seq(Printing)
      /\ Leaves(a, accelerated, Trusts)
      /\ Follows(a, accelerated, bundled, Trusts)
  <2>1. <<accelerated>> \in Seq(Printing)
    BY <1>2
  <2>2. a \in Seq(Printing)
    BY <1>3, <2>1, Joined
  <2>3. Leaves(a, accelerated, Trusts)
    BY <1>2, <1>3, LeavesOne
  <2>4. Follows(a, accelerated, bundled, Trusts)
    BY <1>2, <1>3, FollowsNext DEF Orderly
  <2> QED BY <2>2, <2>3, <2>4
<1>7. Follows(a, worked, accelerated, Trusts)
  <2>1. /\ <<accelerated>> \in Seq(Printing)
        /\ <<accelerated>> \in Seq({accelerated})
    BY <1>2
  <2>2. Follows(<<accelerated>>, worked, accelerated, Trusts)
    BY <1>2, <2>1, FollowsNone
  <2> QED BY <1>3, <2>1, <2>2, FollowsJoined DEF Orderly
<1> HIDE DEF a
<1>8. b \in Seq(Printing) /\ Orderly(b)
  BY <1>5, <1>6, <1>7, OrderlyOn DEF Orderly
<1>9. Leaves(b, accelerated, Trusts)
  BY <1>2, <1>4, <1>5, <1>6, LeavesOn
<1>10. provision_accelerated = b
  BY Zenon DEF provision_accelerated, a, b, do, accelerated
<1> HIDE DEF b
<1> QED BY <1>8, <1>9, <1>10

(* The workload follows at once, or after the adapter has been looked for. *)
LEMMA WorkloadOrderly ==
    ASSUME NEW s \in Seq(Printing), Orderly(s),
           Leaves(s, accelerated, Trusts)
    PROVE  LET t == s \o do("workload", "experiment")
           IN  t \in Seq(Printing) /\ Orderly(t)
<1> DEFINE one_more == <<worked>>
           t == s \o one_more
<1>1. worked \in Printing /\ accelerated # worked
  BY CalmOnes DEF Printing, accelerated, worked
<1> HIDE DEF Printing
<1>2. one_more \in Seq(Printing) /\ one_more \in Seq({worked})
  BY <1>1
<1>3. t \in Seq(Printing)
  BY <1>2, Joined
<1>4. Follows(t, worked, accelerated, Trusts)
  BY <1>1, FollowsNext DEF Orderly
<1>5. Follows(t, accelerated, bundled, Trusts)
  <2> DEFINE Y == {worked}
  <2>0. one_more \in Seq(Y) /\ accelerated \notin Y
    BY <1>1, <1>2
  <2> HIDE DEF Y
  <2>1. Follows(one_more, accelerated, bundled, Trusts)
    BY <2>0, FollowsNone
  <2> QED BY <1>2, <2>1, FollowsJoined DEF Orderly
<1>6. do("workload", "experiment") = one_more
  BY DEF do, worked
<1> HIDE DEF one_more
<1> QED BY <1>3, <1>4, <1>5, <1>6 DEF Orderly

(* The parts of the programs with neither.                                 *)
LEMMA PlainParts ==
    /\ \A s \in Seq(Calm) : s \in Seq(Plain)
    /\ \A n \in File \cup {"issuer"} : load(n) \in Seq(Plain)
    /\ \A n \in File : save(n) \in Seq(Plain)
<1>1. \A s \in Seq(Calm) : s \in Seq(Plain)
  BY CalmOnes
<1>2. load("trust") \in Seq(Plain)
  BY CalmOnes DEF load, do
<1>3. \A n \in File \cup {"issuer"} : load(n) \in Seq(Plain)
  BY <1>1, <1>2, CalmParts
<1> QED BY <1>1, <1>3, CalmParts

(* A benchmark run is calm, however many of them there are.                *)
LEMMA RoundsCalm ==
    ASSUME NEW n \in Nat
    PROVE  /\ rounds(n) \in Seq(Calm) /\ Len(rounds(n)) = n * 9
           /\ \A i \in 1 .. n * 9 : rounds(n)[i] = one[1 + ((i - 1) % 9)]
<1> DEFINE at(i) == one[1 + ((i - 1) % 9)]
           r == rounds(n)
<1>1. r = [i \in 1 .. n * 9 |-> at(i)]
  BY OneSized, Zenon DEF rounds
<1>2. DOMAIN one = 1 .. 9 /\ \A k \in 1 .. 9 : one[k] \in Calm
  <2>1. one \in Seq(Calm) /\ Len(one) = 9
    BY CalmParts, OneSized
  <2> QED BY <2>1
<1>3. n * 9 \in Nat
  OBVIOUS
<1>4. \A i \in 1 .. n * 9 : at(i) \in Calm
  <2> SUFFICES ASSUME NEW i \in 1 .. n * 9 PROVE at(i) \in Calm
    OBVIOUS
  <2>1. 1 + ((i - 1) % 9) \in 1 .. 9
    BY <1>3
  <2> QED BY <1>2, <2>1
<1> HIDE DEF at, r
<1>5. r \in [1 .. n * 9 -> Calm]
  BY <1>1, <1>4
<1>6. r \in Seq(Calm) /\ Len(r) = n * 9
  BY <1>3, <1>5
<1>7. \A i \in 1 .. n * 9 : r[i] = at(i)
  BY <1>1
<1> QED BY <1>6, <1>7 DEF r, at

(* Nothing but a command that accelerates a gateway has either.            *)
LEMMA MainOrderly ==
    ASSUME NEW name \in Names
    PROVE  main[name] \in Seq(Printing) /\ Orderly(main[name])
<1> DEFINE Fine(s) == s \in Seq(Printing) /\ Orderly(s)
           Q(s) == s \in Seq(Plain)
<1>1. \A s, t : Fine(s) /\ Q(t) => Fine(s \o t)
  BY OrderlyOn
<1>2. \A s : Q(s) => Fine(s)
  BY PlainOrderly
<1>3. \A s, t : Q(s) /\ Q(t) => Q(s \o t)
  BY Joined
<1>4. /\ Q(provision) /\ Q(sign_intent) /\ Q(authorize_processes)
      /\ Q(executor) /\ Q(execute) /\ Q(evidence) /\ Q(rounds(Rounds))
  BY ProvisionOrderly, CalmParts, PlainParts, RoundsCalm, WorkspaceAssumption
<1>5. {"trust", "experiment", "intent", "request", "receipt", "result",
       "summary"} \subseteq File
  BY DEF File
<1>6. /\ Q(load("trust")) /\ Q(load("experiment")) /\ Q(load("intent"))
      /\ Q(load("request")) /\ Q(load("result"))
  BY <1>5, PlainParts
<1>7. /\ Q(save("experiment")) /\ Q(save("intent")) /\ Q(save("request"))
      /\ Q(save("receipt")) /\ Q(save("result")) /\ Q(save("summary"))
  BY <1>5, PlainParts
<1>8. \A op, n : <<op, n>> \in Calm => Q(do(op, n))
  BY CalmParts, PlainParts
<1> HIDE DEF Fine, Q
<1>9. /\ Q(do("freeze", "intent")) /\ Q(do("preflight", "adapter"))
      /\ Q(do("inspect", "receipt")) /\ Q(do("verify", "receipt"))
      /\ Q(do("verify result", "result")) /\ Q(do("try altered", "request"))
      /\ Q(do("try replay", "request")) /\ Q(do("summarize", "summary"))
  BY <1>8, CalmSteps, Zenon
<1>10. Fine(provision)
  BY <1>2, <1>4
<1>11. Fine(quantum_demo)
  BY <1>1, <1>4, <1>7, <1>9, <1>10, ZenonT(40) DEF quantum_demo
<1>12. Fine(provision_accelerated \o do("workload", "experiment"))
  BY ProvisionAcceleratedOrderly, WorkloadOrderly DEF Fine
<1>13. Fine(benchmark_gateway)
  BY <1>1, <1>4, <1>9, <1>12, ZenonT(40) DEF benchmark_gateway
<1>14. Fine(do("preflight", "adapter") \o provision_accelerated
            \o do("workload", "experiment"))
  <2> DEFINE a == do("preflight", "adapter")
             b == a \o provision_accelerated
  <2>1. a \in Seq(Plain) /\ a \in Seq(Printing) /\ Orderly(a)
    BY <1>9, PlainOrderly DEF Q
  <2>2. /\ provision_accelerated \in Seq(Printing)
        /\ Orderly(provision_accelerated)
        /\ Leaves(provision_accelerated, accelerated, Trusts)
    BY ProvisionAcceleratedOrderly
  <2> HIDE DEF a
  <2>3. b \in Seq(Printing) /\ Leaves(b, accelerated, Trusts)
    BY <2>1, <2>2, Joined, LeavesBehind
  <2>4. Orderly(b)
    BY <2>1, <2>2, FollowsJoined DEF Orderly
  <2> HIDE DEF b
  <2>5. Fine(b \o do("workload", "experiment"))
    BY <2>3, <2>4, WorkloadOrderly DEF Fine
  <2> QED BY <2>5 DEF a, b
<1>15. Fine(accelerated_demo)
  BY <1>1, <1>4, <1>7, <1>9, <1>14, ZenonT(40) DEF accelerated_demo
<1>16. /\ Q(main["freeze"]) /\ Q(main["sign_intent"])
       /\ Q(main["authorize"])
  BY <1>3, <1>4, <1>6, <1>7, <1>9, MainParts, Zenon
<1>17. Q(main["inspect"]) /\ Q(main["verify"])
  BY <1>3, <1>4, <1>6, <1>9, MainParts, Zenon
<1>18. Q(main["execute"]) /\ Q(main["verify_result"])
  BY <1>3, <1>4, <1>6, <1>7, <1>9, MainParts, Zenon
<1>19. Fine(main[name])
  BY <1>2, <1>10, <1>11, <1>13, <1>15, <1>16, <1>17, <1>18, MainParts
     DEF Names
<1> QED BY <1>19 DEF Fine

(* So are the programs that processes run.                                 *)
LEMMA ProgramsOrderly ==
    ASSUME NEW name \in DOMAIN main
    PROVE  Orderly(Programs[name])
<1> DEFINE m == main[name]
           t == do("print", "result")
           Y == {<<"print", "result">>}
<1>1. Programs[name] = m \o t /\ name \in Names
  BY MainParts DEF Programs
<1>2. m \in Seq(Printing) /\ Orderly(m)
  BY <1>1, MainOrderly
<1>3. accelerated \notin Y /\ worked \notin Y /\ Y \subseteq Printing
  BY DEF accelerated, worked, Printing
<1>4. t \in Seq(Y)
  BY DEF do
<1> HIDE DEF m, t, Y, Printing
<1>5. t \in Seq(Printing)
  BY <1>3, <1>4
<1>6. Orderly(t)
  BY <1>3, <1>4, FollowsNone DEF Orderly
<1> QED BY <1>1, <1>2, <1>5, <1>6, FollowsJoined DEF Orderly

(* At an instruction that must follow another, it does.                    *)
LEMMA OrderlyAt ==
    ASSUME Placed, NEW p \in Process, command[p] # Idle
    PROVE  /\ instruction(p) = accelerated => Latest(p, bundled, Trusts)
           /\ instruction(p) = worked => Latest(p, accelerated, Trusts)
<1> DEFINE s == Programs[command[p].name]
<1>1. pc[p] \in DOMAIN s
  BY DEF Placed
<1>2. command[p].name \in DOMAIN main
  BY CommandAssumption DEF Placed
<1>3. Orderly(s)
  BY <1>2, ProgramsOrderly
<1>4. instruction(p) = s[pc[p]]
  BY DEF instruction
<1> HIDE DEF s
<1>5. /\ instruction(p) = accelerated => Since(s, pc[p], bundled, Trusts)
      /\ instruction(p) = worked => Since(s, pc[p], accelerated, Trusts)
  BY <1>1, <1>3, <1>4 DEF Orderly, Follows
<1> QED BY <1>5 DEF Latest, s

-----------------------------------------------------------------------------
(* Division by the gates of a layer, as a workload counts them.            *)
LEMMA Layered ==
    ASSUME NEW l \in Nat \ {0}, NEW d \in Nat \ {0}, NEW i \in 1 .. l * d
    PROVE  /\ 1 + ((i - 1) \div d) \in 1 .. l
           /\ 1 + ((i - 1) % d) \in 1 .. d
<1> DEFINE a == (i - 1) \div d
           b == (i - 1) % d
<1>1. /\ a \in Int /\ b \in 0 .. d - 1 /\ i - 1 = d * a + b
  OBVIOUS
<1>2. i - 1 \in 0 .. l * d - 1
  OBVIOUS
<1> HIDE DEF a, b
<1>3. a >= 0
  <2> SUFFICES ASSUME ~ a >= 0 PROVE FALSE
    OBVIOUS
  <2>1. a <= -1 /\ d * a <= - d
    BY <1>1
  <2> QED BY <1>1, <1>2, <2>1
<1>4. a <= l - 1
  <2> SUFFICES ASSUME ~ a <= l - 1 PROVE FALSE
    OBVIOUS
  <2>1. a >= l /\ d * a >= d * l
    BY <1>1
  <2> QED BY <1>1, <1>2, <2>1
<1>5. 1 + a \in 1 .. l /\ 1 + b \in 1 .. d
  BY <1>1, <1>3, <1>4
<1> QED BY <1>5 DEF a, b

(* Each qubit of a register of q is in the order of a layer once.          *)
Shuffled(q, order) ==
    /\ order \in [1 .. q -> 0 .. q - 1]
    /\ \A i, j \in 1 .. q : i # j => order[i] # order[j]

(* The gates of a layer act on qubits of the register, and CX on two       *)
(* different ones.                                                         *)
LEMMA LayerGates ==
    ASSUME NEW q \in 2 .. 26, NEW order, Shuffled(q, order),
           NEW n \in 1 .. 3 * q - 1
    PROVE  LET g == layer_gate(q, order, n)
           IN  g \in AerGate /\ gate_valid(g, q)
<1> DEFINE g == layer_gate(q, order, n)
<1>1. ASSUME NEW s \in Seq(Int), Len(s) \in 1 .. 2 PROVE s \in list(Int, 2)
  BY <1>1 DEF list
<1>2. CASE n <= 2 * q
  <2> DEFINE op == IF n % 2 = 1 THEN "H" ELSE "T"
             k == (n - 1) \div 2
  <2>1. g = [op |-> op, qubits |-> <<k>>]
    BY <1>2 DEF layer_gate, gate
  <2>2. k \in 0 .. q - 1
    BY <1>2
  <2>3. op \in {"H", "T"}
    OBVIOUS
  <2> HIDE DEF g, k, op
  <2>4. <<k>> \in Seq(Int) /\ Len(<<k>>) = 1
    BY <2>2
  <2>5. g \in AerGate
    <3> DEFINE s == <<k>>
    <3>0. s \in Seq(Int) /\ Len(s) \in 1 .. 2
      BY <2>4
    <3> HIDE DEF s, list
    <3>1. s \in list(Int, 2)
      BY <1>1, <3>0
    <3>2. g = [op |-> op, qubits |-> s]
      BY <2>1 DEF s
    <3> QED BY <2>3, <3>1, <3>2 DEF AerGate
  <2>6. gate_valid(g, q)
    BY <2>1, <2>2, <2>3 DEF gate_valid
  <2> QED BY <2>5, <2>6 DEF g
<1>3. CASE n > 2 * q
  <2> DEFINE k == n - 2 * q
             a == order[k]
             b == order[k + 1]
             s == <<a, b>>
  <2>1. k \in 1 .. q /\ k + 1 \in 1 .. q
    BY <1>3
  <2>2. g = [op |-> "CX", qubits |-> s]
    BY <1>3 DEF layer_gate, gate
  <2> HIDE DEF k, g
  <2>3. a \in 0 .. q - 1 /\ b \in 0 .. q - 1 /\ a # b
    <3>1. k # k + 1
      BY <2>1
    <3> QED BY <2>1, <3>1 DEF Shuffled
  <2> HIDE DEF a, b
  <2>4. s \in Seq(Int) /\ Len(s) = 2 /\ DOMAIN s = 1 .. 2
        /\ s[1] = a /\ s[2] = b
    BY <2>3
  <2> HIDE DEF s
  <2>5. g \in AerGate
    <3>1. s \in list(Int, 2)
      BY <1>1, <2>4
    <3> HIDE DEF list
    <3> QED BY <2>2, <3>1 DEF AerGate
  <2>6. gate_valid(g, q)
    BY <2>2, <2>3, <2>4 DEF gate_valid
  <2> QED BY <2>5, <2>6 DEF g
<1>4. n <= 2 * q \/ n > 2 * q
  OBVIOUS
<1> QED BY <1>2, <1>3, <1>4, Zenon

(* The workload is an experiment for Aer, and each of its gates is valid.  *)
LEMMA WorkloadModel ==
    ASSUME NEW q \in 2 .. 26, NEW l \in 1 .. 20, NEW device,
           NEW orders, Len(orders) = l,
           \A n \in 1 .. l : Shuffled(q, orders[n])
    PROVE  LET e == workload(q, device, orders)
           IN  /\ e \in AerExperiment
               /\ \A i \in DOMAIN e.gates : gate_valid(e.gates[i], q)
<1> DEFINE d == 3 * q - 1
           N == l * d
           at(i) == layer_gate(q, orders[1 + ((i - 1) \div d)],
                               1 + ((i - 1) % d))
           gates == [i \in 1 .. N |-> at(i)]
           e == [schema_version |-> 2, backend |-> AerRevision(device),
                 qubits |-> q, gates |-> gates, shots |-> 1024, seed |-> 7]
<1>1. d \in Nat \ {0} /\ N \in 1 .. 2048
  <2>1. d \in 5 .. 77
    OBVIOUS
  <2> HIDE DEF d
  <2>2. l * d \in 1 .. 2048
    <3>1. l * d >= 1 /\ l * d <= 20 * d
      BY <2>1
    <3> QED BY <2>1, <3>1
  <2>3. d \in Nat \ {0}
    BY <2>1
  <2> QED BY <2>2, <2>3
<1>2. Len(orders) = l
  OBVIOUS
<1>3. workload(q, device, orders) = e
  <2> DEFINE M == Len(orders) * d
             w == [schema_version |-> 2, backend |-> AerRevision(device),
                   qubits |-> q, gates |-> [i \in 1 .. M |-> at(i)],
                   shots |-> 1024, seed |-> 7]
  <2>1. M = N
    BY <1>2
  <2>2. workload(q, device, orders) = w
    BY Zenon DEF workload
  <2> HIDE DEF M, N, at
  <2>3. w = e
    BY <2>1
  <2> QED BY <2>2, <2>3
<1>4. ASSUME NEW i \in 1 .. N
      PROVE  at(i) \in AerGate /\ gate_valid(at(i), q)
  <2> DEFINE m == 1 + ((i - 1) \div d)
             n == 1 + ((i - 1) % d)
  <2>1. l \in Nat \ {0} /\ i \in 1 .. l * d
    BY <1>4
  <2> HIDE DEF d, N
  <2>2. m \in 1 .. l /\ n \in 1 .. d
    BY <1>1, <1>4, <2>1, Layered
  <2>3. at(i) = layer_gate(q, orders[m], n)
    OBVIOUS
  <2> HIDE DEF m, n, at
  <2>4. Shuffled(q, orders[m])
    BY <2>2
  <2>5. n \in 1 .. 3 * q - 1
    BY <2>2 DEF d
  <2> QED BY <2>3, <2>4, <2>5, LayerGates
<1> HIDE DEF d, N, at
<1>5. gates \in Seq(AerGate) /\ Len(gates) = N
  <2>1. gates \in [1 .. N -> AerGate]
    BY <1>4
  <2> HIDE DEF gates
  <2> QED BY <1>1, <2>1
<1>6. \A i \in DOMAIN gates : gate_valid(gates[i], q)
  BY <1>4
<1> HIDE DEF gates
<1>7. gates \in list(AerGate, 2048)
  <2> DEFINE limit == 2048
  <2>1. gates \in Seq(AerGate) /\ Len(gates) \in 1 .. limit
    BY <1>1, <1>5
  <2> HIDE DEF limit
  <2>2. gates \in list(AerGate, limit)
    BY <2>1, Listed
  <2> QED BY <2>2 DEF limit
<1>8. AerRevision(device) \in {AER_CPU, AER_GPU}
  BY DEF AerRevision
<1>9. 7 \in 0 .. MAX_SEED
  BY WorkspaceAssumption
<1>10. e \in AerExperiment
  BY <1>7, <1>8, <1>9 DEF AerExperiment
<1> QED BY <1>3, <1>6, <1>10

(* The policy accelerated_policy() makes of the provisioned one.           *)
LEMMA AcceleratedFields ==
    ASSUME NEW c, NEW device
    PROVE  LET a == accelerated_policy(local_policy(c), device)
           IN  /\ a.schema_version = 2 /\ a.backend = AerRevision(device)
               /\ a.max_qubits = 26 /\ a.max_shots = 4096
               /\ a.human_above_shots = 2048
               /\ a.subjects = {"scientist"}
<1> DEFINE p == local_policy(c)
           a == accelerated_policy(p, device)
<1>1. /\ p.max_shots = 4096 /\ p.human_above_shots = 2048
      /\ p.subjects = {"scientist"}
      /\ {"schema_version", "max_qubits", "max_shots", "human_above_shots",
          "subjects"} \subseteq DOMAIN p
  BY DEF local_policy
<1> HIDE DEF p
<1> QED BY <1>1 DEF accelerated_policy, p

-----------------------------------------------------------------------------
(* The bundle trust has the policy that provision_accelerated() makes for  *)
(* the command c.                                                          *)
Accelerated(c, trust) ==
    trust.policy = accelerated_policy(local_policy(c), c.device)

(* The trust bundle an accelerated command holds has the policy of         *)
(* provision() until it gives it the one of provision_accelerated().       *)
PolicyInv ==
    \A p \in Process :
        /\ Latest(p, bundled, Trusts) =>
               \E keys : memory[p].trust = local_trust(command[p], keys)
        /\ Latest(p, accelerated, Trusts) =>
               Accelerated(command[p], memory[p].trust)

(* An instruction that is not one of Trusts leaves the trust bundle.       *)
LEMMA TrustStays ==
    ASSUME NEW p \in Process, Goes(p), NEW q \in Process,
           q = p => instruction(p) \notin Trusts
    PROVE  memory'[q].trust = memory[q].trust
<1> DEFINE i == instruction(p)
<1>1. "trust" \in Local
  BY DEF Local, File
<1>2. /\ i \in Instructions
      /\ \/ memory'[q]["trust"] = memory[q]["trust"]
         \/ q = p /\ i[1] \in Setters /\ "trust" = i[2]
  BY <1>1 DEF Goes, Moves, Frame
<1>3. CASE q = p /\ i[1] \in Setters /\ "trust" = i[2]
  <2>1. i[1] \in {"load", "bundle", "accelerate"} /\ i = <<i[1], i[2]>>
    BY <1>2, <1>3, SetBy, Named
  <2>2. i \in Trusts
    BY <1>3, <2>1 DEF Trusts
  <2> QED BY <1>3, <2>2
<1> QED BY <1>2, <1>3

(* The bundle that is accelerated is the one that was just made.           *)
LEMMA PolicyGoes ==
    ASSUME Placed, FrozenShape, PolicyInv, NEW p \in Process, Goes(p)
    PROVE  PolicyInv'
<1> DEFINE i == instruction(p)
<1>1. command' = command /\ command[p] # Idle /\ Step(p)
  BY DEF Goes
<1>2. "trust" \in Local
  BY DEF Local, File
<1>3. ASSUME NEW q \in Process, Latest(q, bundled, Trusts)'
      PROVE  \E keys : memory'[q].trust = local_trust(command'[q], keys)
  <2>1. \/ q = p /\ i = bundled
        \/ Latest(q, bundled, Trusts) /\ (q = p => i \notin Trusts)
    BY <1>3, LatestGoes
  <2>2. CASE q = p /\ i = bundled
    <3>1. Bundle(p)
      <4>1. i[1] = "bundle"
        BY <2>2 DEF bundled
      <4> QED BY <1>1, <4>1, ActionAt
    <3>2. memory'[p]["trust"] = local_trust(command[p], memory[p])
      BY <1>2, <3>1, Assigned DEF Bundle
    <3> QED BY <1>1, <2>2, <3>2
  <2>3. CASE Latest(q, bundled, Trusts) /\ (q = p => i \notin Trusts)
    <3>1. memory'[q].trust = memory[q].trust
      BY <2>3, TrustStays
    <3> QED BY <1>1, <2>3, <3>1 DEF PolicyInv
  <2> QED BY <2>1, <2>2, <2>3
<1>4. ASSUME NEW q \in Process, Latest(q, accelerated, Trusts)'
      PROVE  Accelerated(command'[q], memory'[q].trust)
  <2>1. \/ q = p /\ i = accelerated
        \/ Latest(q, accelerated, Trusts) /\ (q = p => i \notin Trusts)
    BY <1>4, LatestGoes
  <2>2. CASE q = p /\ i = accelerated
    <3> DEFINE old == memory[p].trust
               policy == accelerated_policy(old.policy, command[p].device)
    <3>1. Accelerate(p)
      <4>1. i[1] = "accelerate"
        BY <2>2 DEF accelerated
      <4> QED BY <1>1, <4>1, ActionAt
    <3>2. memory'[p]["trust"] = [old EXCEPT !.policy = policy]
      BY <1>2, <3>1, Assigned DEF Accelerate
    <3>3. PICK keys : old = local_trust(command[p], keys)
      BY <1>1, <2>2, OrderlyAt DEF PolicyInv
    <3>4. old.policy = local_policy(command[p]) /\ "policy" \in DOMAIN old
      BY <3>3 DEF local_trust
    <3> HIDE DEF old
    <3>5. [old EXCEPT !.policy = policy].policy = policy
      BY <3>4
    <3> QED BY <1>1, <2>2, <3>2, <3>4, <3>5 DEF Accelerated
  <2>3. CASE Latest(q, accelerated, Trusts) /\ (q = p => i \notin Trusts)
    <3>1. memory'[q].trust = memory[q].trust
      BY <2>3, TrustStays
    <3> QED BY <1>1, <2>3, <3>1 DEF PolicyInv
  <2> QED BY <2>1, <2>2, <2>3
<1> QED BY <1>3, <1>4 DEF PolicyInv

(* No other step is about the trust bundle of a command that goes on.      *)
LEMMA PolicyStep ==
    ASSUME Placed, FrozenShape, PolicyInv, [Next]_vars
    PROVE  PolicyInv'
<1>1. CASE Waiting \/ \E p \in Process : Begins(p) \/ Ends(p)
  <2>1. ASSUME NEW q \in Process, NEW i, Latest(q, i, Trusts)'
        PROVE  /\ Latest(q, i, Trusts) /\ command'[q] = command[q]
               /\ memory'[q].trust = memory[q].trust
    <3>1. "trust" \in Local
      BY DEF Local, File
    <3> QED BY <1>1, <2>1, <3>1, LatestRests
  <2> QED BY <2>1 DEF PolicyInv
<1> QED BY <1>1, PolicyGoes, Progress

(* At first no command runs.                                               *)
LEMMA PolicyInitial == Init => PolicyInv
BY DEF Init, PolicyInv, Latest

(* The workload on q qubits of the command c, with the orders its layers   *)
(* draw, is an experiment of the document model, and when it is frozen     *)
(* under trust its policy allows it.                                       *)
Fits(c, trust, time, nonce, q, orders) ==
    LET e == workload(q, c.device, orders)
    IN  /\ e \in AerExperiment
        /\ evaluate(freeze(e, trust, time, nonce),
                    trust.policy).disposition = "ALLOW"

(* The accelerated policy allows the workload that is frozen under it.     *)
LEMMA WorkloadFits ==
    ASSUME NEW c, NEW trust, NEW time, NEW nonce,
           Accelerated(c, trust), NEW q \in 2 .. 26, NEW orders,
           Len(orders) \in 1 .. 20,
           \A n \in 1 .. Len(orders) : Shuffled(q, orders[n])
    PROVE  Fits(c, trust, time, nonce, q, orders)
<1> DEFINE e == workload(q, c.device, orders)
           policy == trust.policy
           intent == freeze(e, trust, time, nonce)
           found == predicates(intent, policy)
<1>1. /\ e \in AerExperiment
      /\ e.schema_version = 2 /\ e.backend = AerRevision(c.device)
      /\ e.qubits = q /\ e.shots = 1024
      /\ \A i \in DOMAIN e.gates : gate_valid(e.gates[i], q)
  <2>1. /\ e \in AerExperiment
        /\ \A i \in DOMAIN e.gates : gate_valid(e.gates[i], q)
    BY WorkloadModel
  <2>2. /\ e.schema_version = 2 /\ e.backend = AerRevision(c.device)
        /\ e.qubits = q /\ e.shots = 1024
    BY DEF workload
  <2> QED BY <2>1, <2>2
<1>2. /\ policy.schema_version = 2
      /\ policy.backend = AerRevision(c.device)
      /\ policy.max_qubits = 26 /\ policy.max_shots = 4096
      /\ policy.human_above_shots = 2048
      /\ policy.subjects = {"scientist"}
  BY AcceleratedFields DEF Accelerated
<1> HIDE DEF e, policy
<1>3. /\ intent.subject = "scientist" /\ intent.target = policy.target
      /\ intent.audience = policy.audience
      /\ intent.context = policy.context
      /\ intent.parameters.experiment = e
      /\ intent.parameters.frozen_digest = digest("experiment", e)
  BY DEF freeze, policy
<1> HIDE DEF intent
<1>4. /\ found.requester_allowed /\ found.target_allowed
      /\ found.audience_matches /\ found.context_allowed
  <2>1. "scientist" \in policy.subjects
    BY <1>2
  <2> QED BY <1>3, <2>1, Zenon DEF predicates
<1>5. found.frozen_spec_matches
  BY <1>3 DEF predicates
<1>6. found.resources_within_limits /\ found.automatic_review_limit
  <2>1. /\ e.qubits <= policy.max_qubits /\ e.shots <= policy.max_shots
        /\ e.shots <= policy.human_above_shots
    BY <1>1, <1>2
  <2> QED BY <1>3, <2>1, Zenon DEF predicates
<1>7. found.circuit_well_formed
  BY <1>1, <1>3 DEF predicates
<1>8. found.backend_supported
  BY <1>1, <1>2, <1>3 DEF predicates, policy_backend
<1>9. DOMAIN found =
          {"requester_allowed", "target_allowed", "audience_matches",
           "context_allowed", "frozen_spec_matches",
           "resources_within_limits", "circuit_well_formed",
           "backend_supported", "automatic_review_limit"}
  BY DEF predicates
<1> HIDE DEF found
<1>10. \A name \in DOMAIN found : found[name]
  BY <1>4, <1>5, <1>6, <1>7, <1>8, <1>9, Zenon
<1>11. disposition(found) = "ALLOW"
  BY <1>6, <1>10, Zenon DEF disposition
<1>12. evaluate(intent, policy).disposition = disposition(found)
  BY DEF evaluate, found
<1> QED BY <1>1, <1>11, <1>12 DEF Fits, e, policy, intent

(* An accelerated command holds the policy of provision() until it makes   *)
(* that of provision_accelerated(), whoever else writes trust.json.        *)
THEOREM PoliciesProvisioned == Spec => []PolicyInv
<1>1. Init => PolicyInv
  BY PolicyInitial
<1>2. FrozenInv /\ (Placed /\ IssuedInv) /\ PolicyInv /\ [Next]_vars
          => PolicyInv'
  BY PolicyStep DEF FrozenInv
<1> QED BY <1>1, <1>2, FrozenInvariant, ProgramInvariant, PTL DEF Spec

(* Where a workload is drawn, the policy at hand allows every workload of  *)
(* the sizes workload() accepts, in whatever order its layers chain the    *)
(* qubits.                                                                 *)
WorkloadsFit ==
    \A p \in Process, q \in 2 .. 26, l \in 1 .. 20 :
        At(p, "workload") =>
            \A orders : /\ Len(orders) = l
                        /\ \A n \in 1 .. l : Shuffled(q, orders[n])
                        => Fits(command[p], memory[p].trust, now, secrets, q,
                                orders)

(* The policy that the command at hand has made by then fits its workload. *)
LEMMA AcceleratedFits == Placed /\ PolicyInv => WorkloadsFit
<1> SUFFICES ASSUME Placed, PolicyInv, NEW p \in Process, NEW q \in 2 .. 26,
                    NEW l \in 1 .. 20, At(p, "workload"),
                    NEW orders, Len(orders) = l,
                    \A n \in 1 .. l : Shuffled(q, orders[n])
             PROVE  Fits(command[p], memory[p].trust, now, secrets, q, orders)
  BY DEF WorkloadsFit
<1>1. command[p] # Idle /\ instruction(p)[1] = "workload"
  BY DEF At
<1>2. instruction(p) \in Instructions
  BY <1>1, AtInstruction
<1>3. instruction(p) = worked
  BY <1>1, <1>2, Named DEF worked
<1>4. Latest(p, accelerated, Trusts)
  BY <1>1, <1>3, OrderlyAt
<1>5. Accelerated(command[p], memory[p].trust)
  BY <1>4 DEF PolicyInv
<1> QED BY <1>5, WorkloadFits

(* Whatever the layers draw: the limits on qubits, layers and shots in     *)
(* accelerated.py, in the document model and in the provisioned policy     *)
(* agree.                                                                  *)
THEOREM DrawnWorkloadsFit == Spec => []WorkloadsFit
BY AcceleratedFits, ProgramInvariant, PoliciesProvisioned, PTL

(* A workload of any size that workload() accepts is an experiment, and    *)
(* the policy at hand allows it.                                           *)
THEOREM WorkloadsFitPolicy == Spec => []WorkloadsAllowed
<1>1. WorkloadsFit => WorkloadsAllowed
  <2> SUFFICES ASSUME WorkloadsFit, NEW p \in Process, NEW size \in Size,
                      At(p, "workload"),
                      workload_limit(size[1], size[2]) = OK
               PROVE  Fits(command[p], memory[p].trust, now, secrets, size[1],
                           [n \in 1 .. size[2] |->
                               [i \in 1 .. size[1] |-> i - 1]])
    BY DEF WorkloadsAllowed, Fits
  <2>1. size[1] \in 2 .. 26 /\ size[2] \in 1 .. 20
    BY DEF workload_limit, require, OK
  <2> DEFINE order == [i \in 1 .. size[1] |-> i - 1]
             orders == [n \in 1 .. size[2] |-> order]
  <2>2. Len(orders) = size[2]
    BY <2>1
  <2>3. Shuffled(size[1], order)
    <3>1. ASSUME NEW q \in 2 .. 26
          PROVE  Shuffled(q, [i \in 1 .. q |-> i - 1])
      BY DEF Shuffled
    <3> HIDE DEF order
    <3>2. Shuffled(size[1], [i \in 1 .. size[1] |-> i - 1])
      BY <2>1, <3>1
    <3> QED BY <3>2 DEF order
  <2> HIDE DEF order
  <2>4. \A n \in 1 .. size[2] : Shuffled(size[1], orders[n])
    BY <2>3
  <2> HIDE DEF orders
  <2> QED BY <2>1, <2>2, <2>4 DEF WorkloadsFit, orders, order
<1> QED BY <1>1, DrawnWorkloadsFit, PTL

-----------------------------------------------------------------------------
(* The instructions a measured run makes its evidence with, and uses it    *)
(* up with.                                                                *)
froze    == <<"freeze", "intent">>
signed   == <<"sign", "request">>
issued   == <<"issue", "header">>
attested == <<"attest", "receipt">>
admits   == <<"admit", "request">>

(* An instruction of these passes a nonce or a receipt id on, to a file or *)
(* to the replay store; ...                                                *)
Leaks == {<<"fill", "intent">>, <<"fill", "request">>, <<"fill", "receipt">>,
          admits}

(* ... the next three take another intent, another request for it, or      *)
(* another receipt for a header.                                           *)
Intents  == Leaks \cup {<<"load", "intent">>}
Requests == {<<"load", "intent">>, froze, <<"load", "request">>}
Receipts == {issued, <<"load", "receipt">>}

(* Before every admission of s its intent, its request, its header and its *)
(* receipt were made, and none of them was passed on or replaced since.    *)
Measuring(s) ==
    /\ Follows(s, admits, froze, Intents)
    /\ Follows(s, admits, signed, Requests)
    /\ Follows(s, admits, issued, Leaks)
    /\ Follows(s, admits, attested, Receipts)

(* The instructions of a measured run, in their order.                     *)
LEMMA OneByOne ==
    /\ one[1] = froze /\ one[2] = <<"load", "scientist">> /\ one[3] = signed
    /\ one[4] = <<"load", "issuer">> /\ one[5] = issued /\ one[6] = attested
    /\ one[7] = admits /\ one[8] = <<"run", "result">>
    /\ one[9] = <<"verify result", "result">>
<1> DEFINE last == <<"verify result", "result">>
           E == <<froze, <<"load", "scientist">>, signed,
                  <<"load", "issuer">>, issued, attested, admits,
                  <<"run", "result">>, last>>
           X == {E[n] : n \in 1 .. 9}
           part(s, m, n) == /\ s \in Seq(X) /\ Len(s) = n
                            /\ \A k \in 1 .. n : s[k] = E[m + k]
           a == <<froze>>
           b == <<<<"load", "scientist">>>> \o <<signed>>
           c == <<<<"load", "issuer">>>> \o <<issued>>
           d == c \o <<attested>>
           e == <<admits>> \o <<<<"run", "result">>>>
           f == a \o b
           g == f \o d
           h == g \o e
           j == h \o <<last>>
<1> HIDE DEF last
<1>1. /\ E[1] = froze /\ E[2] = <<"load", "scientist">> /\ E[3] = signed
      /\ E[4] = <<"load", "issuer">> /\ E[5] = issued /\ E[6] = attested
      /\ E[7] = admits /\ E[8] = <<"run", "result">> /\ E[9] = last
  OBVIOUS
<1> HIDE DEF E
<1>2. ASSUME NEW n \in 0 .. 8 PROVE part(<<E[n + 1]>>, n, 1)
  <2>1. E[n + 1] \in X
    BY <1>2
  <2> HIDE DEF X
  <2> QED BY <2>1
<1>3. ASSUME NEW s, NEW t, NEW k \in Nat, NEW m \in Nat, NEW n \in Nat,
             part(s, k, m), part(t, k + m, n)
      PROVE  part(s \o t, k, m + n)
  <2> HIDE DEF X
  <2>0. s \in Seq(X) /\ t \in Seq(X) /\ Len(s) = m /\ Len(t) = n
    BY <1>3
  <2>1. /\ s \o t \in Seq(X) /\ Len(s \o t) = m + n
        /\ \A l \in 1 .. m : (s \o t)[l] = s[l]
        /\ \A l \in 1 .. n : (s \o t)[m + l] = t[l]
    <3>1. /\ s \o t \in Seq(X) /\ Len(s \o t) = Len(s) + Len(t)
          /\ \A l \in 1 .. Len(s) : (s \o t)[l] = s[l]
          /\ \A l \in 1 .. Len(t) : (s \o t)[Len(s) + l] = t[l]
      <4>1. s \in Seq(X) /\ t \in Seq(X)
        BY <2>0
      <4> QED BY ONLY <4>1, Joined
    <3> QED BY ONLY <2>0, <3>1
  <2> DEFINE u == s \o t
  <2> HIDE DEF u
  <2>2. ASSUME NEW l \in 1 .. m + n PROVE u[l] = E[k + l]
    <3>1. CASE l <= m
      BY <1>3, <2>1, <3>1 DEF u
    <3>2. CASE ~ l <= m
      <4>1. l - m \in 1 .. n /\ m + (l - m) = l
            /\ k + m + (l - m) = k + l
        BY <3>2
      <4>2. u[l] = t[l - m] /\ t[l - m] = E[k + m + (l - m)]
        BY <1>3, <2>1, <4>1 DEF u
      <4> QED BY <4>1, <4>2
    <3> QED BY <3>1, <3>2
  <2> QED BY <2>1, <2>2 DEF u
<1> HIDE DEF part
<1>4. /\ part(<<E[1]>>, 0, 1) /\ part(<<E[2]>>, 1, 1)
      /\ part(<<E[3]>>, 2, 1) /\ part(<<E[4]>>, 3, 1)
      /\ part(<<E[5]>>, 4, 1) /\ part(<<E[6]>>, 5, 1)
      /\ part(<<E[7]>>, 6, 1) /\ part(<<E[8]>>, 7, 1)
      /\ part(<<E[9]>>, 8, 1)
  <2>1. /\ part(<<E[0 + 1]>>, 0, 1) /\ part(<<E[1 + 1]>>, 1, 1)
        /\ part(<<E[2 + 1]>>, 2, 1) /\ part(<<E[3 + 1]>>, 3, 1)
        /\ part(<<E[4 + 1]>>, 4, 1) /\ part(<<E[5 + 1]>>, 5, 1)
        /\ part(<<E[6 + 1]>>, 6, 1) /\ part(<<E[7 + 1]>>, 7, 1)
        /\ part(<<E[8 + 1]>>, 8, 1)
    BY <1>2
  <2> QED BY <2>1
<1>5. part(b, 1, 1 + 1)
  BY <1>1, <1>3, <1>4
<1>6. part(c, 3, 1 + 1)
  BY <1>1, <1>3, <1>4
<1>7. part(e, 6, 1 + 1)
  BY <1>1, <1>3, <1>4
<1> HIDE DEF b, c, e
<1>8. part(d, 3, 2 + 1)
  BY <1>1, <1>3, <1>4, <1>6
<1>9. part(f, 0, 1 + 2)
  BY <1>1, <1>3, <1>4, <1>5
<1> HIDE DEF a, d, f
<1>10. part(g, 0, 3 + 3)
  BY <1>3, <1>8, <1>9
<1> HIDE DEF g
<1>11. part(h, 0, 6 + 2)
  BY <1>3, <1>7, <1>10
<1> HIDE DEF h
<1>12. part(j, 0, 8 + 1)
  BY <1>1, <1>3, <1>4, <1>11
<1> HIDE DEF j
<1>13. \A k \in 1 .. 9 : j[k] = E[k]
  BY <1>12 DEF part
<1>14. one = j
  BY Zenon DEF one, sign_intent, authorize_processes, execute, load, do,
               froze, signed, issued, attested, admits, last,
               a, b, c, d, e, f, g, h, j
<1>15. \A k \in 1 .. 9 : one[k] = E[k]
  BY <1>13, <1>14
<1>16. /\ one[1] = E[1] /\ one[2] = E[2] /\ one[3] = E[3]
       /\ one[4] = E[4] /\ one[5] = E[5] /\ one[6] = E[6]
       /\ one[7] = E[7] /\ one[8] = E[8] /\ one[9] = E[9]
  BY <1>15
<1> QED BY <1>1, <1>16, Zenon DEF last

(* Of these, only the seventh admits.                                      *)
LEMMA OneMeasures == Measuring(one)
<1> DEFINE s == one
<1>1. DOMAIN s = 1 .. 9
  BY OneSized
<1>2. /\ s[1] = froze /\ s[2] = <<"load", "scientist">> /\ s[3] = signed
      /\ s[4] = <<"load", "issuer">> /\ s[5] = issued /\ s[6] = attested
      /\ s[7] = admits
  BY OneByOne
<1>3. \A n \in 1 .. 9 : s[n] = admits => n = 7
  <2>1. s[8] # admits
    <3>1. s[8] = <<"run", "result">>
      BY OneByOne, Zenon
    <3> QED BY <3>1 DEF admits
  <2>2. s[9] # admits
    <3> DEFINE op == "verify result"
    <3>1. s[9] = <<op, "result">>
      BY OneByOne, Zenon
    <3>2. op # "admit"
      BY Zenon
    <3> HIDE DEF op, s
    <3> QED BY <3>1, <3>2 DEF admits
  <2>3. /\ s[1] # admits /\ s[2] # admits /\ s[3] # admits
        /\ s[4] # admits /\ s[5] # admits /\ s[6] # admits
    BY <1>2 DEF froze, signed, issued, attested, admits
  <2> QED BY <2>1, <2>2, <2>3
<1> HIDE DEF s
<1>4. \A k \in 2 .. 6 : s[k] \notin Intents
  BY <1>2 DEF Intents, Leaks, froze, signed, issued, attested, admits
<1>5. \A k \in 4 .. 6 : s[k] \notin Requests
  BY <1>2 DEF Requests, froze, signed, issued, attested, admits
<1>6. \A k \in 6 .. 6 : s[k] \notin Leaks
  BY <1>2 DEF Leaks, froze, signed, issued, attested, admits
<1>7. Since(s, 7, froze, Intents)
  <2>1. 1 \in 1 .. 7 - 1 /\ \A k \in 1 + 1 .. 7 - 1 : s[k] \notin Intents
    BY <1>4
  <2> QED BY <1>2, <2>1 DEF Since
<1>8. Since(s, 7, signed, Requests)
  <2>1. 3 \in 1 .. 7 - 1 /\ \A k \in 3 + 1 .. 7 - 1 : s[k] \notin Requests
    BY <1>5
  <2> QED BY <1>2, <2>1 DEF Since
<1>9. Since(s, 7, issued, Leaks)
  <2>1. 5 \in 1 .. 7 - 1 /\ \A k \in 5 + 1 .. 7 - 1 : s[k] \notin Leaks
    BY <1>6
  <2> QED BY <1>2, <2>1 DEF Since
<1>10. Since(s, 7, attested, Receipts)
  <2>1. 6 \in 1 .. 7 - 1 /\ \A k \in 6 + 1 .. 7 - 1 : s[k] \notin Receipts
    OBVIOUS
  <2> QED BY <1>2, <2>1 DEF Since
<1>11. Measuring(s)
  BY <1>1, <1>3, <1>7, <1>8, <1>9, <1>10 DEF Measuring, Follows
<1> QED BY <1>11 DEF s

(* What follows within one run follows within all of them.                 *)
LEMMA RoundsFollow ==
    ASSUME NEW n \in Nat, NEW j, NEW i, NEW S, Follows(one, j, i, S)
    PROVE  Follows(rounds(n), j, i, S)
<1> DEFINE r == rounds(n)
<1>1. /\ DOMAIN one = 1 .. 9 /\ n * 9 \in Nat
      /\ DOMAIN r = 1 .. n * 9
      /\ \A k \in 1 .. n * 9 : r[k] = one[1 + ((k - 1) % 9)]
  <2>1. r \in Seq(Calm) /\ Len(r) = n * 9
        /\ \A k \in 1 .. n * 9 : r[k] = one[1 + ((k - 1) % 9)]
    BY RoundsCalm
  <2>2. one \in Seq(Instructions) /\ Len(one) = 9
    BY OneSized
  <2> HIDE DEF r
  <2> QED BY <2>1, <2>2
<1> HIDE DEF r
<1>2. ASSUME NEW k \in DOMAIN r, r[k] = j PROVE Since(r, k, i, S)
  <2> DEFINE b == 1 + ((k - 1) % 9)
  <2>1. k \in 1 .. n * 9 /\ b \in 1 .. 9 /\ k - b \in Nat
    <3>1. ASSUME NEW x \in Nat
          PROVE  x % 9 \in 0 .. 8 /\ x % 9 <= x
      OBVIOUS
    <3>2. k \in 1 .. n * 9 /\ k - 1 \in Nat
      BY <1>1
    <3> DEFINE left == (k - 1) % 9
    <3>3. left \in 0 .. 8 /\ left <= k - 1
      BY <3>1, <3>2
    <3> HIDE DEF left
    <3>4. 1 + left \in 1 .. 9 /\ k - (1 + left) \in Nat
      BY <3>2, <3>3
    <3> QED BY <3>2, <3>4 DEF left
  <2>2. one[b] = j
    BY <1>1, <1>2, <2>1
  <2> DEFINE a == (k - 1) \div 9
  <2>3. a \in Nat /\ k - 1 = 9 * a + (b - 1)
    <3>1. ASSUME NEW x \in Nat
          PROVE  x \div 9 \in Nat /\ x = 9 * (x \div 9) + (x % 9)
      OBVIOUS
    <3>2. k - 1 \in Nat /\ b - 1 = (k - 1) % 9
      BY <1>1, <2>1
    <3> QED BY <3>1, <3>2
  <2> HIDE DEF a, b
  <2>4. ASSUME NEW c \in 1 .. b PROVE r[k - b + c] = one[c]
    <3> DEFINE l == k - b + c
    <3>1. c \in Nat /\ 1 <= c /\ c <= 9
      BY <2>1
    <3>2. l \in 1 .. n * 9 /\ l - 1 = 9 * a + (c - 1)
      <4> DEFINE t == 9 * a
      <4>1. t \in Nat /\ k - 1 = t + (b - 1) /\ n * 9 \in Nat
        BY <1>1, <2>3
      <4> HIDE DEF t
      <4>2. /\ k \in Nat /\ b \in Nat /\ k - b >= 0 /\ c <= b
            /\ k <= n * 9
        BY <1>1, <2>1
      <4>3. (k - b + c) - 1 = t + (c - 1)
        BY <3>1, <4>1, <4>2
      <4>4. k - b + c \in Nat /\ 1 <= k - b + c /\ k - b + c <= n * 9
        BY <3>1, <4>1, <4>2
      <4>5. l \in 1 .. n * 9
        BY <4>1, <4>4
      <4>6. l - 1 = t + (c - 1)
        BY <4>3, Zenon
      <4> HIDE DEF l
      <4> QED BY <4>5, <4>6 DEF t
    <3>3. (9 * a + (c - 1)) % 9 = c - 1
      BY <2>3, <3>1
    <3> HIDE DEF l
    <3>4. r[l] = one[1 + ((l - 1) % 9)]
      BY <1>1, <3>2
    <3>5. 1 + ((l - 1) % 9) = c
      BY <3>1, <3>2, <3>3
    <3>6. r[l] = one[c]
      BY <3>4, <3>5
    <3> QED BY <3>6 DEF l
  <2>5. PICK m \in 1 .. b - 1 :
           one[m] = i /\ \A c \in m + 1 .. b - 1 : one[c] \notin S
    BY <1>1, <2>1, <2>2 DEF Follows, Since
  <2>6. k - b + m \in 1 .. k - 1 /\ r[k - b + m] = i
    BY <2>1, <2>4, <2>5
  <2>7. ASSUME NEW l \in k - b + m + 1 .. k - 1 PROVE r[l] \notin S
    <3> DEFINE c == l - (k - b)
    <3>1. c \in m + 1 .. b - 1 /\ c \in 1 .. b /\ l = k - b + c
      BY <2>1, <2>5
    <3> QED BY <2>4, <2>5, <3>1
  <2> QED BY <2>6, <2>7 DEF Since
<1> QED BY <1>2 DEF Follows, r

(* The instructions that admit nothing.                                    *)
Early == {i \in Instructions : i[1] # "admit"}

(* Preparing the gateway admits nothing.                                   *)
LEMMA PreparesEarly ==
    /\ provision_accelerated \in Seq(Early) /\ executor \in Seq(Early)
    /\ do("workload", "experiment") \in Seq(Early)
    /\ do("preflight", "adapter") \in Seq(Early)
<1> DEFINE C(s) == s \in Seq(Early)
<1>1. ASSUME NEW s, NEW t, C(s), C(t) PROVE C(s \o t)
  BY <1>1, Joined
<1>2. ASSUME NEW op, NEW n, <<op, n>> \in Instructions, op # "admit"
      PROVE  C(do(op, n))
  BY <1>2 DEF do, Early
<1>3. /\ "trust" \in File /\ "experiment" \in File /\ Keys \subseteq File
      /\ "scientist" \in Keys /\ "executor" \in Keys
      /\ "verifier-1" \in Keys /\ "verifier-2" \in Keys
      /\ "verifier-3" \in Keys
  BY DEF Keys, File, Range, Identities
<1> HIDE DEF C
<1>4. \A n \in File : C(save(n))
  <2> SUFFICES ASSUME NEW n \in File PROVE C(save(n))
    OBVIOUS
  <2>1. <<"open", n>> \in Instructions /\ <<"fill", n>> \in Instructions
    BY DEF Instructions
  <2> QED BY <1>1, <1>2, <2>1 DEF save
<1>5. \A k \in Keys : C(create(k))
  <2> SUFFICES ASSUME NEW k \in Keys PROVE C(create(k))
    OBVIOUS
  <2>1. C(do("generate", k)) /\ C(save(k))
    BY <1>2, <1>3, <1>4, InstructionsOf
  <2> QED BY <1>1, <2>1 DEF create
<1>6. C(generate_keys)
  BY <1>1, <1>3, <1>5, Zenon DEF generate_keys
<1>7. ASSUME NEW op, NEW n, <<op, n>> \in Fixed, op # "admit"
      PROVE  C(do(op, n))
  BY <1>2, <1>7, InstructionsOf
<1>8. /\ C(do("mkdir", "trust")) /\ C(do("bundle", "trust"))
      /\ C(do("bell", "experiment")) /\ C(do("accelerate", "trust"))
      /\ C(do("workload", "experiment")) /\ C(do("preflight", "adapter"))
      /\ C(do("construct", "adapter"))
  <2>1. /\ <<"mkdir", "trust">> \in Fixed /\ <<"bundle", "trust">> \in Fixed
        /\ <<"bell", "experiment">> \in Fixed
        /\ <<"accelerate", "trust">> \in Fixed
        /\ <<"workload", "experiment">> \in Fixed
        /\ <<"preflight", "adapter">> \in Fixed
        /\ <<"construct", "adapter">> \in Fixed
    BY Zenon DEF Fixed
  <2> QED BY <1>7, <2>1
<1>9. C(do("require new", "trust"))
  <2>1. <<"require new", "trust">> \in Fixed
    BY Zenon DEF Fixed
  <2> QED BY <1>7, <2>1, Zenon
<1>10. C(provision)
  BY <1>1, <1>3, <1>4, <1>6, <1>8, <1>9, Zenon DEF provision
<1>11. C(provision_accelerated)
  BY <1>1, <1>3, <1>4, <1>8, <1>10, Zenon DEF provision_accelerated
<1>12. C(executor)
  <2>1. <<"load", "executor">> \in Instructions
    BY <1>3 DEF Instructions
  <2>2. C(load("executor"))
    BY <1>2, <2>1 DEF load
  <2> QED BY <1>1, <1>8, <2>2 DEF executor
<1> QED BY <1>8, <1>11, <1>12 DEF C

(* Every admission of the benchmark follows the making of its evidence.    *)
LEMMA BenchmarkMeasures ==
    /\ "gateway_benchmark" \in DOMAIN main
    /\ Measuring(Programs["gateway_benchmark"])
<1> DEFINE X == Instructions \cup {<<"print", "result">>}
           a == provision_accelerated \o do("workload", "experiment")
                \o do("preflight", "adapter") \o executor
           t == do("print", "result")
           Y == {<<"print", "result">>}
           s == a \o rounds(Rounds) \o t
<1>1. "gateway_benchmark" \in DOMAIN main
      /\ Programs["gateway_benchmark"] = s
  <2>1. /\ "gateway_benchmark" \in DOMAIN main
        /\ main["gateway_benchmark"] = benchmark_gateway
    BY MainParts DEF Names
  <2> QED BY <2>1, Zenon DEF Programs, benchmark_gateway
<1>2. a \in Seq(Early)
  <2> DEFINE C(z) == z \in Seq(Early)
  <2>1. ASSUME NEW y, NEW z, C(y), C(z) PROVE C(y \o z)
    BY <2>1, Joined
  <2>2. /\ C(provision_accelerated) /\ C(executor)
        /\ C(do("workload", "experiment")) /\ C(do("preflight", "adapter"))
    BY PreparesEarly
  <2> HIDE DEF C
  <2>3. C(a)
    BY <2>1, <2>2, Zenon
  <2> QED BY <2>3 DEF C
<1>3. /\ admits \notin Early /\ admits \notin Y
      /\ Early \subseteq X /\ Calm \subseteq X /\ Y \subseteq X
  BY CalmOnes DEF Early, admits, Calm, Plain
<1>4. t \in Seq(Y)
  BY DEF do
<1> HIDE DEF a, t, Y, X
<1>5. ASSUME NEW i, NEW S, Follows(one, admits, i, S)
      PROVE  Follows(s, admits, i, S)
  <2>1. Follows(a, admits, i, S) /\ Follows(t, admits, i, S)
    BY <1>2, <1>3, <1>4, FollowsNone
  <2>2. Follows(rounds(Rounds), admits, i, S)
    BY <1>5, RoundsFollow, WorkspaceAssumption
  <2>3. rounds(Rounds) \in Seq(X) /\ a \in Seq(X) /\ t \in Seq(X)
    <3>1. rounds(Rounds) \in Seq(Calm)
      BY RoundsCalm, WorkspaceAssumption
    <3> QED BY <1>2, <1>3, <1>4, <3>1
  <2>4. /\ a \o rounds(Rounds) \in Seq(X)
        /\ Follows(a \o rounds(Rounds), admits, i, S)
    BY <2>1, <2>2, <2>3, Joined, FollowsJoined
  <2> QED BY <2>1, <2>3, <2>4, FollowsJoined
<1> QED BY <1>1, <1>5, OneMeasures DEF Measuring

(* Where the benchmark is about to admit, its evidence is its own.         *)
LEMMA MeasuredAt ==
    ASSUME Placed, NEW p \in Process, command[p] # Idle,
           command[p].name = "gateway_benchmark", instruction(p) = admits
    PROVE  /\ Latest(p, froze, Intents) /\ Latest(p, signed, Requests)
           /\ Latest(p, issued, Leaks) /\ Latest(p, attested, Receipts)
<1> DEFINE s == Programs["gateway_benchmark"]
<1>1. pc[p] \in DOMAIN s
  BY DEF Placed
<1>2. s[pc[p]] = admits
  BY DEF instruction
<1>3. Measuring(s)
  BY BenchmarkMeasures
<1> HIDE DEF s
<1>4. /\ Since(s, pc[p], froze, Intents) /\ Since(s, pc[p], signed, Requests)
      /\ Since(s, pc[p], issued, Leaks)
      /\ Since(s, pc[p], attested, Receipts)
  BY <1>1, <1>2, <1>3 DEF Measuring, Follows
<1> QED BY <1>4 DEF Latest, s

-----------------------------------------------------------------------------
(* The documents with a secret in them, and which: the nonce of an intent, *)
(* the receipt id of a header.                                             *)
Bearers == {"intent", "request", "header", "receipt"}

Secret(n, document) ==
    CASE n = "intent"  -> document.nonce
      [] n = "request" -> document.intent.nonce
      [] n = "header"  -> document.receipt_id
      [] n = "receipt" -> document.header.receipt_id

(* Process p has a document with the secret s, ...                         *)
Carries(p, s) ==
    \E n \in Bearers : Knows(p, has(n)) /\ Secret(n, memory[p][n]) = s

(* ... a file has, ...                                                     *)
Stored(s) ==
    \E n \in Bearers \ {"header"} :
        files[n] \notin {Nothing, Torn} /\ Secret(n, files[n]) = s

(* ... and so has a row of the replay store.                               *)
Used(s) ==
    \E row \in spent : row.receipt_id = s \/ row.intent_key.value.nonce = s

(* No secret is about that was not drawn.                                  *)
SecretsDrawn ==
    \A s : (\E p \in Process : Carries(p, s)) \/ Stored(s) \/ Used(s)
               => Drawn(s)

(* The secret s was drawn, and nobody but p has it.                        *)
Private(p, s) ==
    /\ Drawn(s) /\ ~ Stored(s) /\ ~ Used(s)
    /\ \A q \in Process \ {p} : ~ Carries(q, s)

(* The evidence a command made and did not pass on is private.             *)
Fresh(p) ==
    /\ Latest(p, froze, Intents) =>
           \A s : s = memory[p].intent.nonce => Private(p, s)
    /\ Latest(p, signed, Requests) =>
           memory[p].request.intent = memory[p].intent
    /\ Latest(p, issued, Leaks) =>
           \A s : s = memory[p].header.receipt_id => Private(p, s)
    /\ Latest(p, attested, Receipts) =>
           memory[p].receipt.header = memory[p].header

(* The inductive invariant behind MeasurementsAreFresh.                    *)
FreshInv == SecretsDrawn /\ \A p \in Process : Fresh(p)

(* The secrets, by document.                                               *)
LEMMA SecretOf ==
    ASSUME NEW d
    PROVE  /\ Secret("intent", d) = d.nonce
           /\ Secret("request", d) = d.intent.nonce
           /\ Secret("header", d) = d.receipt_id
           /\ Secret("receipt", d) = d.header.receipt_id
BY DEF Secret

(* The documents are local variables, and but for the header files.        *)
LEMMA BearersAre ==
    /\ Bearers \subseteq Local /\ Bearers \ {"header"} \subseteq File
    /\ Bearers \ {"header"} = {"intent", "request", "receipt"}
BY DEF Bearers, Local, File

(* What is loaded is stored.                                               *)
LEMMA LoadedStored ==
    ASSUME FrozenShape, NEW p \in Process, Step(p),
           instruction(p)[1] = "load", NEW n \in Bearers \ {"header"},
           instruction(p)[2] = n
    PROVE  /\ files[n] \notin {Nothing, Torn}
           /\ memory'[p][n] = files[n]
<1>1. Load(p) /\ n # "issuer" /\ n \in Local
  BY ActionAt, BearersAre
<1>2. files[n] \notin {Nothing, Torn} /\ Assign(p, n, files[n])
  BY <1>1 DEF Load, readable, file
<1> QED BY <1>1, <1>2, Assigned

(* A request is signed for the intent at hand, ...                         *)
LEMMA SignedIntentOf ==
    ASSUME NEW p, Step(p), instruction(p)[1] = "sign"
    PROVE  \E value : /\ Assign(p, "request", value)
                      /\ value.intent = memory[p].intent
<1> DEFINE intent == memory[p].intent
<1>1. Sign(p)
  BY ActionAt
<1>2. PICK signatures :
         Assign(p, "request", [intent     |-> intent,
                               signatures |-> signatures])
  BY <1>1 DEF Sign
<1> HIDE DEF intent
<1>3. [intent |-> intent, signatures |-> signatures].intent = intent
  OBVIOUS
<1> QED BY <1>2, <1>3 DEF intent

(* ... and a receipt attested for the header at hand.                      *)
LEMMA AttestedHeaderOf ==
    ASSUME NEW p, Step(p), instruction(p)[1] = "attest"
    PROVE  \E value : /\ Assign(p, "receipt", value)
                      /\ value.header = memory[p].header
<1> DEFINE header == memory[p].header
<1>1. Attest(p)
  BY ActionAt
<1>2. PICK votes : Assign(p, "receipt", assemble(header, votes,
                                                 memory[p].issuer))
  BY <1>1, AttestAssembles
<1> HIDE DEF header
<1>3. assemble(header, votes, memory[p].issuer).header = header
  BY DEF assemble
<1> QED BY <1>2, <1>3 DEF header

(* A process has new secrets from the files or from secrets.token_hex.     *)
LEMMA CarriedFrom ==
    ASSUME Placed, FrozenShape, NEW p \in Process, Goes(p), NEW s,
           Carries(p, s)'
    PROVE  \/ Carries(p, s) \/ Stored(s)
           \/ s = secrets /\ secrets' = secrets + 1
<1> DEFINE i == instruction(p)
<1>1. Step(p) /\ Moves(p, i) /\ i \in Instructions
  BY DEF Goes, Moves
<1>2. PICK n \in Bearers :
         Knows(p, has(n))' /\ Secret(n, memory'[p][n]) = s
  BY DEF Carries
<1>3. n \in Local
  BY BearersAre
<1>4. \/ i[1] \in Setters /\ i[2] = n
      \/ Knows(p, has(n)) /\ memory'[p][n] = memory[p][n]
  BY <1>2, <1>3, Variable
<1>5. CASE Knows(p, has(n)) /\ memory'[p][n] = memory[p][n]
  BY <1>2, <1>5 DEF Carries
<1>6. CASE i[1] = "load" /\ i[2] = n /\ n # "header"
  BY <1>1, <1>2, <1>6, LoadedStored DEF Stored
<1>7. CASE i[1] \in Setters /\ i[2] = n /\ ~ (i[1] = "load" /\ n # "header")
  <2>1. CASE n = "intent"
    <3>1. Freeze(p)
      BY <1>1, <1>7, <2>1, SetBy, ActionAt
    <3>2. PICK value : /\ Assign(p, "intent", value)
                       /\ value.nonce = secrets
                       /\ secrets' = secrets + 1
      BY <3>1 DEF Freeze, freeze
    <3>3. memory'[p]["intent"] = value
      BY <1>3, <2>1, <3>2, Assigned
    <3> QED BY <1>2, <2>1, <3>2, <3>3, SecretOf
  <2>2. CASE n = "request"
    <3>1. i[1] = "sign"
      BY <1>1, <1>7, <2>2, SetBy
    <3>2. PICK value : /\ Assign(p, "request", value)
                       /\ value.intent = memory[p].intent
      BY <1>1, <3>1, SignedIntentOf
    <3>3. memory'[p]["request"] = value
      BY <1>3, <2>2, <3>2, Assigned
    <3>4. s = Secret("intent", memory[p]["intent"])
      BY <1>2, <2>2, <3>2, <3>3, SecretOf
    <3>5. Knows(p, has("intent")) /\ "intent" \in Bearers
      BY <1>1, <3>1, Needed DEF Bearers
    <3> QED BY <3>4, <3>5 DEF Carries
  <2>3. CASE n = "header"
    <3>1. Issue(p)
      BY <1>1, <1>7, <2>3, SetBy, ActionAt
    <3>2. PICK value : /\ Assign(p, "header", value)
                       /\ value.receipt_id = secrets
                       /\ secrets' = secrets + 1
      BY <3>1 DEF Issue, new_header
    <3>3. memory'[p]["header"] = value
      BY <1>3, <2>3, <3>2, Assigned
    <3> QED BY <1>2, <2>3, <3>2, <3>3, SecretOf
  <2>4. CASE n = "receipt"
    <3>1. i[1] = "attest"
      BY <1>1, <1>7, <2>4, SetBy
    <3>2. PICK value : /\ Assign(p, "receipt", value)
                       /\ value.header = memory[p].header
      BY <1>1, <3>1, AttestedHeaderOf
    <3>3. memory'[p]["receipt"] = value
      BY <1>3, <2>4, <3>2, Assigned
    <3>4. s = Secret("header", memory[p]["header"])
      BY <1>2, <2>4, <3>2, <3>3, SecretOf
    <3>5. Knows(p, has("header")) /\ "header" \in Bearers
      BY <1>1, <3>1, Needed DEF Bearers
    <3> QED BY <3>4, <3>5 DEF Carries
  <2> QED BY <2>1, <2>2, <2>3, <2>4 DEF Bearers
<1> QED BY <1>4, <1>5, <1>6, <1>7

(* A command passes its own secrets on, and by a leak only.                *)
LEMMA SecretsMove ==
    ASSUME Placed, FrozenShape, NEW p \in Process, Goes(p), NEW s
    PROVE  LET i == instruction(p) IN
           /\ \A q \in Process \ {p} : Carries(q, s)' => Carries(q, s)
           /\ Stored(s)' => Stored(s) \/ (Carries(p, s) /\ i \in Leaks)
           /\ Used(s)' => Used(s) \/ (Carries(p, s) /\ i \in Leaks)
<1> DEFINE i == instruction(p)
<1>1. /\ Step(p) /\ Moves(p, i) /\ Frame(p, i) /\ Alone(p)
      /\ i \in Instructions
  BY DEF Goes, Moves
<1>2. \A q \in Process \ {p} : Carries(q, s)' => Carries(q, s)
  BY <1>1, BearersAre DEF Alone, Carries
<1>3. ASSUME Stored(s)', ~ Stored(s)
      PROVE  Carries(p, s) /\ i \in Leaks
  <2>1. PICK n \in Bearers \ {"header"} :
           files'[n] \notin {Nothing, Torn} /\ Secret(n, files'[n]) = s
    BY <1>3 DEF Stored
  <2>2. n \in File /\ n \in {"intent", "request", "receipt"} /\ n \in Bearers
    BY BearersAre
  <2>3. files'[n] # files[n]
    BY <1>3, <2>1 DEF Stored
  <2>4. i[1] = "fill" /\ i[2] = n /\ files'[n] = memory[p][n]
    BY <2>1, <2>2, <2>3, Touched
  <2>5. Knows(p, has(n))
    BY <1>1, <2>4, Needed
  <2>6. i \in Leaks
    BY <1>1, <2>2, <2>4, Named DEF Leaks
  <2> QED BY <2>1, <2>2, <2>4, <2>5, <2>6 DEF Carries
<1>4. ASSUME Used(s)', ~ Used(s)
      PROVE  Carries(p, s) /\ i \in Leaks
  <2>1. i[1] = "admit"
    BY <1>1, <1>4 DEF Frame, Used
  <2>2. i \in Leaks
    BY <1>1, <2>1, Named DEF Leaks, admits
  <2> DEFINE request == memory[p]["request"]
             receipt == memory[p]["receipt"]
             row == permit(request, receipt)
  <2>3. spent' = spent \cup {row}
    BY <1>1, <2>1, ActionAt DEF Admit
  <2>4. /\ row.receipt_id = Secret("receipt", receipt)
        /\ row.intent_key.value.nonce = Secret("request", request)
    BY SecretOf DEF permit, intent_key, digest
  <2> HIDE DEF row
  <2>5. row.receipt_id = s \/ row.intent_key.value.nonce = s
    BY <1>4, <2>3 DEF Used
  <2>6. /\ Knows(p, has("request")) /\ Knows(p, has("receipt"))
        /\ "request" \in Bearers /\ "receipt" \in Bearers
    BY <1>1, <2>1, Needed DEF Bearers
  <2> QED BY <2>2, <2>4, <2>5, <2>6 DEF Carries
<1> QED BY <1>2, <1>3, <1>4

(* The operator may edit the experiment of an intent, and its nonce stays. *)
LEMMA EditedNonce ==
    ASSUME FrozenMade, FilesDerived, FrozenShape, NEW e, EditIntent(e)
    PROVE  files'["intent"].nonce = files["intent"].nonce
<1> DEFINE old == files["intent"]
<1>1. old \notin {Nothing, Torn} /\ files' = [files EXCEPT !["intent"] =
                                                 edited(old, e)]
  BY DEF EditIntent, edited
<1>2. PICK original \in frozen : \E x : old = edited(original, x)
  BY <1>1 DEF FilesDerived, Derived
<1>3. PICK x : old = edited(original, x)
  BY <1>2
<1>4. PICK y, t, time, nonce : original = freeze(y, t, time, nonce)
  BY DEF FrozenMade
<1>5. edited(old, e) = edited(original, e)
  BY <1>3, <1>4, EditedFields
<1>6. \A z : edited(original, z).nonce = nonce
  <2>1. "nonce" \in DOMAIN original /\ original.nonce = nonce
    BY <1>4 DEF freeze
  <2> QED BY <2>1 DEF edited
<1>7. "intent" \in File
  BY DEF File
<1>8. files'["intent"] = edited(old, e)
  BY <1>1, <1>7 DEF FrozenShape
<1> QED BY <1>3, <1>5, <1>6, <1>8

(* Whatever else happens, secrets stay where they are.                     *)
LEMMA SecretsRest ==
    ASSUME FrozenMade, FilesDerived, FrozenShape, NEW s,
           Waiting \/ \E p \in Process : Begins(p) \/ Ends(p)
    PROVE  /\ \A q \in Process : Carries(q, s)' => Carries(q, s)
           /\ Stored(s)' => Stored(s)
           /\ Used(s)' => Used(s)
           /\ secrets' = secrets
<1>1. ASSUME NEW p \in Process, Begins(p) \/ Ends(p)
      PROVE  /\ \A q \in Process : Carries(q, s)' => Carries(q, s)
             /\ UNCHANGED <<files, spent, secrets>>
  <2>1. Alone(p) /\ UNCHANGED <<files, spent, secrets>>
    BY <1>1 DEF Begins, Ends
  <2>2. \A n \in Bearers : ~ Knows(p, has(n))'
    <3>1. \A v : Knows(p, v)' => v \in Blank
      BY <1>1 DEF Begins, Ends
    <3> QED BY <3>1 DEF Blank, own, none, has
  <2> QED BY <2>1, <2>2, BearersAre DEF Alone, Carries
<1>2. CASE \E p \in Process : Begins(p) \/ Ends(p)
  BY <1>1, <1>2 DEF Stored, Used
<1>3. CASE Waiting
  <2>1. /\ UNCHANGED <<command, pc, memory, spent, secrets>>
        /\ \A n \in File \ {"experiment", "intent"} : files'[n] = files[n]
    BY <1>3 DEF Waiting
  <2>2. \A q \in Process : Carries(q, s)' => Carries(q, s)
    BY <2>1 DEF Carries, Knows
  <2>3. /\ files'["intent"] # Nothing => files["intent"] # Nothing
        /\ files'["intent"] # files["intent"] =>
               /\ files["intent"] # Torn
               /\ files'["intent"].nonce = files["intent"].nonce
    <3>1. "intent" \in File
      BY DEF File
    <3>2. CASE files' = files
      BY <3>2
    <3>3. ASSUME NEW e, EditExperiment(e)
          PROVE  files'["intent"] = files["intent"]
      BY <3>1, <3>3 DEF EditExperiment, FrozenShape
    <3>4. ASSUME NEW e, EditIntent(e)
          PROVE  /\ files["intent"] \notin {Nothing, Torn}
                 /\ files'["intent"].nonce = files["intent"].nonce
      BY <3>4, EditedNonce DEF EditIntent
    <3> QED BY <1>3, <3>2, <3>3, <3>4 DEF Waiting
  <2>4. ASSUME Stored(s)' PROVE Stored(s)
    <3>1. PICK n \in Bearers \ {"header"} :
             files'[n] \notin {Nothing, Torn} /\ Secret(n, files'[n]) = s
      BY <2>4 DEF Stored
    <3>2. CASE files'[n] = files[n]
      BY <3>1, <3>2 DEF Stored
    <3>3. CASE files'[n] # files[n]
      <4>1. n = "intent"
        BY <2>1, <3>3, BearersAre
      <4>2. /\ files["intent"] \notin {Nothing, Torn}
            /\ Secret("intent", files["intent"]) = s
        BY <2>3, <3>1, <3>3, <4>1, SecretOf
      <4> QED BY <3>1, <4>1, <4>2 DEF Stored
    <3> QED BY <3>2, <3>3
  <2>5. Used(s)' => Used(s)
    BY <2>1 DEF Used
  <2> QED BY <2>1, <2>2, <2>4, <2>5
<1> QED BY <1>2, <1>3

(* Nobody has a secret before it is drawn.                                 *)
LEMMA SecretsDrawnStep ==
    ASSUME Placed, FrozenInv, SecretsDrawn, [Next]_vars
    PROVE  SecretsDrawn'
<1>1. FrozenShape /\ FrozenMade /\ FilesDerived
  BY DEF FrozenInv
<1> SUFFICES ASSUME NEW s,
                    (\E p \in Process : Carries(p, s)') \/ Stored(s)'
                        \/ Used(s)'
             PROVE  Drawn(s)'
  BY DEF SecretsDrawn
<1>2. CASE Waiting \/ \E p \in Process : Begins(p) \/ Ends(p)
  BY <1>1, <1>2, SecretsRest DEF SecretsDrawn, Drawn
<1>3. ASSUME NEW p \in Process, Goes(p) PROVE Drawn(s)'
  <2>1. /\ secrets \in Nat /\ secrets' \in Nat /\ secrets <= secrets'
    BY <1>3, WorkspaceAssumption DEF Goes, Frame, Placed
  <2>2. \/ \E q \in Process : Carries(q, s)
        \/ Stored(s) \/ Used(s)
        \/ s = secrets /\ secrets' = secrets + 1
    BY <1>1, <1>3, CarriedFrom, SecretsMove
  <2>3. Drawn(s) \/ (s = secrets /\ secrets' = secrets + 1)
    BY <2>2 DEF SecretsDrawn
  <2> QED BY <2>1, <2>3 DEF Drawn
<1> QED BY <1>1, <1>2, <1>3, Progress

(* What nobody else has, nobody else gets, as long as it is not passed on. *)
LEMMA PrivateStays ==
    ASSUME Placed, FrozenShape, NEW p \in Process, Goes(p),
           NEW q \in Process, NEW s, Private(q, s),
           q = p => instruction(p) \notin Leaks
    PROVE  Private(q, s)'
<1>1. /\ secrets \in Nat /\ secrets' \in Nat /\ secrets <= secrets'
  BY WorkspaceAssumption DEF Goes, Frame, Placed
<1>2. Drawn(s)' /\ s # secrets
  <2>1. s \in 0 .. secrets - 1
    BY DEF Private, Drawn
  <2>2. s \in 0 .. secrets' - 1
    BY ONLY <1>1, <2>1, Wider
  <2>3. s # secrets
    BY ONLY <1>1, <2>1
  <2> QED BY <2>2, <2>3 DEF Drawn
<1>3. ~ Stored(s)' /\ ~ Used(s)'
  BY SecretsMove DEF Private
<1>4. ASSUME NEW r \in Process \ {q} PROVE ~ Carries(r, s)'
  <2>1. ~ Carries(r, s) /\ ~ Stored(s)
    BY DEF Private
  <2>2. CASE r = p
    BY <1>2, <2>1, <2>2, CarriedFrom
  <2>3. CASE r # p
    BY <2>1, <2>3, SecretsMove
  <2> QED BY <2>2, <2>3
<1> QED BY <1>2, <1>3, <1>4 DEF Private

(* What was just drawn nobody has.                                         *)
LEMMA PrivateNew ==
    ASSUME Placed, FrozenShape, SecretsDrawn, NEW p \in Process, Goes(p),
           NEW s, s = secrets, secrets' = secrets + 1
    PROVE  Private(p, s)'
<1>1. secrets \in Nat
  BY WorkspaceAssumption DEF Placed
<1>2. Drawn(s)' /\ ~ Drawn(s)
  BY <1>1 DEF Drawn
<1>3. ~ Stored(s) /\ ~ Used(s) /\ \A r \in Process : ~ Carries(r, s)
  BY <1>2 DEF SecretsDrawn
<1>4. ~ Stored(s)' /\ ~ Used(s)' /\ \A r \in Process \ {p} : ~ Carries(r, s)'
  BY <1>3, SecretsMove
<1> QED BY <1>2, <1>4 DEF Private

(* A local variable that no instruction of its own sets stays as it is.    *)
LEMMA LocalStays ==
    ASSUME NEW p \in Process, Goes(p), NEW q \in Process, NEW n \in Local,
           q = p => \/ instruction(p)[1] \notin Setters
                    \/ instruction(p)[2] # n
    PROVE  memory'[q][n] = memory[q][n]
BY DEF Goes, Frame

(* The intent of a command that freezes or loads none stays, ...           *)
LEMMA IntentStays ==
    ASSUME NEW p \in Process, Goes(p), NEW q \in Process,
           q = p => /\ instruction(p) # froze
                    /\ instruction(p) # <<"load", "intent">>
    PROVE  memory'[q].intent = memory[q].intent
<1> DEFINE i == instruction(p)
<1>1. i \in Instructions /\ "intent" \in Local
  BY DEF Goes, Moves, Local, File
<1>2. ASSUME q = p, i[1] \in Setters, i[2] = "intent" PROVE FALSE
  <2>1. i[1] \in {"load", "freeze"} /\ i = <<i[1], i[2]>>
    BY <1>1, <1>2, SetBy, Named
  <2> QED BY <1>2, <2>1 DEF froze
<1>3. memory'[q]["intent"] = memory[q]["intent"]
  BY <1>1, <1>2, LocalStays
<1> QED BY <1>3

(* ... its request, ...                                                    *)
LEMMA RequestStays ==
    ASSUME NEW p \in Process, Goes(p), NEW q \in Process,
           q = p => /\ instruction(p) # signed
                    /\ instruction(p) # <<"load", "request">>
    PROVE  memory'[q].request = memory[q].request
<1> DEFINE i == instruction(p)
<1>1. i \in Instructions /\ "request" \in Local
  BY DEF Goes, Moves, Local, File
<1>2. ASSUME q = p, i[1] \in Setters, i[2] = "request" PROVE FALSE
  <2>1. i[1] \in {"load", "sign"} /\ i = <<i[1], i[2]>>
    BY <1>1, <1>2, SetBy, Named
  <2> QED BY <1>2, <2>1 DEF signed
<1>3. memory'[q]["request"] = memory[q]["request"]
  BY <1>1, <1>2, LocalStays
<1> QED BY <1>3

(* ... its header ...                                                      *)
LEMMA HeaderStays ==
    ASSUME NEW p \in Process, Goes(p), NEW q \in Process,
           q = p => instruction(p) # issued
    PROVE  memory'[q].header = memory[q].header
<1> DEFINE i == instruction(p)
<1>1. i \in Instructions /\ "header" \in Local
  BY DEF Goes, Moves, Local
<1>2. ASSUME q = p, i[1] \in Setters, i[2] = "header" PROVE FALSE
  <2>1. i[1] = "issue" /\ i = <<i[1], i[2]>>
    BY <1>1, <1>2, SetBy, Named
  <2> QED BY <1>2, <2>1 DEF issued
<1>3. memory'[q]["header"] = memory[q]["header"]
  BY <1>1, <1>2, LocalStays
<1> QED BY <1>3

(* ... and its receipt likewise.                                           *)
LEMMA ReceiptStays ==
    ASSUME NEW p \in Process, Goes(p), NEW q \in Process,
           q = p => /\ instruction(p) # attested
                    /\ instruction(p) # <<"load", "receipt">>
    PROVE  memory'[q].receipt = memory[q].receipt
<1> DEFINE i == instruction(p)
<1>1. i \in Instructions /\ "receipt" \in Local
  BY DEF Goes, Moves, Local, File
<1>2. ASSUME q = p, i[1] \in Setters, i[2] = "receipt" PROVE FALSE
  <2>1. i[1] \in {"load", "attest"} /\ i = <<i[1], i[2]>>
    BY <1>1, <1>2, SetBy, Named
  <2> QED BY <1>2, <2>1 DEF attested
<1>3. memory'[q]["receipt"] = memory[q]["receipt"]
  BY <1>1, <1>2, LocalStays
<1> QED BY <1>3

(* An instruction that goes on leaves the evidence fresh that was, and     *)
(* what it makes is fresh.                                                 *)
LEMMA FreshGoes ==
    ASSUME Placed, FrozenShape, FreshInv, NEW p \in Process, Goes(p),
           NEW q \in Process
    PROVE  Fresh(q)'
<1> DEFINE i == instruction(p)
<1>1. Step(p) /\ SecretsDrawn /\ Fresh(q)
  BY DEF Goes, FreshInv
<1>2. {"intent", "request", "header", "receipt"} \subseteq Local
  BY BearersAre DEF Bearers
<1>3. ASSUME Latest(q, froze, Intents)', NEW s, s = memory'[q].intent.nonce
      PROVE  Private(q, s)'
  <2>1. \/ q = p /\ i = froze
        \/ Latest(q, froze, Intents) /\ (q = p => i \notin Intents)
    BY <1>3, LatestGoes
  <2>2. CASE q = p /\ i = froze
    <3>1. Freeze(p)
      <4>1. i[1] = "freeze"
        BY <2>2 DEF froze
      <4> QED BY <1>1, <4>1, ActionAt
    <3>2. PICK value : /\ Assign(p, "intent", value)
                       /\ value.nonce = secrets
                       /\ secrets' = secrets + 1
      BY <3>1 DEF Freeze, freeze
    <3>3. memory'[p]["intent"] = value
      BY <1>2, <3>2, Assigned
    <3>4. s = secrets
      BY <1>3, <2>2, <3>2, <3>3
    <3> QED BY <1>1, <2>2, <3>2, <3>4, PrivateNew
  <2>4. CASE /\ Latest(q, froze, Intents) /\ (q = p => i \notin Intents)
             /\ ~ (q = p /\ i = froze)
    <3>1. q = p => /\ i \notin Leaks /\ i # froze
                   /\ i # <<"load", "intent">>
      BY <2>4 DEF Intents
    <3>2. memory'[q].intent = memory[q].intent
      BY <3>1, IntentStays
    <3>3. Private(q, s)
      BY <1>1, <1>3, <2>4, <3>2 DEF Fresh
    <3> QED BY <3>1, <3>3, PrivateStays
  <2> QED BY <2>1, <2>2, <2>4
<1>4. ASSUME Latest(q, signed, Requests)'
      PROVE  memory'[q].request.intent = memory'[q].intent
  <2>1. \/ q = p /\ i = signed
        \/ Latest(q, signed, Requests) /\ (q = p => i \notin Requests)
    BY <1>4, LatestGoes
  <2>2. CASE q = p /\ i = signed
    <3>1. i[1] = "sign"
      BY <2>2 DEF signed
    <3>2. PICK value : /\ Assign(p, "request", value)
                       /\ value.intent = memory[p].intent
      BY <1>1, <3>1, SignedIntentOf
    <3>3. memory'[p]["request"] = value
      BY <1>2, <3>2, Assigned
    <3>4. memory'[q].intent = memory[q].intent
      <4>1. i # froze /\ i # <<"load", "intent">>
        BY <2>2 DEF signed, froze
      <4> QED BY <4>1, IntentStays
    <3> QED BY <2>2, <3>2, <3>3, <3>4
  <2>3. CASE /\ Latest(q, signed, Requests) /\ (q = p => i \notin Requests)
             /\ ~ (q = p /\ i = signed)
    <3>1. q = p => /\ i # signed /\ i # <<"load", "request">>
                   /\ i # froze /\ i # <<"load", "intent">>
      BY <2>3 DEF Requests
    <3>2. /\ memory'[q].intent = memory[q].intent
          /\ memory'[q].request = memory[q].request
      BY <3>1, IntentStays, RequestStays
    <3> QED BY <1>1, <2>3, <3>2 DEF Fresh
  <2> QED BY <2>1, <2>2, <2>3
<1>5. ASSUME Latest(q, issued, Leaks)', NEW s,
             s = memory'[q].header.receipt_id
      PROVE  Private(q, s)'
  <2>1. \/ q = p /\ i = issued
        \/ Latest(q, issued, Leaks) /\ (q = p => i \notin Leaks)
    BY <1>5, LatestGoes
  <2>2. CASE q = p /\ i = issued
    <3>1. Issue(p)
      <4>1. i[1] = "issue"
        BY <2>2 DEF issued
      <4> QED BY <1>1, <4>1, ActionAt
    <3>2. PICK value : /\ Assign(p, "header", value)
                       /\ value.receipt_id = secrets
                       /\ secrets' = secrets + 1
      BY <3>1 DEF Issue, new_header
    <3>3. memory'[p]["header"] = value
      BY <1>2, <3>2, Assigned
    <3>4. s = secrets
      BY <1>5, <2>2, <3>2, <3>3
    <3> QED BY <1>1, <2>2, <3>2, <3>4, PrivateNew
  <2>3. CASE /\ Latest(q, issued, Leaks) /\ (q = p => i \notin Leaks)
             /\ ~ (q = p /\ i = issued)
    <3>1. memory'[q].header = memory[q].header
      BY <2>3, HeaderStays
    <3>2. Private(q, s)
      BY <1>1, <1>5, <2>3, <3>1 DEF Fresh
    <3> QED BY <2>3, <3>2, PrivateStays
  <2> QED BY <2>1, <2>2, <2>3
<1>6. ASSUME Latest(q, attested, Receipts)'
      PROVE  memory'[q].receipt.header = memory'[q].header
  <2>1. \/ q = p /\ i = attested
        \/ Latest(q, attested, Receipts) /\ (q = p => i \notin Receipts)
    BY <1>6, LatestGoes
  <2>2. CASE q = p /\ i = attested
    <3>1. i[1] = "attest"
      BY <2>2 DEF attested
    <3>2. PICK value : /\ Assign(p, "receipt", value)
                       /\ value.header = memory[p].header
      BY <1>1, <3>1, AttestedHeaderOf
    <3>3. memory'[p]["receipt"] = value
      BY <1>2, <3>2, Assigned
    <3>4. memory'[q].header = memory[q].header
      <4>1. i # issued
        BY <2>2 DEF attested, issued
      <4> QED BY <4>1, HeaderStays
    <3> QED BY <2>2, <3>2, <3>3, <3>4
  <2>3. CASE /\ Latest(q, attested, Receipts) /\ (q = p => i \notin Receipts)
             /\ ~ (q = p /\ i = attested)
    <3>1. q = p => /\ i # attested /\ i # <<"load", "receipt">>
                   /\ i # issued
      BY <2>3 DEF Receipts
    <3>2. /\ memory'[q].header = memory[q].header
          /\ memory'[q].receipt = memory[q].receipt
      BY <3>1, HeaderStays, ReceiptStays
    <3> QED BY <1>1, <2>3, <3>2 DEF Fresh
  <2> QED BY <2>1, <2>2, <2>3
<1> QED BY <1>3, <1>4, <1>5, <1>6 DEF Fresh

(* Nor does any other step take it away.                                   *)
LEMMA FreshRests ==
    ASSUME FrozenMade, FilesDerived, FrozenShape, FreshInv,
           Waiting \/ \E p \in Process : Begins(p) \/ Ends(p),
           NEW q \in Process
    PROVE  Fresh(q)'
<1>1. ASSUME NEW i, NEW S, Latest(q, i, S)'
      PROVE  /\ Latest(q, i, S)
             /\ memory'[q].intent = memory[q].intent
             /\ memory'[q].request = memory[q].request
             /\ memory'[q].header = memory[q].header
             /\ memory'[q].receipt = memory[q].receipt
  <2>1. {"intent", "request", "header", "receipt"} \subseteq Local
    BY BearersAre DEF Bearers
  <2>2. Latest(q, i, S) /\ \A n \in Local : memory'[q][n] = memory[q][n]
    BY <1>1, LatestRests
  <2> QED BY <2>1, <2>2
<1>2. ASSUME NEW s, Private(q, s) PROVE Private(q, s)'
  <2>1. /\ \A r \in Process : Carries(r, s)' => Carries(r, s)
        /\ Stored(s)' => Stored(s)
        /\ Used(s)' => Used(s)
        /\ secrets' = secrets
    BY SecretsRest
  <2> QED BY <1>2, <2>1 DEF Private, Drawn
<1>3. Fresh(q)
  BY DEF FreshInv
<1> QED BY <1>1, <1>2, <1>3 DEF Fresh

(* What is fresh stays so in every step.                                   *)
LEMMA FreshStep ==
    ASSUME Placed, FrozenInv, FreshInv, [Next]_vars
    PROVE  FreshInv'
<1>1. FrozenShape /\ FrozenMade /\ FilesDerived
  BY DEF FrozenInv
<1>2. SecretsDrawn'
  BY SecretsDrawnStep DEF FreshInv
<1>3. \A q \in Process : Fresh(q)'
  BY <1>1, FreshGoes, FreshRests, Progress
<1> QED BY <1>2, <1>3 DEF FreshInv

(* At first there are no secrets.                                          *)
LEMMA FreshInitial == Init => FreshInv
<1> SUFFICES ASSUME Init PROVE FreshInv
  OBVIOUS
<1>1. /\ \A p \in Process : command[p] = Idle
      /\ \A n \in File : files[n] = Nothing
      /\ spent = {}
  BY DEF Init
<1>2. SecretsDrawn
  <2>1. \A p \in Process : \A v : ~ Knows(p, v)
    BY <1>1 DEF Knows
  <2> QED BY <1>1, <2>1, BearersAre DEF SecretsDrawn, Carries, Stored, Used
<1>3. \A p \in Process : Fresh(p)
  BY <1>1 DEF Fresh, Latest
<1> QED BY <1>2, <1>3 DEF FreshInv

(* What a command has frozen or issued and not passed on since is known to *)
(* no other command, no file and no row of the replay store.               *)
THEOREM EvidenceIsPrivate == Spec => []FreshInv
<1>1. FrozenInv /\ (Placed /\ IssuedInv) /\ FreshInv /\ [Next]_vars
          => FreshInv'
  BY FreshStep
<1> QED BY <1>1, FreshInitial, FrozenInvariant, ProgramInvariant, PTL
        DEF Spec

(* A permit of which the replay store has neither half is no replay.       *)
LEMMA UnusedReserves ==
    ASSUME NEW request, NEW receipt,
           ~ Used(request.intent.nonce), ~ Used(receipt.header.receipt_id)
    PROVE  reserve(permit(request, receipt)) # "REPLAY"
<1> DEFINE row == permit(request, receipt)
<1>1. /\ row.receipt_id = receipt.header.receipt_id
      /\ row.intent_key.value.nonce = request.intent.nonce
  BY DEF permit, intent_key, digest
<1> HIDE DEF row
<1>2. \A used \in spent : /\ used.receipt_id # row.receipt_id
                          /\ used.intent_key # row.intent_key
  BY <1>1 DEF Used
<1>3. reserve(row) # "REPLAY"
  BY <1>2 DEF reserve, require, ??, OK
<1> QED BY <1>3 DEF row

(* No measurement of the benchmark is refused as a replay, whatever other  *)
(* commands run in its workspace.                                          *)
THEOREM MeasurementsStayFresh == Spec => []MeasurementsAreFresh
<1>1. (Placed /\ IssuedInv) /\ FreshInv => MeasurementsAreFresh
  <2> SUFFICES ASSUME Placed, FreshInv, NEW p \in Process, At(p, "admit"),
                      command[p].name = "gateway_benchmark"
               PROVE  reserve(permit(memory[p].request, memory[p].receipt))
                          # "REPLAY"
    BY DEF MeasurementsAreFresh
  <2>1. command[p] # Idle /\ instruction(p)[1] = "admit"
    BY DEF At
  <2>2. instruction(p) \in Instructions
    BY <2>1, AtInstruction
  <2>3. instruction(p) = admits
    BY <2>1, <2>2, Named DEF admits
  <2>4. /\ Latest(p, froze, Intents) /\ Latest(p, signed, Requests)
        /\ Latest(p, issued, Leaks) /\ Latest(p, attested, Receipts)
    BY <2>1, <2>3, MeasuredAt
  <2>5. /\ Private(p, memory[p].intent.nonce)
        /\ memory[p].request.intent = memory[p].intent
        /\ Private(p, memory[p].header.receipt_id)
        /\ memory[p].receipt.header = memory[p].header
    BY <2>4 DEF FreshInv, Fresh
  <2>6. /\ ~ Used(memory[p].request.intent.nonce)
        /\ ~ Used(memory[p].receipt.header.receipt_id)
    BY <2>5 DEF Private
  <2> QED BY <2>6, UnusedReserves
<1> QED BY <1>1, EvidenceIsPrivate, ProgramInvariant, PTL

-----------------------------------------------------------------------------
(* A document of the model of the local variable n.                        *)
Modelled(n, d) ==
    /\ n \in Keys => KeyFile(d)
    /\ n \in {"trust", "issuer"} => TrustBundle(d) /\ trust_snapshot(d) = OK
    /\ n = "experiment" => d \in Experiment \cup AerExperiment
    /\ n = "intent" => Intent(d)
    /\ n = "request" => SignedIntent(d)
    /\ n = "header" => Header(d)
    /\ n = "receipt" => Receipt(d)
    /\ n = "result" => ResultRecord(d)

(* Every variable that has a value has one of its model, ...               *)
VariablesModelled ==
    \A p \in Process, n \in Local :
        Knows(p, has(n)) => Modelled(n, memory[p][n])

(* ... and so has what execute() holds behind its reserve().               *)
HeldModelled ==
    \A p \in Process : executing[p] # Nothing =>
        /\ SignedIntent(executing[p].request)
        /\ Receipt(executing[p].receipt)
        /\ TrustBundle(executing[p].trust)

(* The experiment is of the schema that the policy of trust asks for.      *)
Matches(experiment, trust) ==
    experiment \in IF trust.policy.schema_version = 2
                   THEN AerExperiment ELSE Experiment

(* What a command is given, provisions and writes beside each other.       *)
CommandFits(p) ==
    /\ Knows(p, vetted) => quorum(command[p]) \in {2, 3}
    /\ Knows(p, builtin) => memory[p].trust.policy.schema_version = 1
    /\ Knows(p, fits) => Matches(memory[p].experiment, memory[p].trust)

ModelInv ==
    /\ VariablesModelled
    /\ HeldModelled
    /\ \A p \in Process : CommandFits(p)

(* The names of the variables are all different.                           *)
LEMMA VariableNames ==
    /\ Keys \cap {"trust", "issuer", "experiment", "intent", "request",
                  "header", "receipt", "result", "summary", "adapter"} = {}
    /\ File = Keys \cup {"trust", "experiment", "intent", "request",
                         "receipt", "result", "summary"}
    /\ Local = File \cup {"issuer", "header", "adapter"}
BY DEF Keys, File, Local, Range, Identities

(* A document that a command accepts is one of its model.                  *)
LEMMA AcceptedModelled ==
    ASSUME NEW n \in File \cup {"issuer"}, NEW d, NEW t, accepts(n, d, t)
    PROVE  Modelled(n, d) /\ (n = "experiment" => Matches(d, t))
<1>1. n \in Keys \cup {"trust", "experiment", "intent", "request",
                       "receipt", "result", "summary", "issuer"}
  BY VariableNames
<1>2. CASE n \in Keys
  BY <1>2, VariableNames DEF accepts, Modelled, Keys
<1>3. CASE n \notin Keys
  <2>1. n \notin Range(Identities)
    BY <1>3 DEF Keys
  <2>2. CASE n \in {"trust", "issuer"}
    BY <2>1, <2>2, <1>3 DEF accepts, Modelled
  <2>3. CASE n = "experiment"
    <3>1. Matches(d, t)
      BY <2>1, <2>3 DEF accepts, Matches
    <3>2. d \in Experiment \cup AerExperiment
      BY <3>1 DEF Matches
    <3> QED BY <1>3, <2>3, <3>1, <3>2 DEF Modelled
  <2>4. CASE n \in {"intent", "request", "receipt", "result", "summary"}
    BY <2>1, <2>4, <1>3 DEF accepts, Modelled
  <2> QED BY <1>1, <1>3, <2>2, <2>3, <2>4
<1> QED BY <1>2, <1>3

(* A document of the model is accepted, if an experiment also fits.        *)
LEMMA ModelledAccepted ==
    ASSUME NEW n \in File, NEW d, NEW t, Modelled(n, d),
           n = "experiment" => Matches(d, t)
    PROVE  accepts(n, d, t)
<1>1. n \in Keys \cup {"trust", "experiment", "intent", "request",
                       "receipt", "result", "summary"}
  BY VariableNames
<1>2. CASE n \in Keys
  BY <1>2, VariableNames DEF accepts, Modelled, Keys
<1>3. CASE n \notin Keys
  <2>1. n \notin Range(Identities)
    BY <1>3 DEF Keys
  <2>2. CASE n = "trust"
    BY <2>1, <2>2 DEF accepts, Modelled
  <2>3. CASE n = "experiment"
    BY <2>1, <2>3 DEF accepts, Matches
  <2>4. CASE n \in {"intent", "request", "receipt", "result", "summary"}
    BY <2>1, <2>4 DEF accepts, Modelled
  <2> QED BY <1>1, <1>3, <2>2, <2>3, <2>4
<1> QED BY <1>2, <1>3

(* argparse lets suites through only.                                      *)
LEMMA CommandSuite ==
    ASSUME Placed, NEW p \in Process, command[p] # Idle
    PROVE  suite(command[p]) \in Suites
<1>1. command[p] \in Command[p]
  BY DEF Placed
<1>2. command[p].name \in {"init", "quantum_demo"} =>
         command[p].suite \in Suites
  BY <1>1, CommandAssumption
<1> QED BY <1>2 DEF suite, Suites

(* What a command reads, it has accepted.                                  *)
LEMMA LoadModels ==
    ASSUME FrozenShape, NEW p \in Process, Goes(p),
           instruction(p)[1] = "load"
    PROVE  LET n == instruction(p)[2] IN
           /\ Modelled(n, memory'[p][n])
           /\ n = "experiment" => Matches(memory'[p][n], memory[p].trust)
<1> DEFINE i == instruction(p)
           n == i[2]
<1>1. Load(p) /\ i \in Instructions
  BY ActionAt DEF Goes, Moves
<1>2. n \in File \cup {"issuer"} /\ n \in Local
  BY <1>1, Named, VariableNames
<1>3. /\ accepts(n, file(n), memory[p].trust)
      /\ Assign(p, n, file(n))
  BY <1>1 DEF Load, readable
<1>4. memory'[p][n] = file(n)
  BY <1>2, <1>3, Assigned
<1> QED BY <1>2, <1>3, <1>4, AcceptedModelled

(* A key file that was generated.                                          *)
LEMMA GenerateModels ==
    ASSUME Placed, FrozenShape, NEW p \in Process, Goes(p),
           instruction(p)[1] = "generate"
    PROVE  LET n == instruction(p)[2] IN Modelled(n, memory'[p][n])
<1> DEFINE i == instruction(p)
           n == i[2]
           made_key == key_file(n, suite(command[p]), p)
<1>1. Generate(p, n) /\ i \in Instructions /\ command[p] # Idle
  BY ActionAt DEF Goes, Moves
<1>2. n \in Keys /\ n \in Local
  BY <1>1, Named, VariableNames
<1>3. memory'[p][n] = made_key
  BY <1>1, <1>2, Assigned DEF Generate
<1>4. KeyFile(made_key)
  BY <1>1, <1>2, CommandSuite, KeyFileMade DEF Keys
<1> QED BY <1>2, <1>3, <1>4, VariableNames DEF Modelled

(* The bundle of provision(), with the quorum that was let through.        *)
LEMMA BundleModels ==
    ASSUME Placed, FrozenShape, ModelInv, NEW p \in Process, Goes(p),
           instruction(p)[1] = "bundle"
    PROVE  /\ Modelled("trust", memory'[p]["trust"])
           /\ memory'[p].trust.policy.schema_version = 1
<1> DEFINE c == command[p]
           t == local_trust(c, memory[p])
<1>1. Bundle(p) /\ Moves(p, instruction(p)) /\ c # Idle
  BY ActionAt DEF Goes
<1>2. Knows(p, vetted) /\ \A k \in Keys : Knows(p, has(k))
  BY <1>1, Needed
<1>3. quorum(c) \in {2, 3} /\ suite(c) \in Suites
  BY <1>1, <1>2, CommandSuite DEF ModelInv, CommandFits
<1>4. \A k \in Range(Identities) : is_dict(memory[p][k].private_keys)
  <2> SUFFICES ASSUME NEW k \in Keys
               PROVE  is_dict(memory[p][k].private_keys)
    BY DEF Keys
  <2>1. Modelled(k, memory[p][k])
    BY <1>2, VariableNames DEF ModelInv, VariablesModelled
  <2> QED BY <2>1 DEF Modelled, KeyFile
<1>5. TrustBundle(t)
  BY <1>3, <1>4, LocalBundle
<1>6. trust_snapshot(t) = OK /\ Assign(p, "trust", t)
  BY <1>1 DEF Bundle
<1>7. memory'[p]["trust"] = t
  <2>1. "trust" \in Local
    BY VariableNames
  <2> HIDE DEF t
  <2> QED BY <1>6, <2>1, Assigned
<1>8. t.policy.schema_version = 1
  BY DEF local_trust, local_policy
<1> HIDE DEF t
<1>9. Modelled("trust", t)
  BY <1>5, <1>6, VariableNames DEF Modelled
<1> QED BY <1>7, <1>8, <1>9

(* The Bell experiment, and the workload of accelerated.py.                *)
LEMMA BellModels ==
    ASSUME FrozenShape, NEW p \in Process, Goes(p),
           instruction(p)[1] = "bell"
    PROVE  memory'[p]["experiment"] \in Experiment
<1>1. Bell(p)
  BY ActionAt DEF Goes
<1>2. "experiment" \in Local
  BY VariableNames
<1>3. memory'[p]["experiment"] = bell_experiment
  BY <1>1, <1>2, Assigned DEF Bell
<1> QED BY <1>3, BellModel

LEMMA WorkloadModels ==
    ASSUME FrozenShape, NEW p \in Process, Goes(p),
           instruction(p)[1] = "workload"
    PROVE  memory'[p]["experiment"] \in AerExperiment
<1>1. Workload(p)
  BY ActionAt DEF Goes
<1>2. "experiment" \in Local
  BY VariableNames
<1>3. PICK orders \in Orders :
         Assign(p, "experiment",
                workload(Qubits, command[p].device, orders))
  BY <1>1 DEF Workload
<1>4. memory'[p]["experiment"] = workload(Qubits, command[p].device, orders)
  BY <1>2, <1>3, Assigned
<1>5. Qubits \in 2 .. 26 /\ Layers \in 1 .. 20
  BY <1>1 DEF Workload, workload_limit, require, OK
<1>6. Len(orders) = Layers
      /\ \A n \in 1 .. Layers : Shuffled(Qubits, orders[n])
  BY WorkspaceAssumption, OrderAssumption DEF Shuffled
<1>7. workload(Qubits, command[p].device, orders) \in AerExperiment
  BY <1>5, <1>6, WorkloadModel
<1> QED BY <1>4, <1>7

(* The bundle of provision_accelerated().                                  *)
LEMMA AccelerateModels ==
    ASSUME FrozenShape, ModelInv, NEW p \in Process, Goes(p),
           instruction(p)[1] = "accelerate"
    PROVE  Modelled("trust", memory'[p]["trust"])
<1> DEFINE t == memory[p].trust
           device == command[p].device
           policy == accelerated_policy(t.policy, device)
           u == [t EXCEPT !.policy = policy]
<1>1. Accelerate(p) /\ Moves(p, instruction(p))
  BY ActionAt DEF Goes
<1>2. Knows(p, has("trust")) /\ "trust" \in Local
  BY <1>1, Needed, VariableNames
<1>3. TrustBundle(t) /\ trust_snapshot(t) = OK
  BY <1>2 DEF ModelInv, VariablesModelled, Modelled
<1>4. Policy(policy) /\ Assign(p, "trust", u)
  BY <1>1 DEF Accelerate
<1>5. TrustBundle(u) /\ trust_snapshot(u) = OK
  BY <1>3, <1>4, AcceleratedBundle
<1> HIDE DEF u
<1>6. memory'[p]["trust"] = u
  BY <1>2, <1>4, Assigned
<1> QED BY <1>5, <1>6, VariableNames DEF Modelled

(* What freeze() makes of an experiment that was read or made.             *)
LEMMA FreezeModels ==
    ASSUME Placed, FrozenShape, now \in Instants, ModelInv,
           NEW p \in Process, Goes(p), instruction(p)[1] = "freeze"
    PROVE  Intent(memory'[p]["intent"])
<1> DEFINE intent == freeze(memory[p].experiment, memory[p].trust, now,
                            secrets)
<1>1. Freeze(p) /\ Moves(p, instruction(p))
  BY ActionAt DEF Goes
<1>2. /\ Knows(p, has("trust")) /\ Knows(p, has("experiment"))
      /\ {"trust", "experiment", "intent"} \subseteq Local
  BY <1>1, Needed, VariableNames
<1>3. /\ TrustBundle(memory[p].trust)
      /\ memory[p].experiment \in Experiment \cup AerExperiment
  BY <1>2 DEF ModelInv, VariablesModelled, Modelled
<1>4. secrets \in Nat
  BY WorkspaceAssumption DEF Placed
<1>5. Intent(intent)
  BY <1>3, <1>4, FrozenIntent
<1>6. memory'[p]["intent"] = intent
  BY <1>1, <1>2, Assigned DEF Freeze
<1> QED BY <1>5, <1>6

(* What sign_intent() makes with the scientist's key.                      *)
LEMMA SignModels ==
    ASSUME FrozenShape, ModelInv, NEW p \in Process, Goes(p),
           instruction(p)[1] = "sign"
    PROVE  SignedIntent(memory'[p]["request"])
<1> DEFINE intent == memory[p].intent
           key == memory[p].scientist
           data == message("intent", key.suite, key.identity, intent)
           signing(draw) == [intent     |-> intent,
                             signatures |-> sign(key.suite, key.private_keys,
                                                 data, draw)]
<1>1. Sign(p) /\ Moves(p, instruction(p))
  BY ActionAt DEF Goes
<1>2. /\ Knows(p, has("intent")) /\ Knows(p, has("scientist"))
      /\ {"intent", "request", "scientist"} \subseteq Local
      /\ "scientist" \in Keys
  <2>1. "scientist" \in Keys
    BY DEF Keys, Range, Identities
  <2> QED BY <1>1, <2>1, Needed, VariableNames
<1>3. Intent(intent) /\ KeyFile(key)
  BY <1>2 DEF ModelInv, VariablesModelled, Modelled
<1>4. key.suite \in Suites
  BY <1>3 DEF KeyFile
<1>5. PICK draw \in Draws["intent"] : Assign(p, "request", signing(draw))
  BY <1>1, Zenon DEF Sign
<1>6. SignedIntent(signing(draw))
  BY <1>3, <1>4, SignedRequest
<1>7. memory'[p]["request"] = signing(draw)
  BY <1>2, <1>5, Assigned
<1> QED BY <1>6, <1>7

(* The header that the coordinator issues.                                 *)
LEMMA IssueModels ==
    ASSUME Placed, FrozenShape, now \in Instants, ModelInv,
           NEW p \in Process, Goes(p), instruction(p)[1] = "issue"
    PROVE  Header(memory'[p]["header"])
<1> DEFINE h == new_header(memory[p].request, memory[p].issuer, now, secrets)
<1>1. Issue(p) /\ Moves(p, instruction(p))
  BY ActionAt DEF Goes
<1>2. /\ Knows(p, has("issuer")) /\ Knows(p, has("request"))
      /\ {"issuer", "request", "header"} \subseteq Local
  BY <1>1, Needed, VariableNames
<1>3. TrustBundle(memory[p].issuer) /\ SignedIntent(memory[p].request)
  BY <1>2 DEF ModelInv, VariablesModelled, Modelled
<1>4. secrets \in Nat
  BY WorkspaceAssumption DEF Placed
<1>5. Header(h)
  BY <1>3, <1>4, IssuedHeader
<1>6. memory'[p]["header"] = h
  BY <1>1, <1>2, Assigned DEF Issue
<1> QED BY <1>5, <1>6

(* The result that execute() signs.                                        *)
LEMMA RunModels ==
    ASSUME Placed, FrozenShape, now \in Instants, ModelInv,
           NEW p \in Process, Goes(p), instruction(p)[1] = "run"
    PROVE  ResultRecord(memory'[p]["result"])
<1> DEFINE call == executing[p]
           key == memory[p].executor
           r(answer, draw) == record(call.request, call.receipt, call.trust,
                                     key, now, answer.counts, draw)
<1>1. Step(p) /\ Moves(p, instruction(p)) /\ command' = command
      /\ command[p] # Idle
  BY DEF Goes
<1>2. Knows(p, has("executor")) /\ "executor" \in Keys
      /\ {"executor", "result"} \subseteq Local
  <2>1. "executor" \in Keys
    BY DEF Keys, Range, Identities
  <2> QED BY <1>1, <2>1, Needed, VariableNames
<1>3. KeyFile(key)
  BY <1>2 DEF ModelInv, VariablesModelled, Modelled
<1>4. PICK answer \in Answer : Run(p, answer) \/ RunFails(p, answer)
  BY <1>1, ActionAt
<1>5. Run(p, answer)
  <2>1. command = [q \in Process |-> command[q]]
    BY DEF Placed
  <2>2. ~ RunFails(p, answer)
    BY <1>1, <2>1 DEF RunFails, Exit
  <2> QED BY <1>4, <2>2
<1>6. /\ SignedIntent(call.request) /\ Receipt(call.receipt)
      /\ TrustBundle(call.trust)
  BY <1>5 DEF Run, Simulate, ModelInv, HeldModelled
<1>7. Range(answer.counts) \subseteq Int
  BY RangeAssumption
<1>8. PICK draw \in Draws["result"] : Assign(p, "result", r(answer, draw))
  BY <1>5, Zenon DEF Run
<1>9. ResultRecord(r(answer, draw))
  BY <1>3, <1>6, <1>7, SignedResult
<1>10. memory'[p]["result"] = r(answer, draw)
  BY <1>2, <1>8, Assigned
<1> QED BY <1>9, <1>10

(* A node that attests read a key file of one of the three verifiers.      *)
LEMMA NodeReads ==
    ASSUME OwnerInv, NEW v, NEW request, NEW h, node_check(v, request, h)
    PROVE  /\ KeyFile(files[v]) /\ files[v].identity = v
           /\ \E k \in DOMAIN VerifierOrder : VerifierOrder[k] = v
<1> DEFINE t == files["trust"]
           key == files[v]
<1>1. /\ readable("trust", Nothing) /\ readable(v, Nothing)
      /\ attest_check(request, h, t, key, now) = OK
      /\ key.identity = v
  BY DEF node_check
<1>2. key.identity \in DOMAIN t.verifiers
  <2>1. require(key.identity \in DOMAIN t.verifiers, "VERIFIER_UNKNOWN") = OK
    <3> DEFINE body == attestation_body(request, h, t, key.identity)
               a == validate_header(h, request, t, now)
               b == require(key.suite = t.policy.suite, "SUITE_MISMATCH")
               c == require(key.identity \in DOMAIN t.verifiers,
                            "VERIFIER_UNKNOWN")
               d == check_private(key.suite, key.private_keys)
               e == verify(key.suite, t.verifiers[key.identity],
                           attestation_signatures(body, key,
                                                  any_draw("attestation")),
                           message("attestation", key.suite, key.identity,
                                   body))
    <3>1. attest_check(request, h, t, key, now) = ((((a ?? b) ?? c) ?? d) ?? e)
      BY Zenon DEF attest_check
    <3> HIDE DEF a, b, c, d, e, t, key
    <3>2. c = OK
      BY <1>1, <3>1, ChainPasses
    <3> QED BY <3>2 DEF c
  <2> QED BY <2>1 DEF require, OK
<1>3. v \in VerifierNames
  <2>1. t \notin {Nothing, Torn}
    BY <1>1 DEF readable, file
  <2>2. DOMAIN t.verifiers = VerifierNames
    BY <2>1 DEF OwnerInv, Owned, TrustMade, Keyed
  <2> QED BY <1>1, <1>2, <2>2
<1>4. v \in Keys
  BY <1>3, KeyNames DEF VerifierNames
<1>5. KeyFile(key)
  <2>1. v \in File \cup {"issuer"} /\ v # "issuer"
    BY <1>4, VariableNames
  <2>2. accepts(v, key, Nothing)
    BY <1>1, <2>1 DEF readable, file
  <2> HIDE DEF key
  <2> QED BY <1>4, <2>1, <2>2, AcceptedModelled DEF Modelled
<1>6. \E k \in DOMAIN VerifierOrder : VerifierOrder[k] = v
  <2>1. v \in Range(VerifierOrder)
    BY <1>3, FirstIdentities, WorkspaceAssumption
  <2> QED BY <2>1 DEF Range
<1> QED BY <1>1, <1>5, <1>6

(* The receipt that is assembled of the attestations of the nodes.         *)
LEMMA AttestModels ==
    ASSUME FrozenShape, OwnerInv, ModelInv, NEW p \in Process, Goes(p),
           instruction(p)[1] = "attest"
    PROVE  Receipt(memory'[p]["receipt"])
<1> DEFINE request == memory[p].request
           h == memory[p].header
           t == memory[p].issuer
           ids == t.policy.verifier_ids
           cast(draws) == [i \in DOMAIN ids |->
                              attest(request, h, files.trust, files[ids[i]],
                                     draws[i])]
<1>1. Attest(p) /\ Moves(p, instruction(p))
  BY ActionAt DEF Goes
<1>2. Knows(p, has("header")) /\ {"header", "receipt"} \subseteq Local
  BY <1>1, Needed, VariableNames
<1>3. Header(h)
  BY <1>2 DEF ModelInv, VariablesModelled, Modelled
<1>4. PICK draws \in [DOMAIN ids -> Draws["attestation"]] :
         /\ \A v \in Range(ids) : node_check(v, request, h)
         /\ inspect_receipt(request, assemble(h, cast(draws), t), t, now) = OK
         /\ Assign(p, "receipt", assemble(h, cast(draws), t))
  BY <1>1, Zenon DEF Attest
<1> DEFINE vote(i) == attest(request, h, files.trust, files[ids[i]], draws[i])
           votes == cast(draws)
           r == assemble(h, votes, t)
<1>5. ids \in list(Identifier, 16)
  <2>1. validate_header(r.header, request, t, now) = OK
    <3> HIDE DEF cast
    <3> QED BY <1>4, InspectionFacts
  <2>2. r.header = h
    <3> HIDE DEF votes
    <3> QED BY DEF assemble
  <2>3. validate_header(h, request, t, now) = OK
    BY <2>1, <2>2
  <2>4. h.verifier_set = t.policy.verifier_ids
    <3> HIDE DEF h, request, t
    <3> QED BY <2>3, ChainPasses DEF validate_header, require, OK
  <2>5. h.verifier_set \in list(Identifier, 16)
    BY <1>3 DEF Header
  <2> QED BY <2>4, <2>5
<1> HIDE DEF h, t, request, ids
<1>6. PICK n \in 1 .. 16 : DOMAIN ids = 1 .. n
  BY <1>5 DEF list
<1>7. ASSUME NEW i \in 1 .. n
      PROVE  /\ Attestation(votes[i])
             /\ \E k \in DOMAIN VerifierOrder :
                   VerifierOrder[k] = votes[i].body.verifier_id
  <2> DEFINE v == ids[i]
  <2>1. v \in Range(ids) /\ votes[i] = vote(i)
    BY <1>6 DEF Range
  <2>2. /\ KeyFile(files[v]) /\ files[v].identity = v
        /\ \E k \in DOMAIN VerifierOrder : VerifierOrder[k] = v
    BY <1>4, <2>1, NodeReads
  <2>3. Attestation(vote(i))
    BY <1>3, <2>2, MadeAttestation
  <2>4. vote(i).body.verifier_id = files[v].identity
    BY DEF attest, attestation_body
  <2> HIDE DEF vote, votes, v
  <2> QED BY <2>1, <2>2, <2>3, <2>4
<1>8. Receipt(r)
  <2>1. DOMAIN votes = 1 .. n
    BY <1>6
  <2> HIDE DEF votes
  <2> QED BY <1>3, <1>7, <2>1, AssembledReceipt
<1>9. memory'[p]["receipt"] = r
  <2> HIDE DEF cast
  <2> QED BY <1>2, <1>4, Assigned
<1> QED BY <1>8, <1>9

(* Every operation gives its variable a document of the model.             *)
LEMMA SetModels ==
    ASSUME Placed, FrozenShape, now \in Instants, OwnerInv, ModelInv,
           NEW p \in Process, Goes(p), instruction(p)[1] \in Setters
    PROVE  LET n == instruction(p)[2] IN Modelled(n, memory'[p][n])
<1> DEFINE i == instruction(p)
           op == i[1]
           n == i[2]
<1>1. i \in Instructions
  BY DEF Goes, Moves
<1>2. CASE op \in {"load", "generate"}
  BY <1>2, LoadModels, GenerateModels
<1>3. CASE op \in {"bundle", "accelerate"}
  <2>1. n = "trust"
    BY <1>1, <1>3, Named
  <2> QED BY <1>3, <2>1, BundleModels, AccelerateModels
<1>4. CASE op \in {"bell", "workload"}
  <2>1. n = "experiment"
    BY <1>1, <1>4, Named
  <2>2. memory'[p]["experiment"] \in Experiment \cup AerExperiment
    BY <1>4, BellModels, WorkloadModels
  <2> QED BY <2>1, <2>2, VariableNames DEF Modelled
<1>5. CASE op \in {"freeze", "sign", "issue"}
  <2>1. /\ op = "freeze" => n = "intent"
        /\ op = "sign" => n = "request"
        /\ op = "issue" => n = "header"
    BY <1>1, Named
  <2>2. /\ op = "freeze" => Intent(memory'[p]["intent"])
        /\ op = "sign" => SignedIntent(memory'[p]["request"])
        /\ op = "issue" => Header(memory'[p]["header"])
    BY FreezeModels, SignModels, IssueModels
  <2> QED BY <1>5, <2>1, <2>2, VariableNames DEF Modelled
<1>6. CASE op \in {"attest", "run"}
  <2>1. /\ op = "attest" => n = "receipt"
        /\ op = "run" => n = "result"
    BY <1>1, Named
  <2>2. /\ op = "attest" => Receipt(memory'[p]["receipt"])
        /\ op = "run" => ResultRecord(memory'[p]["result"])
    BY AttestModels, RunModels
  <2> QED BY <1>6, <2>1, <2>2, VariableNames DEF Modelled
<1>7. CASE op \in {"preflight", "construct", "summarize"}
  <2>1. n \in {"adapter", "summary"}
    BY <1>1, <1>7, Named
  <2> QED BY <2>1, VariableNames DEF Modelled
<1> HIDE DEF i, op, n
<1>8. op \in Setters
  BY DEF op, i
<1> QED BY <1>2, <1>3, <1>4, <1>5, <1>6, <1>7, <1>8 DEF Setters, op, n, i

(* What execute() admits has been parsed, and its trust was read or made.  *)
LEMMA HeldGoes ==
    ASSUME FrozenShape, ModelInv, NEW p \in Process, Goes(p)
    PROVE  HeldModelled'
<1> DEFINE i == instruction(p)
           call == [request |-> memory[p].request,
                    receipt |-> memory[p].receipt, trust |-> memory[p].trust]
<1>1. Step(p) /\ Moves(p, i) /\ Frame(p, i) /\ Alone(p)
  BY DEF Goes
<1>2. executing = [q \in Process |-> executing[q]]
  BY DEF FrozenShape
<1>3. CASE i[1] = "admit"
  <2>1. Admit(p)
    BY <1>1, <1>3, ActionAt
  <2>2. SignedIntent(memory[p].request) /\ Receipt(memory[p].receipt)
        /\ executing' = [executing EXCEPT ![p] = call]
    BY <2>1 DEF Admit
  <2>3. TrustBundle(memory[p].trust)
    <3>1. Knows(p, has("trust")) /\ "trust" \in Local
      BY <1>1, <1>3, Needed, VariableNames
    <3> QED BY <3>1 DEF ModelInv, VariablesModelled, Modelled
  <2>4. \A q \in Process : executing'[q] = IF q = p THEN call
                                           ELSE executing[q]
    BY <1>2, <2>2
  <2>5. /\ call.request = memory[p].request
        /\ call.receipt = memory[p].receipt /\ call.trust = memory[p].trust
    OBVIOUS
  <2> HIDE DEF call
  <2> QED BY <2>2, <2>3, <2>4, <2>5 DEF ModelInv, HeldModelled
<1>4. CASE i[1] = "run"
  <2>1. \E answer \in Answer : Run(p, answer) \/ RunFails(p, answer)
    BY <1>1, <1>4, ActionAt
  <2>2. executing' = [executing EXCEPT ![p] = Nothing]
    BY <2>1 DEF Run, RunFails, Exit
  <2>3. \A q \in Process : executing'[q] = IF q = p THEN Nothing
                                           ELSE executing[q]
    BY <1>2, <2>2
  <2> QED BY <2>3 DEF ModelInv, HeldModelled
<1>5. CASE i[1] \notin {"admit", "run"}
  <2>1. executing' = executing
    BY <1>1, <1>5 DEF Frame
  <2> QED BY <2>1 DEF ModelInv, HeldModelled
<1> QED BY <1>3, <1>4, <1>5

(* The first instruction of provision().                                   *)
LEMMA RequiresNew ==
    ASSUME NEW p, Step(p), instruction(p)[1] = "require new"
    PROVE  RequireNew(p)
<1> USE DEF At
<1>1. CASE Load(p) \/ Open(p) \/ Fill(p) \/ RequireNew(p) \/ Mkdir(p)
  BY <1>1 DEF Load, Open, Fill, Mkdir
<1>2. CASE \/ \E identity \in Range(Identities) : Generate(p, identity)
           \/ Bundle(p) \/ Bell(p) \/ Accelerate(p) \/ Workload(p)
  BY <1>2 DEF Generate, Bundle, Bell, Accelerate, Workload
<1>3. CASE Freeze(p) \/ Sign(p) \/ Issue(p) \/ Attest(p)
  BY <1>3 DEF Freeze, Sign, Issue, Attest
<1>4. CASE Preflight(p) \/ Construct(p) \/ Summarize(p) \/ Admit(p)
  BY <1>4 DEF Preflight, Construct, Summarize, Admit
<1>5. CASE \E answer \in Answer : Run(p, answer) \/ RunFails(p, answer)
  BY <1>5 DEF Run, RunFails, Simulate
<1>6. CASE Inspect(p) \/ Verify(p) \/ VerifyResult(p)
  BY <1>6 DEF Inspect, Verify, VerifyResult, Check
<1>7. CASE TryAltered(p) \/ TryReplay(p)
  BY <1>7 DEF TryAltered, TryReplay, Try
<1> QED BY <1>1, <1>2, <1>3, <1>4, <1>5, <1>6, <1>7 DEF Step

(* Trust is what it was, unless the instruction at hand replaces it.       *)
LEMMA SameTrust ==
    ASSUME NEW p \in Process, Goes(p),
           \/ instruction(p)[2] # "trust"
           \/ instruction(p)[1] \notin {"load", "bundle", "accelerate"}
    PROVE  memory'[p].trust = memory[p].trust
<1>1. instruction(p) \notin Trusts
  BY DEF Trusts
<1> QED BY <1>1, TrustStays

(* An experiment that is read, or made, is of the schema its trust asks.   *)
LEMMA ExperimentFits ==
    ASSUME Placed, FrozenShape, PolicyInv, ModelInv,
           NEW p \in Process, Goes(p), instruction(p)[2] = "experiment",
           instruction(p)[1] \in {"load", "bell", "workload"}
    PROVE  Matches(memory'[p].experiment, memory'[p].trust)
<1> DEFINE i == instruction(p)
           trust == memory[p].trust
<1>1. Moves(p, i) /\ i \in Instructions /\ command[p] # Idle
  BY DEF Goes, Moves
<1>2. memory'[p].trust = trust
  BY SameTrust
<1>3. CASE i[1] = "load"
  BY <1>2, <1>3, LoadModels
<1>4. CASE i[1] = "bell"
  <2>1. Knows(p, builtin)
    BY <1>1, <1>4, Needed
  <2>2. trust.policy.schema_version = 1
    BY <2>1 DEF ModelInv, CommandFits
  <2>3. memory'[p]["experiment"] \in Experiment
    BY <1>4, BellModels
  <2> QED BY <1>2, <2>2, <2>3 DEF Matches
<1>5. CASE i[1] = "workload"
  <2>1. i = worked
    BY <1>1, <1>5, Named DEF worked
  <2>2. Latest(p, accelerated, Trusts)
    BY <1>1, <2>1, OrderlyAt
  <2>3. Accelerated(command[p], trust)
    BY <2>2 DEF PolicyInv
  <2>4. trust.policy.schema_version = 2
    BY <2>3, AcceleratedFields DEF Accelerated
  <2>5. memory'[p]["experiment"] \in AerExperiment
    BY <1>5, WorkloadModels
  <2> QED BY <1>2, <2>4, <2>5 DEF Matches
<1> QED BY <1>3, <1>4, <1>5

(* What fits goes on to fit, for the command that takes the step, ...      *)
LEMMA CommandFitsOn ==
    ASSUME Placed, FrozenShape, PolicyInv, ModelInv,
           NEW p \in Process, Goes(p)
    PROVE  CommandFits(p)'
<1> DEFINE i == instruction(p)
<1>1. /\ Step(p) /\ Moves(p, i) /\ Frame(p, i) /\ i \in Instructions
      /\ command' = command
  BY DEF Goes, Moves
<1>2. CommandFits(p)
  BY DEF ModelInv
<1>3. ASSUME NEW v, Knows(p, v)'
      PROVE  Gives(i, v) \/ (Knows(p, v) /\ ~ Kills(i, v))
  BY <1>1, <1>3 DEF Moves
<1>4. ASSUME Knows(p, vetted)' PROVE quorum(command'[p]) \in {2, 3}
  <2>1. CASE Gives(i, vetted)
    <3>1. i[1] = "require new"
      BY <2>1, GivenBy
    <3>2. RequireNew(p)
      BY <1>1, <3>1, RequiresNew
    <3> QED BY <1>1, <3>2 DEF RequireNew
  <2>2. CASE Knows(p, vetted)
    BY <1>1, <1>2, <2>2 DEF CommandFits
  <2> QED BY <1>3, <1>4, <2>1, <2>2
<1>5. ASSUME Knows(p, builtin)'
      PROVE  memory'[p].trust.policy.schema_version = 1
  <2>1. CASE Gives(i, builtin)
    <3>1. i[1] = "bundle"
      BY <2>1, GivenBy
    <3> QED BY <3>1, BundleModels
  <2>2. CASE Knows(p, builtin) /\ ~ Kills(i, builtin)
    <3>1. memory'[p].trust = memory[p].trust
      BY <2>2, SameTrust DEF Kills
    <3> QED BY <1>2, <2>2, <3>1 DEF CommandFits
  <2> QED BY <1>3, <1>5, <2>1, <2>2
<1>6. ASSUME Knows(p, fits)'
      PROVE  Matches(memory'[p].experiment, memory'[p].trust)
  <2> DEFINE sets == i[2] = "experiment" /\ i[1] \in {"load", "bell",
                                                      "workload"}
  <2>1. CASE sets
    BY <2>1, ExperimentFits
  <2>2. CASE ~ sets
    <3>1. Knows(p, fits) /\ ~ Kills(i, fits)
      BY <1>3, <1>6, <2>2, GivenBy
    <3>2. memory'[p].trust = memory[p].trust
      BY <3>1, SameTrust DEF Kills
    <3>3. memory'[p]["experiment"] = memory[p]["experiment"]
      <4>1. "experiment" \in Local
        BY VariableNames
      <4>2. \/ memory'[p]["experiment"] = memory[p]["experiment"]
            \/ i[1] \in Setters /\ i[2] = "experiment"
        BY <1>1, <4>1 DEF Frame
      <4> QED BY <1>1, <2>2, <4>2, SetBy
    <3> QED BY <1>2, <3>1, <3>2, <3>3 DEF CommandFits
  <2> QED BY <2>1, <2>2
<1> QED BY <1>4, <1>5, <1>6 DEF CommandFits

(* ... and for all others.                                                 *)
LEMMA AloneFits ==
    ASSUME NEW p \in Process, Alone(p), NEW q \in Process \ {p},
           CommandFits(q)
    PROVE  CommandFits(q)'
<1>1. {"trust", "experiment"} \subseteq Local
  BY VariableNames
<1>2. /\ command'[q] = command[q]
      /\ memory'[q].trust = memory[q].trust
      /\ memory'[q].experiment = memory[q].experiment
      /\ \A v : Knows(q, v)' <=> Knows(q, v)
  BY <1>1 DEF Alone
<1> QED BY <1>2 DEF CommandFits

(* A command that goes on makes documents of their models of documents of  *)
(* their models.                                                           *)
LEMMA ModelGoes ==
    ASSUME Placed, FrozenShape, now \in Instants, OwnerInv, PolicyInv,
           ModelInv, NEW p \in Process, Goes(p)
    PROVE  ModelInv'
<1>1. VariablesModelled'
  <2> SUFFICES ASSUME NEW q \in Process, NEW n \in Local, Knows(q, has(n))'
               PROVE  Modelled(n, memory'[q][n])
    BY DEF VariablesModelled, Modelled
  <2>1. CASE q = p /\ instruction(p)[1] \in Setters /\ instruction(p)[2] = n
    BY <2>1, SetModels
  <2>2. CASE Knows(q, has(n)) /\ memory'[q][n] = memory[q][n]
    BY <2>2 DEF ModelInv, VariablesModelled
  <2> QED BY <2>1, <2>2, Variable
<1>2. HeldModelled'
  BY HeldGoes
<1>3. \A q \in Process : CommandFits(q)'
  <2>1. CommandFits(p)'
    BY CommandFitsOn
  <2>2. \A q \in Process \ {p} : CommandFits(q)'
    BY AloneFits DEF Goes, ModelInv
  <2> QED BY <2>1, <2>2
<1> QED BY <1>1, <1>2, <1>3 DEF ModelInv

(* Who waits, begins or ends makes no document.                            *)
LEMMA ModelRests ==
    ASSUME ModelInv, Waiting \/ \E p \in Process : Begins(p) \/ Ends(p)
    PROVE  ModelInv'
<1>1. CASE Waiting
  <2>1. /\ \A o, v : Knows(o, v)' <=> Knows(o, v)
        /\ UNCHANGED <<command, memory, executing>>
    BY <1>1, Waits DEF Waiting
  <2>2. VariablesModelled' /\ HeldModelled'
    BY <2>1 DEF ModelInv, VariablesModelled, HeldModelled, Modelled
  <2>3. \A q \in Process : CommandFits(q)'
    BY <2>1 DEF ModelInv, CommandFits
  <2> QED BY <2>2, <2>3 DEF ModelInv
<1>2. ASSUME NEW p \in Process, Begins(p) \/ Ends(p) PROVE ModelInv'
  <2>1. /\ Alone(p)
        /\ executing'[p] = executing[p] \/ executing'[p] = Nothing
    BY <1>2 DEF Begins, Ends
  <2>2. \A v : Knows(p, v)' => v \in Blank
    BY <1>2 DEF Begins, Ends
  <2>3. /\ \A n : ~ Knows(p, has(n))'
        /\ ~ Knows(p, vetted)' /\ ~ Knows(p, builtin)' /\ ~ Knows(p, fits)'
    BY <2>2 DEF Blank, own, none, has, vetted, builtin, fits
  <2>4. VariablesModelled'
    BY <2>1, <2>3 DEF ModelInv, VariablesModelled, Modelled, Alone
  <2>5. HeldModelled'
    BY <2>1 DEF ModelInv, HeldModelled, Alone
  <2>6. CommandFits(p)'
    BY <2>3 DEF CommandFits
  <2>7. \A q \in Process \ {p} : CommandFits(q)'
    BY <2>1, AloneFits DEF ModelInv
  <2> QED BY <2>4, <2>5, <2>6, <2>7 DEF ModelInv
<1> QED BY <1>1, <1>2

(* Every step keeps the documents in their models.                         *)
LEMMA ModelStep ==
    ASSUME Placed, FrozenShape, Shape, OwnerInv, PolicyInv, ModelInv,
           [Next]_vars
    PROVE  ModelInv'
<1>1. now \in Instants
  BY DEF Shape
<1> QED BY <1>1, ModelGoes, ModelRests, Progress

(* At first nothing has a value.                                           *)
LEMMA ModelInitial == Init => ModelInv
<1> SUFFICES ASSUME Init PROVE ModelInv
  OBVIOUS
<1>1. /\ \A p \in Process : command[p] = Idle
      /\ \A p \in Process : executing[p] = Nothing
  BY DEF Init
<1>2. \A p \in Process : \A v : ~ Knows(p, v)
  BY <1>1 DEF Knows
<1> QED BY <1>1, <1>2 DEF ModelInv, VariablesModelled, HeldModelled,
                          CommandFits

(* Whatever the files hold and whoever replaces them meanwhile: what a     *)
(* command holds in a variable its code relies on is a document of that    *)
(* variable's model (freeze, sign_intent, new_header, attest, assemble and *)
(* execute make valid documents of valid ones), trust passes               *)
(* trust_snapshot, and an experiment that will be written beside it is of  *)
(* the schema the policy asks for.                                         *)
THEOREM DocumentsModelled == Spec => []ModelInv
<1>1. WorkspaceInv /\ FrozenInv /\ (Placed /\ IssuedInv) /\ OwnerInv
      /\ PolicyInv /\ ModelInv /\ [Next]_vars => ModelInv'
  BY ModelStep DEF WorkspaceInv, FrozenInv
<1> QED BY <1>1, ModelInitial, WorkspaceInvariant, FrozenInvariant,
        ProgramInvariant, ProvisionedOnce, PoliciesProvisioned, PTL DEF Spec

(* What a command writes is within the document model of its readers, and  *)
(* an experiment is of the schema that the writer's own trust asks for.    *)
THEOREM WrittenDocumentsReadable == Spec => []WritesReadable
<1>1. Placed /\ ModelInv => WritesReadable
  <2> SUFFICES ASSUME Placed, ModelInv, NEW p \in Process, At(p, "fill")
               PROVE  LET name == instruction(p)[2]
                      IN  accepts(name, memory[p][name], memory[p].trust)
    BY DEF WritesReadable
  <2> DEFINE i == instruction(p)
             n == i[2]
  <2>1. command[p] # Idle /\ i[1] = "fill"
    BY DEF At
  <2>2. i \in Instructions /\ \A v : Needs(i, v) => Knows(p, v)
    BY <2>1, AtInstruction
  <2>3. n \in File /\ n \in Local /\ i = <<"fill", n>>
    BY <2>1, <2>2, Named, VariableNames
  <2>4. Modelled(n, memory[p][n])
    <3>1. Needs(i, has(n))
      BY <2>1 DEF Needs
    <3> QED BY <2>2, <2>3, <3>1 DEF ModelInv, VariablesModelled
  <2>5. n = "experiment" => Matches(memory[p][n], memory[p].trust)
    <3> SUFFICES ASSUME n = "experiment"
                 PROVE  Matches(memory[p].experiment, memory[p].trust)
      OBVIOUS
    <3>1. Needs(i, fits)
      BY <2>3 DEF Needs
    <3> QED BY <2>2, <3>1 DEF ModelInv, CommandFits
  <2> QED BY <2>3, <2>4, <2>5, ModelledAccepted
<1> QED BY <1>1, ProgramInvariant, DocumentsModelled, PTL

=============================================================================

-------------------------- MODULE DeploymentProofs --------------------------
(***************************************************************************)
(* Proofs about the deployment tasks, for every set of tasks the operator  *)
(* runs, on either network or on both, and however often he stops them.    *)
(*                                                                         *)
(* The argument has four parts.  What a task does is in order from its     *)
(* beginning: it registers what it deployed before, predicts what it       *)
(* exported before, and sends one transaction at most without waiting for  *)
(* it.  What a script waits for is the last transaction of its signer, the *)
(* one of its step, so that it goes on because that very transaction was   *)
(* mined.  No contract is ever registered both as the token's proxy and as *)
(* the vault's, and no two creations go to one address, so that what is    *)
(* upgraded is never the vault.  And initialization, position by position, *)
(* finds what the calls before it set up, the upgrade that is still on its *)
(* way included: that one cannot fail any more once it was sent.           *)
(***************************************************************************)
EXTENDS Deployment, SequenceTheorems, FiniteSetTheorems, TLAPS

\* The networks the registry has entries for.
BothNetworks == {"testnet", "oasys"}

\* The calls the tasks send, by the signer who sends them.
CallsOfDeployer ==
    {"initializeToken", "initializeProxyOnly", "upgradeToken", "initializeVault",
     "initializeVesting", "transferOwnership", "transferVestingOwner"}
CallsOfVestingOwner == {"withdraw", "transferToTreasury"}
Calls == CallsOfDeployer \cup CallsOfVestingOwner

-----------------------------------------------------------------------------
\* A sequence is empty when its length is 0.
LEMMA EmptyLen ==
    ASSUME NEW S, NEW s \in Seq(S)
    PROVE  Len(s) \in Nat /\ (s = <<>> <=> Len(s) = 0)
BY EmptySeq, LenProperties

(***************************************************************************)
(* Programs: what a task does, whatever it is.                             *)
(***************************************************************************)

\* The steps a script is made of.
Steps ==
    [do : {"deploy"}, code : Codes]
    \cup [do : {"register"}, name : Names]
    \cup [do : {"send"}, call : Calls]
    \cup [do : {"export", "predict"}, name : Exports]
    \cup {PrintSalts, Finish}

\* The codes of the contracts that are registered under a name.
CodesOf(name) ==
    CASE name = "PlmyToken"              -> {"PlmyToken", Proxy}
      [] name = "PlmyTokenImpl"          -> {"PlmyToken", "PlmyTokenV2"}
      [] name = "PalmyRewardsVaultImpl"  -> {"PalmyRewardsVault"}
      [] name = "PalmyRewardsVaultProxy" -> {Proxy}
      [] OTHER                           -> {name}

\* The entries of the two proxies.  One contract is never registered as both.
TokenEntry == "PlmyToken"
VaultEntry == "PalmyRewardsVaultProxy"
Compatible(name, other) == {name, other} # {TokenEntry, VaultEntry}

\* Between the j-th step of todo and the i-th the contract is registered, under
\* names that the i-th step may add to.
RegistersBetween(todo, j, i) ==
    \A m \in 1 .. Len(todo) : j < m /\ m < i =>
        todo[m].do = "register" /\ Compatible(todo[m].name, todo[i].name)

\* The i-th step registers what an earlier one deploys.
RegistersDeployed(todo, i) ==
    \E j \in 1 .. Len(todo) :
        /\ j < i
        /\ todo[j].do = "deploy"
        /\ todo[j].code \in CodesOf(todo[i].name)
        /\ RegistersBetween(todo, j, i)

\* The i-th step predicts the address of what an earlier one exports.
PredictsExported(todo, i) ==
    \E j \in 1 .. Len(todo) : j < i /\ todo[j] = Export(todo[i].name)

\* A script registers what it deployed before and predicts what it exported before.
WellOrdered(todo) ==
    \A i \in 1 .. Len(todo) :
        /\ todo[i].do = "register" => RegistersDeployed(todo, i)
        /\ todo[i].do = "predict"  => PredictsExported(todo, i)

\* A script has steps of these kinds.
Does(todo, kinds) == \E i \in 1 .. Len(todo) : todo[i].do \in kinds

\* The i-th step sends a transaction that the script does not wait for; a
\* script has at most one such step.
UnawaitedAt(todo, i) == todo[i].do = "send" /\ ~Awaited(todo[i].call)
OneUnawaited(todo) ==
    \A i, j \in 1 .. Len(todo) : UnawaitedAt(todo, i) /\ UnawaitedAt(todo, j) => i = j

\* What is left of token-initialization.
IsInitialization(todo) ==
    /\ Len(todo) <= 8
    /\ \A i \in 1 .. Len(todo) : todo[i] = TokenInitialization[8 - Len(todo) + i]

\* Scripts that export, that deploy, and that send.
Exporting == {todo \in Seq(Steps) :
    /\ todo # <<>>
    /\ WellOrdered(todo)
    /\ ~Does(todo, {"deploy", "register", "send", "print", "finish"})}
Deploying == {todo \in Seq(Steps) :
    /\ todo # <<>>
    /\ WellOrdered(todo)
    /\ ~Does(todo, {"export", "predict", "send", "print", "finish"})}

\* Two scripts in order, one after the other, are in order.
LEMMA WellOrderedConcat ==
    ASSUME NEW s \in Seq(Steps), NEW t \in Seq(Steps), WellOrdered(s), WellOrdered(t)
    PROVE  WellOrdered(s \o t)
<1> DEFINE st == s \o t
<1>1. /\ st \in Seq(Steps)
      /\ Len(st) = Len(s) + Len(t)
      /\ \A i \in 1 .. Len(s) : st[i] = s[i]
      /\ \A i \in 1 .. Len(t) : st[Len(s) + i] = t[i]
      /\ Len(s) \in Nat /\ Len(t) \in Nat
    BY ConcatProperties
<1> HIDE DEF st
<1>2. ASSUME NEW i \in 1 .. Len(st), i <= Len(s)
      PROVE  /\ st[i].do = "register" => RegistersDeployed(st, i)
             /\ st[i].do = "predict"  => PredictsExported(st, i)
  <2>1. i \in 1 .. Len(s) /\ st[i] = s[i]
      BY <1>1, <1>2
  <2>2. CASE st[i].do = "register"
    <3>1. PICK j \in 1 .. Len(s) :
            /\ j < i
            /\ s[j].do = "deploy"
            /\ s[j].code \in CodesOf(s[i].name)
            /\ RegistersBetween(s, j, i)
        BY <2>1, <2>2 DEF WellOrdered, RegistersDeployed
    <3>2. j \in 1 .. Len(st) /\ st[j] = s[j]
        BY <1>1
    <3>3. RegistersBetween(st, j, i)
        BY <1>1, <1>2, <2>1, <3>1 DEF RegistersBetween
    <3> QED BY <2>1, <2>2, <3>1, <3>2, <3>3 DEF RegistersDeployed
  <2>3. CASE st[i].do = "predict"
    <3>1. PICK j \in 1 .. Len(s) : j < i /\ s[j] = Export(s[i].name)
        BY <2>1, <2>3 DEF WellOrdered, PredictsExported
    <3> QED BY <1>1, <2>1, <2>3, <3>1 DEF PredictsExported
  <2> QED BY <2>2, <2>3
<1>3. ASSUME NEW i \in 1 .. Len(t)
      PROVE  /\ st[Len(s) + i].do = "register" => RegistersDeployed(st, Len(s) + i)
             /\ st[Len(s) + i].do = "predict"  => PredictsExported(st, Len(s) + i)
  <2>1. st[Len(s) + i] = t[i]
      BY <1>1
  <2>2. CASE st[Len(s) + i].do = "register"
    <3>1. PICK j \in 1 .. Len(t) :
            /\ j < i
            /\ t[j].do = "deploy"
            /\ t[j].code \in CodesOf(t[i].name)
            /\ RegistersBetween(t, j, i)
        BY <2>1, <2>2 DEF WellOrdered, RegistersDeployed
    <3>2. /\ Len(s) + j \in 1 .. Len(st)
          /\ Len(s) + j < Len(s) + i
          /\ st[Len(s) + j] = t[j]
        BY <1>1, <3>1
    <3>3. ASSUME NEW m \in 1 .. Len(st), Len(s) + j < m, m < Len(s) + i
          PROVE  st[m].do = "register" /\ Compatible(st[m].name, st[Len(s) + i].name)
      <4> DEFINE n == m - Len(s)
      <4>1. n \in 1 .. Len(t) /\ j < n /\ n < i /\ m = Len(s) + n
          BY <1>1, <3>3
      <4>2. st[m] = t[n]
          BY <1>1, <4>1
      <4> HIDE DEF n
      <4> QED BY <2>1, <3>1, <4>1, <4>2 DEF RegistersBetween
    <3>4. RegistersBetween(st, Len(s) + j, Len(s) + i)
        BY <3>3 DEF RegistersBetween
    <3> QED BY <2>1, <2>2, <3>1, <3>2, <3>4 DEF RegistersDeployed
  <2>3. CASE st[Len(s) + i].do = "predict"
    <3>1. PICK j \in 1 .. Len(t) : j < i /\ t[j] = Export(t[i].name)
        BY <2>1, <2>3 DEF WellOrdered, PredictsExported
    <3>2. /\ Len(s) + j \in 1 .. Len(st)
          /\ Len(s) + j < Len(s) + i
          /\ st[Len(s) + j] = t[j]
        BY <1>1, <3>1
    <3> QED BY <2>1, <2>3, <3>1, <3>2 DEF PredictsExported
  <2> QED BY <2>2, <2>3
<1>4. ASSUME NEW i \in 1 .. Len(st), i > Len(s)
      PROVE  i - Len(s) \in 1 .. Len(t) /\ i = Len(s) + (i - Len(s))
    BY <1>1, <1>4
<1> QED BY <1>1, <1>2, <1>3, <1>4 DEF WellOrdered, st

\* One export after the other is a script that exports, and one deployment after
\* the other is one that deploys.
LEMMA ScriptsConcat ==
    ASSUME NEW kinds, NEW s \in Seq(Steps), NEW t \in Seq(Steps),
           ~Does(s, kinds), ~Does(t, kinds)
    PROVE  ~Does(s \o t, kinds)
<1> DEFINE st == s \o t
<1>1. /\ st \in Seq(Steps)
      /\ Len(st) = Len(s) + Len(t)
      /\ \A i \in 1 .. Len(st) : st[i] = IF i <= Len(s) THEN s[i] ELSE t[i - Len(s)]
      /\ Len(s) \in Nat /\ Len(t) \in Nat
    BY ConcatProperties
<1> HIDE DEF st
<1>2. ASSUME NEW i \in 1 .. Len(st) PROVE st[i].do \notin kinds
  <2>1. CASE i <= Len(s)
      BY <1>1, <2>1 DEF Does
  <2>2. CASE i > Len(s)
    <3>1. i - Len(s) \in 1 .. Len(t)
        BY <1>1, <2>2
    <3> QED BY <1>1, <2>2, <3>1 DEF Does
  <2> QED BY <1>1, <2>1, <2>2
<1> QED BY <1>2 DEF Does, st

\* Two exports, one after the other, are an export, and so with deployments.
LEMMA ExportingConcat ==
    ASSUME NEW s \in Exporting, NEW t \in Exporting
    PROVE  s \o t \in Exporting
<1>1. /\ s \in Seq(Steps) /\ t \in Seq(Steps)
      /\ WellOrdered(s) /\ WellOrdered(t)
    BY DEF Exporting
<1>2. WellOrdered(s \o t)
    BY <1>1, WellOrderedConcat
<1>3. ~Does(s \o t, {"deploy", "register", "send", "print", "finish"})
    BY <1>1, ScriptsConcat DEF Exporting
<1>4. s \o t \in Seq(Steps) /\ s \o t # <<>>
    BY <1>1, ConcatProperties, ConcatEqualIffEmpty DEF Exporting
<1> QED BY <1>2, <1>3, <1>4 DEF Exporting

LEMMA DeployingConcat ==
    ASSUME NEW s \in Deploying, NEW t \in Deploying
    PROVE  s \o t \in Deploying
<1>1. /\ s \in Seq(Steps) /\ t \in Seq(Steps)
      /\ WellOrdered(s) /\ WellOrdered(t)
    BY DEF Deploying
<1>2. WellOrdered(s \o t)
    BY <1>1, WellOrderedConcat
<1>3. ~Does(s \o t, {"export", "predict", "send", "print", "finish"})
    BY <1>1, ScriptsConcat DEF Deploying
<1>4. s \o t \in Seq(Steps) /\ s \o t # <<>>
    BY <1>1, ConcatProperties, ConcatEqualIffEmpty DEF Deploying
<1> QED BY <1>2, <1>3, <1>4 DEF Deploying

\* saveDeploymentCallData exports before it predicts.
LEMMA SavingExports ==
    ASSUME NEW name \in Exports
    PROVE  SaveDeploymentCallData(name) \in Exporting
BY DEF SaveDeploymentCallData, Exporting, Steps, WellOrdered, Does, RegistersDeployed,
       RegistersBetween, PredictsExported, Export, Predict

\* deployContract and deployToOasysTestnet deploy before they register, and so
\* does the one with a second registration after it.
LEMMA CreatingDeploys ==
    ASSUME NEW code \in Codes, NEW name \in Names, code \in CodesOf(name)
    PROVE  DeployToTestnet(name, code) \in Deploying
BY DEF DeployToTestnet, Deploying, Steps, WellOrdered, Does, RegistersDeployed,
       RegistersBetween, Deploy, Register

\* What deploys a contract and registers it under two names is a deployment.
LEMMA CreatingDeploysTwice ==
    ASSUME NEW code \in Codes, NEW name \in Names, code \in CodesOf(name),
           code \in Names, code \in CodesOf(code), Compatible(code, name)
    PROVE  DeployContractAs(code, name) \in Deploying
<1>1. <<Deploy(code), Register(code), Register(name)>> \in Seq(Steps)
  <2>1. Deploy(code) \in Steps /\ Register(code) \in Steps /\ Register(name) \in Steps
      BY DEF Steps, Deploy, Register
  <2> QED BY <2>1
<1> DEFINE t == <<Deploy(code), Register(code), Register(name)>>
<1>2. /\ Len(t) = 3
      /\ t[1].do = "deploy" /\ t[1].code = code
      /\ t[2].do = "register" /\ t[2].name = code
      /\ t[3].do = "register" /\ t[3].name = name
    BY DEF Deploy, Register
<1> HIDE DEF t
<1>3. RegistersDeployed(t, 2) /\ RegistersDeployed(t, 3)
  <2>1. RegistersBetween(t, 1, 2)
      BY <1>2 DEF RegistersBetween
  <2>2. RegistersBetween(t, 1, 3)
      BY <1>2 DEF RegistersBetween
  <2> QED BY <1>2, <2>1, <2>2 DEF RegistersDeployed
<1>4. WellOrdered(t) /\ ~Does(t, {"export", "predict", "send", "print", "finish"})
    BY <1>2, <1>3 DEF WellOrdered, Does
<1> QED BY <1>1, <1>2, <1>4 DEF t, Deploying, DeployContractAs

-----------------------------------------------------------------------------
\* The tasks, by what they do.
ExportTasks ==
    {"export-deploy-calldata-PlmyToken", "export-deploy-calldata-PlmyTokenV2",
     "export-deploy-calldata-PalmyRewardsVault", "export-deploy-calldata-TokenVesting"}

\* What is known of any task's script.
Orderly(on, todo) ==
    /\ todo \in Seq(Steps)
    /\ todo # <<>>
    /\ WellOrdered(todo)
    /\ OneUnawaited(todo)
    /\ on = "oasys" => ~Does(todo, {"deploy", "register"})
    /\ Does(todo, {"finish"}) => todo = TokenInitialization

\* What the export tasks do is to export.
LEMMA ExportProgram ==
    ASSUME NEW on \in BothNetworks, NEW todo \in Exporting, todo # <<>>
    PROVE  Orderly(on, todo)
BY DEF Exporting, Orderly, OneUnawaited, UnawaitedAt, Does

\* They are scripts that export, and the tasks that deploy scripts that deploy.
LEMMA ExportPrograms ==
    /\ ExportPlmyToken \in Exporting
    /\ ExportPlmyTokenV2 \in Exporting
    /\ ExportRewardsVault \in Exporting
    /\ ExportTokenVesting \in Exporting
BY SavingExports, ExportingConcat
   DEF ExportPlmyToken, ExportPlmyTokenV2, ExportRewardsVault, ExportTokenVesting, Exports

LEMMA DeployPrograms ==
    /\ DeployPlmyToken \in Deploying
    /\ DeployPlmyTokenV2 \in Deploying
    /\ DeployRewardsVault \in Deploying
    /\ OasysDeployment("testnet") \in Deploying
<1>1. /\ DeployContractAs("PlmyToken", "PlmyTokenImpl") \in Deploying
      /\ DeployContractAs("PlmyTokenV2", "PlmyTokenImpl") \in Deploying
      /\ DeployContractAs("PalmyRewardsVault", "PalmyRewardsVaultImpl") \in Deploying
      /\ DeployContractAs(Proxy, "PlmyToken") \in Deploying
      /\ DeployContractAs(Proxy, "PalmyRewardsVaultProxy") \in Deploying
    BY CreatingDeploysTwice
       DEF Codes, Names, Proxy, CodesOf, Compatible, TokenEntry, VaultEntry
<1>2. DeployPlmyTokenV2 \in Deploying
    BY <1>1 DEF DeployPlmyTokenV2
<1>3. DeployPlmyToken \in Deploying /\ DeployRewardsVault \in Deploying
    BY <1>1, DeployingConcat DEF DeployPlmyToken, DeployRewardsVault
<1>4. /\ DeployToTestnet("PlmyToken", Proxy) \in Deploying
      /\ DeployToTestnet("PlmyTokenImpl", "PlmyToken") \in Deploying
      /\ DeployToTestnet("PlmyTokenV2", "PlmyTokenV2") \in Deploying
      /\ DeployToTestnet("PalmyRewardsVaultProxy", Proxy) \in Deploying
      /\ DeployToTestnet("PalmyRewardsVault", "PalmyRewardsVault") \in Deploying
      /\ DeployToTestnet("TokenVesting", "TokenVesting") \in Deploying
    BY CreatingDeploys DEF Codes, Names, Proxy, CodesOf
<1>5. OasysDeployment("testnet") \in Deploying
    BY <1>4, DeployingConcat DEF OasysDeployment
<1> QED BY <1>2, <1>3, <1>5

\* Those are in order on testnet, where contracts may be deployed.
LEMMA DeployProgram ==
    ASSUME NEW todo \in Deploying
    PROVE  Orderly("testnet", todo)
BY DEF Deploying, Orderly, OneUnawaited, UnawaitedAt, Does

\* Scripts of one step.
LEMMA ShortProgram ==
    ASSUME NEW on \in BothNetworks,
           NEW step \in [do : {"send"}, call : Calls] \cup {PrintSalts}
    PROVE  Orderly(on, <<step>>)
<1> DEFINE t == <<step>>
<1>1. t \in Seq(Steps) /\ Len(t) = 1 /\ t[1] = step /\ t # <<>>
    BY DEF Steps
<1>2. step.do \in {"send", "print"}
    BY DEF PrintSalts
<1> HIDE DEF t
<1>3. Orderly(on, t)
    BY <1>1, <1>2 DEF Orderly, WellOrdered, OneUnawaited, Does
<1> QED BY <1>3 DEF t

\* The steps of the initialization, and of its last part.
LEMMA InitializationSteps ==
    /\ TokenInitialization \in Seq(Steps)
    /\ Len(TokenInitialization) = 8
    /\ TokenInitialization[1] = Send("initializeToken")
    /\ TokenInitialization[2] = Send("upgradeToken")
    /\ TokenInitialization[3] = Send("initializeVault")
    /\ TokenInitialization[4] = Send("initializeVesting")
    /\ TokenInitialization[5] = Send("transferOwnership")
    /\ TokenInitialization[6] = Send("withdraw")
    /\ TokenInitialization[7] = Send("transferToTreasury")
    /\ TokenInitialization[8] = Finish
<1>1. /\ InitializePlmyToken \in Seq(Steps)
      /\ UpgradePlmyToken \in Seq(Steps)
      /\ InitializeRewardsVault \in Seq(Steps)
      /\ InitializeTokenVesting \in Seq(Steps)
      /\ <<Finish>> \in Seq(Steps)
  <2>1. Finish \in Steps /\ \A call \in Calls : Send(call) \in Steps
      BY DEF Steps, Send
  <2> QED BY <2>1 DEF InitializePlmyToken, UpgradePlmyToken, InitializeRewardsVault,
                      InitializeTokenVesting, Calls, CallsOfDeployer, CallsOfVestingOwner
<1> QED
    BY <1>1, ConcatProperties
    DEF TokenInitialization, InitializePlmyToken, UpgradePlmyToken, InitializeRewardsVault,
        InitializeTokenVesting

\* Sent call by call, the first initialization leaves one transaction unawaited.
LEMMA InitializationProgram ==
    ASSUME NEW on \in BothNetworks
    PROVE  /\ Orderly(on, TokenInitialization)
           /\ ~Does(TokenInitialization, {"print"})
           /\ Orderly(on, InitializeTokenVesting)
           /\ ~Does(InitializeTokenVesting, {"print"})
<1> DEFINE t == TokenInitialization
           u == InitializeTokenVesting
<1>1. /\ t \in Seq(Steps) /\ Len(t) = 8 /\ t # <<>>
      /\ \A i \in 1 .. 8 : t[i].do \in {"send", "finish"}
      /\ \A i \in 1 .. 8 : UnawaitedAt(t, i) => i = 2
  <2>1. t \in Seq(Steps) /\ Len(t) = 8 /\ t # <<>>
    <3>1. t \in Seq(Steps) /\ Len(t) = 8
        BY InitializationSteps
    <3> HIDE DEF t
    <3>2. t \in Seq(Steps) => (t = <<>> <=> Len(t) = 0)
        BY EmptyLen
    <3> QED BY <3>1, <3>2
  <2>2. /\ t[8].do = "finish" /\ t[2].do = "send"
        /\ \A i \in {1, 3, 4, 5, 6, 7} : t[i].do = "send" /\ Awaited(t[i].call)
    <3>1. /\ Awaited("initializeToken") /\ Awaited("initializeVault")
          /\ Awaited("initializeVesting") /\ Awaited("transferOwnership")
          /\ Awaited("withdraw") /\ Awaited("transferToTreasury")
        BY DEF Awaited
    <3>2. /\ t[8].do = "finish" /\ t[2].do = "send"
          /\ t[1].do = "send" /\ t[1].call = "initializeToken"
          /\ t[3].do = "send" /\ t[3].call = "initializeVault"
          /\ t[4].do = "send" /\ t[4].call = "initializeVesting"
          /\ t[5].do = "send" /\ t[5].call = "transferOwnership"
          /\ t[6].do = "send" /\ t[6].call = "withdraw"
          /\ t[7].do = "send" /\ t[7].call = "transferToTreasury"
        BY InitializationSteps DEF Send, Finish
    <3> HIDE DEF t
    <3> QED BY <3>1, <3>2
  <2>3. \A i \in 1 .. 8 : i \in {1, 3, 4, 5, 6, 7} \/ i = 2 \/ i = 8
      OBVIOUS
  <2> HIDE DEF t
  <2> QED BY <2>1, <2>2, <2>3 DEF UnawaitedAt
<1>2. \A call \in Calls : Send(call) \in Steps
    BY DEF Steps, Send
<1>3. /\ u \in Seq(Steps) /\ Len(u) = 4 /\ u # <<>>
      /\ \A i \in 1 .. 4 : u[i].do = "send" /\ Awaited(u[i].call)
    BY <1>2 DEF InitializeTokenVesting, Calls, CallsOfDeployer, CallsOfVestingOwner,
                Send, Awaited
<1> HIDE DEF t, u
<1>4. /\ WellOrdered(t) /\ OneUnawaited(t)
      /\ ~Does(t, {"deploy", "register"}) /\ ~Does(t, {"print"})
    BY <1>1 DEF WellOrdered, OneUnawaited, Does
<1>5. /\ WellOrdered(u) /\ OneUnawaited(u)
      /\ ~Does(u, {"deploy", "register"}) /\ ~Does(u, {"print"})
      /\ ~Does(u, {"finish"})
    BY <1>3 DEF WellOrdered, OneUnawaited, Does, UnawaitedAt
<1> QED BY <1>1, <1>3, <1>4, <1>5 DEF t, u, Orderly

\* What is known of the script of any task: it is in order, and but for
\* print-address-and-salt it does not print.
LEMMA ProgramsAreOrderly ==
    ASSUME NEW on \in BothNetworks, NEW task \in TasksOn[on]
    PROVE  /\ Orderly(on, Program(on, task))
           /\ task # "print-address-and-salt" => ~Does(Program(on, task), {"print"})
<1> DEFINE P == Program(on, task)
<1>1. task \in Tasks /\ (on = "oasys" => task \notin Deployments)
    BY NetworksAssumption DEF BothNetworks
<1>2. CASE task \in ExportTasks
  <2>1. P \in Exporting
      BY <1>2, ExportPrograms DEF ExportTasks, Program
  <2> QED BY <1>2, <2>1, ExportProgram DEF Exporting, Does
<1>3. CASE on = "oasys" /\ task = "oasys-deployment"
  <2>1. P \in Exporting
      BY <1>3, ExportPrograms, ExportingConcat DEF Program, OasysDeployment
  <2> QED BY <1>3, <2>1, ExportProgram DEF Exporting, Does
<1>4. CASE on = "testnet" /\ task \in Deployments \cup {"oasys-deployment"}
  <2>1. P \in Deploying
      BY <1>4, DeployPrograms DEF Program, Deployments
  <2> QED BY <1>4, <2>1, DeployProgram DEF Deploying, Does
<1>5. CASE task \in {"token-initialization", "initialize-TokenVesting"}
  <2>1. P \in {TokenInitialization, InitializeTokenVesting}
      BY <1>5 DEF Program
  <2>2. ~Does(P, {"print"})
      BY <2>1, InitializationProgram DEF Does
  <2> QED BY <2>1, <2>2, InitializationProgram
<1>6. CASE task \in {"initialize-PlmyToken", "initialize-PlmyToken --onlyProxy",
                     "upgrade-PlmyToken", "initialize-PalmyRewardsVault",
                     "transfer-vesting-owner", "print-address-and-salt"}
  <2> DEFINE OneStep(step) ==
        /\ step \in [do : {"send"}, call : Calls] \cup {PrintSalts}
        /\ P = <<step>>
        /\ task # "print-address-and-salt" => step.do = "send"
  <2>1. ASSUME task = "print-address-and-salt"
        PROVE  OneStep(PrintSalts)
      BY <2>1 DEF Program
  <2>2. ASSUME task # "print-address-and-salt"
        PROVE  \E call \in Calls : OneStep(Send(call))
    <3>1. PICK call \in Calls : P = <<Send(call)>>
      BY <1>6, <2>2
      DEF Program, InitializePlmyToken, InitializePlmyTokenOnly, UpgradePlmyToken,
          InitializeRewardsVault, TransferVestingOwner, Calls, CallsOfDeployer
    <3>2. Send(call) \in [do : {"send"}, call : Calls] /\ Send(call).do = "send"
        BY DEF Send
    <3> QED BY <3>1, <3>2
  <2>3. PICK step : OneStep(step)
    <3> HIDE DEF OneStep
    <3> QED BY <2>1, <2>2
  <2>4. step.do \in {"send", "print"}
      BY <2>3 DEF PrintSalts
  <2>5. Len(P) = 1 /\ P[1] = step
      BY <2>3
  <2>6. Orderly(on, P)
      BY <2>3, ShortProgram
  <2> HIDE DEF P
  <2>7. task # "print-address-and-salt" => ~Does(P, {"print"})
      BY <2>3, <2>4, <2>5 DEF Does
  <2> QED BY <2>6, <2>7 DEF P
<1> QED BY <1>1, <1>2, <1>3, <1>4, <1>5, <1>6 DEF Tasks, Deployments, ExportTasks, BothNetworks

-----------------------------------------------------------------------------
(***************************************************************************)
(* The invariant.                                                          *)
(***************************************************************************)

\* The transactions the tasks send, each with its signer.
Txs ==
    [call : {"create"}, from : {Deployer}, to : OnTestnet]
    \cup [call : {"initializeToken"}, from : {Deployer}, to : Contracts,
          logic : Contracts, admin : {PlmyAdmin}, vesting : Vestings]
    \cup [call : {"initializeProxyOnly"}, from : {Deployer}, to : Contracts,
          logic : Contracts, admin : Vestings]
    \cup [call : {"upgradeToken"}, from : {Deployer}, to : Contracts, logic : Contracts]
    \cup [call : {"initializeVault"}, from : {Deployer}, to : Contracts,
          logic : {c \in Contracts : c.code = "PalmyRewardsVault"}, admin : {Deployer}]
    \cup [call : {"initializeVesting"}, from : {Deployer}, to : Vestings, token : Contracts]
    \cup [call : {"transferOwnership", "transferVestingOwner"}, from : {Deployer},
          to : Vestings, newOwner : {VestingOwner, NextOwner}]
    \cup [call : {"withdraw"}, from : {VestingOwner}, to : Vestings]
    \cup [call : {"transferToTreasury"}, from : {VestingOwner}, to : Contracts,
          recipient : {Treasury}]

\* The states of a proxy, of a vesting contract and of a script.
ProxyStates ==
    [implementation : Contracts \cup {NoAddress},
     admin : People \cup Vestings \cup {NoAddress}, revision : 0 .. 2,
     token : {WOAS, NoAddress}, incentivesController : {IncentivesController, NoAddress}]
VestingStates == [token : Contracts \cup {NoAddress}, owner : People]
Scripts ==
    [todo : Seq(Steps), waitsFor : Signers \cup {NoAddress},
     created : Contracts \cup {NoAddress}, hadCode : BOOLEAN]

\* Each variable is what it is meant to be, and every queue its signer's.
StatesTyped ==
    /\ network \in BothNetworks
    /\ db \in [BothNetworks -> [Names -> Contracts \cup {NoAddress}]]
    /\ exported \subseteq Exports
    /\ deployed \subseteq Contracts
    /\ proxies \in [Proxies -> ProxyStates]
    /\ vestings \in [Vestings -> VestingStates]
    /\ distribution \in [Proxies -> Vestings \cup People \cup {NoAddress}]
    /\ pending \in [Signers -> Seq(Txs)]
    /\ \A s \in Signers : \A i \in 1 .. Len(pending[s]) : pending[s][i].from = s
    /\ script \in Scripts
    /\ runs \in Nat
    /\ stops \in 0 .. MaxStops
    /\ switches \in 0 .. MaxSwitches

\* What an entry of the registry may name: what is deployed there with a code
\* of that name, or the prediction of that name.
Known(name) ==
    {c \in deployed \cap OnTestnet : c.code \in CodesOf(name)}
    \cup {GetOasysDeploymentAddress(other) : other \in Exports \cap {name}}

\* Each entry names one of those, on either network.
RegistryKnown == \A on \in BothNetworks : \A name \in Names :
    db[on][name] \in Known(name) \cup {NoAddress}

\* Where the token's entry and the upgrades on their way lead, and where the
\* vault's entry does and did when an initialization finished.
UpgradeTargets ==
    {pending[Deployer][i].to : i \in {k \in 1 .. Len(pending[Deployer]) :
         pending[Deployer][k].call = "upgradeToken"}}
TokenTargets == {db[on][TokenEntry] : on \in BothNetworks} \cup UpgradeTargets
VaultTargets ==
    {db[on][VaultEntry] : on \in BothNetworks} \cup {f.vault : f \in finished}

\* None is of both, and all are of their entry's codes.
TargetsApart == TokenTargets \cap VaultTargets \subseteq {NoAddress}
TargetsKnown ==
    /\ TokenTargets \subseteq Known(TokenEntry) \cup {NoAddress}
    /\ VaultTargets \subseteq Known(VaultEntry) \cup {NoAddress}

\* The creations on their way to be mined, and how many contracts of a code are
\* deployed on testnet or on their way there.
IsCreation(i) == pending[Deployer][i].call = "create"
CreatedOf(code) == {c \in deployed \cap OnTestnet : c.code = code}
SentOf(code) ==
    {i \in 1 .. Len(pending[Deployer]) : IsCreation(i) /\ pending[Deployer][i].to.code = code}
CountOf(code) == Cardinality(CreatedOf(code)) + Cardinality(SentOf(code))
\* Two of them go to two addresses, neither with code; and, as no number is
\* above the count, the address of the next is new.
CreationsApart ==
    /\ \A i \in 1 .. Len(pending[Deployer]) : IsCreation(i) =>
          pending[Deployer][i].to \notin deployed
    /\ \A i, j \in 1 .. Len(pending[Deployer]) :
          IsCreation(i) /\ IsCreation(j) /\ i # j =>
              pending[Deployer][i].to # pending[Deployer][j].to
CreationsCounted ==
    /\ \A c \in deployed \cap OnTestnet : c.number <= CountOf(c.code)
    /\ \A i \in 1 .. Len(pending[Deployer]) : IsCreation(i) =>
          pending[Deployer][i].to.number <= CountOf(pending[Deployer][i].to.code)

\* What the script has just deployed may go under the name: nothing leads there
\* from the other proxy's entry.
Registrable(name) ==
    /\ script.created \in deployed \cap OnTestnet
    /\ script.created.code \in CodesOf(name)
    /\ name = TokenEntry => script.created \notin VaultTargets
    /\ name = VaultEntry => script.created \notin TokenTargets
\* What the script has exported, which counts on oasys alone.
Saved(name) == network = "oasys" => name \in exported

\* What is left of the script is in order, given what it just deployed and what
\* is exported.
ScriptOrdered ==
    \A i \in 1 .. Len(script.todo) :
        /\ script.todo[i].do = "register" =>
              \/ RegistersDeployed(script.todo, i)
              \/ RegistersBetween(script.todo, 0, i) /\ Registrable(script.todo[i].name)
        /\ script.todo[i].do = "predict" =>
              PredictsExported(script.todo, i) \/ Saved(script.todo[i].name)
\* What the script waits for is the last transaction its signer sent, and the
\* one of its step.
LastPending(s) == pending[s][Len(pending[s])]
ScriptWaits ==
    script.waitsFor # NoAddress =>
        /\ script.todo # <<>>
        /\ pending[script.waitsFor] # <<>>
        /\ \/ /\ Head(script.todo).do = "deploy"
              /\ script.waitsFor = Deployer
              /\ LastPending(Deployer) =
                    [call |-> "create", from |-> Deployer, to |-> script.created]
              /\ script.created.code = Head(script.todo).code
           \/ /\ Head(script.todo).do = "send"
              /\ Awaited(Head(script.todo).call)
              /\ LastPending(script.waitsFor) = Transaction(Head(script.todo).call)
\* A script sends one transaction at most without waiting, creates nothing on
\* oasys, and reaches the end of token-initialization in that task alone.
ScriptKnown ==
    /\ OneUnawaited(script.todo)
    /\ Does(script.todo, {"finish"}) => IsInitialization(script.todo)
    /\ script.todo = <<>> => script = Idle
    /\ network = "oasys" => ~Does(script.todo, {"deploy", "register"})

\* Whether a transaction that the script does not wait for is still to be sent,
\* and whether the one it waits for is of this signer.
Unawaited(todo) == IF \E i \in 1 .. Len(todo) : UnawaitedAt(todo, i) THEN 1 ELSE 0
WaitedOf(s)     == IF script.waitsFor = s THEN 1 ELSE 0
\* Each task and each stop leaves one transaction at most.
PendingBounded ==
    \A s \in Signers :
        Len(pending[s]) + Unawaited(script.todo) <= runs + stops + WaitedOf(s)

\* The token's proxy initialized and not upgraded, and upgraded; the vault's.
TokenFresh(token) ==
    /\ token \in Proxies
    /\ ~IsEmpty(token)
    /\ proxies[token].admin = PlmyAdmin
    /\ proxies[token].revision = 1
TokenUpgraded(token, logic) ==
    /\ token \in Proxies
    /\ logic \in Contracts
    /\ proxies[token].implementation = logic
    /\ logic.code = "PlmyTokenV2"
    /\ proxies[token].admin = PlmyAdmin
    /\ proxies[token].revision = 2
VaultInitialized(vault) ==
    /\ vault \in Proxies
    /\ proxies[vault].implementation \in Contracts
    /\ proxies[vault].implementation.code = "PalmyRewardsVault"
    /\ proxies[vault].incentivesController = IncentivesController

\* The upgrade that is sent and not waited for, which cannot fail any more.
UpgradeOf(token, logic) ==
    [call |-> "upgradeToken", from |-> Deployer, to |-> token, logic |-> logic]
UpgradePending(token, logic) ==
    /\ TokenFresh(token)
    /\ PlmyAdmin = Deployer
    /\ token \in WithCode /\ logic \in WithCode
    /\ logic.code = "PlmyTokenV2"
    /\ pending[Deployer] # <<>>
    /\ Head(pending[Deployer]) = UpgradeOf(token, logic)

\* The deployer has so many transactions unmined, beside one the script waits for.
PendingAre(n) == Len(pending[Deployer]) = n + WaitedOf(Deployer)

\* The step of token-initialization that the script is at.
Position == 9 - Len(script.todo)

\* What token-initialization has set up when it comes to its p-th step.
Reached(p, token, logic, vesting, vault) ==
    /\ p = 2 => TokenFresh(token) /\ PendingAre(0)
    /\ p = 3 => \/ UpgradePending(token, logic) /\ PendingAre(1)
                \/ TokenUpgraded(token, logic) /\ PendingAre(0)
    /\ p \in 4 .. 8 => /\ TokenUpgraded(token, logic)
                       /\ VaultInitialized(vault)
                       /\ PendingAre(0)
    /\ p \in 5 .. 8 => vesting \in Vestings /\ vestings[vesting].token = token
    /\ p \in 6 .. 8 => vestings[vesting].owner = VestingOwner
    /\ p = 8 => distribution[token] = Treasury
\* An initialization runs that began when all that is registered had code; it
\* has reached what its position needs.
Initializing == Does(script.todo, {"finish"}) /\ script.hadCode
Progress ==
    Initializing =>
        /\ RegisteredHaveCode
        /\ Reached(Position, Entry("PlmyToken"), Entry("PlmyTokenV2"),
                   Entry("TokenVesting"), Entry("PalmyRewardsVaultProxy"))

\* What initializations that finished had set up.
FinishedOnes ==
    \A f \in finished : f.hadCode =>
        /\ TokenUpgraded(f.token, f.logic)
        /\ VaultInitialized(f.vault)
        /\ distribution[f.token] = Treasury
        /\ f.vesting \in Vestings
        /\ vestings[f.vesting] = [token |-> f.token, owner |-> VestingOwner]

\* The entries of oasys are the predictions of what was exported.
OasysPredicted == \A name \in Names : db["oasys"][name] # NoAddress =>
    /\ name \in exported
    /\ db["oasys"][name] = GetOasysDeploymentAddress(name)

\* The operator prints the salts, if at all, in a registry of one network.
NetworksKeptApart ==
    \/ MaxSwitches = 0
    \/ \A on \in BothNetworks : "print-address-and-salt" \notin TasksOn[on]

\* Then the entries of testnet name contracts that are deployed.
TestnetDeployed ==
    /\ RegisteredAreDeployed
    /\ (\A on \in BothNetworks : "print-address-and-salt" \notin TasksOn[on]) =>
          ~Does(script.todo, {"print"})
    /\ MaxSwitches = 0 => \A on \in BothNetworks \ {network} : \A name \in Names :
          db[on][name] = NoAddress

\* The inductive invariant.
Inv ==
    /\ StatesTyped
    /\ RegistryKnown /\ TargetsKnown /\ TargetsApart
    /\ CreationsApart /\ CreationsCounted
    /\ ScriptOrdered /\ ScriptWaits /\ ScriptKnown
    /\ PendingBounded
    /\ Progress
    /\ FinishedOnes

-----------------------------------------------------------------------------
\* A script that goes on is one without its first step, that waits for nothing.
LEMMA AdvanceFacts ==
    ASSUME script \in Scripts, script.todo # <<>>
    PROVE  /\ Advance \in Scripts
           /\ Advance.todo = Tail(script.todo)
           /\ Advance.waitsFor = NoAddress
           /\ Advance.todo = <<>> => Advance = Idle
           /\ Advance.todo # <<>> => /\ Advance.created = script.created
                                     /\ Advance.hadCode = script.hadCode
<1>1. script.todo \in Seq(Steps) /\ Len(script.todo) \in Nat
    BY DEF Scripts
<1>2. /\ Len(Tail(script.todo)) = Len(script.todo) - 1
      /\ Tail(script.todo) \in Seq(Steps)
      /\ Tail(script.todo) = <<>> <=> Len(Tail(script.todo)) = 0
  <2>1. Tail(script.todo) \in Seq(Steps) /\ Len(Tail(script.todo)) = Len(script.todo) - 1
      BY <1>1, HeadTailProperties
  <2> DEFINE rest == Tail(script.todo)
  <2> HIDE DEF rest
  <2>2. rest \in Seq(Steps) => (rest = <<>> <=> Len(rest) = 0)
      BY EmptyLen
  <2> QED BY <2>1, <2>2 DEF rest
<1>3. CASE Len(script.todo) = 1
  <2>1. Tail(script.todo) = <<>>
      BY <1>2, <1>3
  <2>2. <<>> \in Seq(Steps)
      BY EmptySeq
  <2>3. Idle \in Scripts
      BY <2>2 DEF Idle, Scripts
  <2> QED BY <1>3, <2>1, <2>3 DEF Advance, Idle
<1>4. CASE Len(script.todo) # 1
  <2>1. Len(script.todo) # 0
      BY <1>1, EmptyLen
  <2>2. Tail(script.todo) # <<>>
      BY <1>1, <1>2, <1>4, <2>1
  <2>3. Advance = [script EXCEPT !.todo = Tail(@), !.waitsFor = NoAddress]
      BY <1>4 DEF Advance
  <2> QED BY <1>2, <2>2, <2>3 DEF Scripts
<1> QED BY <1>3, <1>4

\* What the registry may name is a contract with a code of that name; one of
\* testnet is deployed, and one of oasys the prediction.
LEMMA KnownFacts ==
    ASSUME NEW name \in Names, NEW c \in Known(name), deployed \subseteq Contracts
    PROVE  /\ c \in Contracts
           /\ c # NoAddress
           /\ c.code \in CodesOf(name)
           /\ c \in OnTestnet => c \in deployed
           /\ c \in OnOasys => c = GetOasysDeploymentAddress(name)
<1>1. \A other \in Exports : GetOasysDeploymentAddress(other) \in OnOasys
    BY DEF OnOasys
<1>2. OnOasys \cap OnTestnet = {}
    BY DEF OnOasys, OnTestnet, GetOasysDeploymentAddress, ToSalt, Exports
<1>3. \A other \in Exports : GetOasysDeploymentAddress(other).code \in CodesOf(other)
    BY DEF GetOasysDeploymentAddress, CodeOf, CodesOf, Exports, Proxy
<1>4. c \in Contracts
    BY <1>1 DEF Known, Contracts
<1>5. c # NoAddress
    BY <1>4, AddressesAssumption
<1> QED BY <1>1, <1>2, <1>3, <1>4, <1>5 DEF Known

\* What is sent is a transaction of its call, from the signer of that call.
LEMMA TransactionTyped ==
    ASSUME StatesTyped, RegistryKnown, NEW call \in Calls, CanSend(call)
    PROVE  /\ Transaction(call) \in Txs
           /\ Transaction(call).call = call
           /\ Transaction(call).from =
                 IF call \in CallsOfVestingOwner THEN VestingOwner ELSE Deployer
<1>1. \A name \in Reads(call) : Entry(name) \in Known(name)
    BY DEF CanSend, RegistryKnown, Entry, StatesTyped, Reads, Names, Calls, CallsOfDeployer,
           CallsOfVestingOwner
<1>2. \A name \in Reads(call) : Entry(name) \in Contracts /\ Entry(name).code \in CodesOf(name)
    BY <1>1, KnownFacts DEF StatesTyped, Reads, Names, Calls, CallsOfDeployer, CallsOfVestingOwner
<1>3. "TokenVesting" \in Reads(call) => Entry("TokenVesting") \in Vestings
    BY <1>2 DEF Vestings, CodesOf, Proxy
<1>4. "PalmyRewardsVault" \in Reads(call) =>
          Entry("PalmyRewardsVault") \in {c \in Contracts : c.code = "PalmyRewardsVault"}
    BY <1>2 DEF CodesOf, Proxy
<1>5. CASE call = "initializeToken"
    BY <1>2, <1>3, <1>5 DEF Transaction, Txs, Reads, CallsOfVestingOwner
<1>6. CASE call = "initializeProxyOnly"
    BY <1>2, <1>3, <1>6 DEF Transaction, Txs, Reads, CallsOfVestingOwner
<1>7. CASE call = "upgradeToken"
    BY <1>2, <1>7 DEF Transaction, Txs, Reads, CallsOfVestingOwner
<1>8. CASE call = "initializeVault"
    BY <1>2, <1>4, <1>8 DEF Transaction, Txs, Reads, CallsOfVestingOwner
<1>9. CASE call = "initializeVesting"
    BY <1>2, <1>3, <1>9 DEF Transaction, Txs, Reads, CallsOfVestingOwner
<1>10. CASE call \in {"transferOwnership", "transferVestingOwner"}
    BY <1>2, <1>3, <1>10 DEF Transaction, Txs, Reads, CallsOfVestingOwner
<1>11. CASE call = "withdraw"
    BY <1>2, <1>3, <1>11 DEF Transaction, Txs, Reads, CallsOfVestingOwner
<1>12. CASE call = "transferToTreasury"
    BY <1>2, <1>12 DEF Transaction, Txs, Reads, CallsOfVestingOwner
<1> QED
    BY <1>5, <1>6, <1>7, <1>8, <1>9, <1>10, <1>11, <1>12
    DEF Calls, CallsOfDeployer, CallsOfVestingOwner

-----------------------------------------------------------------------------
\* A transaction that takes effect keeps the chain's state well formed, and no
\* contract loses its code.
LEMMA ExecuteTyped ==
    ASSUME StatesTyped, NEW tx \in Txs, Succeeds(tx), Execute(tx)
    PROVE  /\ deployed \subseteq deployed' /\ deployed' \subseteq Contracts
           /\ proxies' \in [Proxies -> ProxyStates]
           /\ vestings' \in [Vestings -> VestingStates]
           /\ distribution' \in [Proxies -> Vestings \cup People \cup {NoAddress}]
<1> USE DEF StatesTyped
<1>1. CASE tx.call = "create"
    BY <1>1 DEF Execute, ExecuteCreate, IntoTheVoid, Txs, Contracts
<1>2. CASE IntoTheVoid(tx)
    BY <1>2 DEF Execute, IntoTheVoid, chain
<1>3. CASE tx.call # "create" /\ ~IntoTheVoid(tx)
  <2>1. Accepts(tx) /\ ExecuteCall(tx)
      BY <1>3 DEF Succeeds, Execute
  <2>2. \A p \in Proxies : proxies[p] \in ProxyStates
      OBVIOUS
  <2> DEFINE Holders == Vestings \cup People \cup {NoAddress}
  <2>10. \A x : \A h \in Holders : [distribution EXCEPT ![x] = h] \in [Proxies -> Holders]
      OBVIOUS
  <2> HIDE DEF Holders
  <2>11. People \subseteq Holders
      BY DEF Holders
  <2>12. \A code : REVISION(code) \in 0 .. 2
      BY DEF REVISION
  <2>3. CASE tx.call = "initializeToken"
    <3>1. /\ tx.logic \in Contracts /\ tx.admin \in People /\ tx.vesting \in Vestings
          /\ tx.to \in Proxies
        BY <2>1, <2>3 DEF Txs, People, Accepts, CanInitializeProxy
    <3>2. [InitializedProxy(tx) EXCEPT !.revision = REVISION(tx.logic.code)] \in ProxyStates
        BY <2>2, <2>12, <3>1 DEF InitializedProxy, ProxyStates
    <3>3. ExecuteInitializeToken(tx)
        BY <2>1, <2>3 DEF ExecuteCall
    <3> QED BY <3>1, <3>2, <3>3 DEF ExecuteInitializeToken
  <2>4. CASE tx.call = "initializeProxyOnly"
    <3>1. tx.logic \in Contracts /\ tx.admin \in Vestings /\ tx.to \in Proxies
        BY <2>1, <2>4 DEF Txs, Accepts, CanInitializeProxy
    <3>2. InitializedProxy(tx) \in ProxyStates
        BY <2>2, <3>1 DEF InitializedProxy, ProxyStates
    <3>3. ExecuteInitializeProxyOnly(tx)
        BY <2>1, <2>4 DEF ExecuteCall
    <3> QED BY <3>1, <3>2, <3>3 DEF ExecuteInitializeProxyOnly
  <2>5. CASE tx.call = "upgradeToken"
    <3>1. tx.logic \in Contracts /\ tx.to \in Proxies
        BY <2>1, <2>5 DEF Txs, Accepts
    <3>2. [proxies[tx.to] EXCEPT !.implementation = tx.logic,
                                 !.revision = REVISION(tx.logic.code)] \in ProxyStates
        BY <2>2, <2>12, <3>1 DEF ProxyStates
    <3>3. ExecuteUpgrade(tx)
        BY <2>1, <2>5 DEF ExecuteCall
    <3>4. [proxies EXCEPT ![tx.to].implementation = tx.logic,
                          ![tx.to].revision = REVISION(tx.logic.code)]
          = [proxies EXCEPT ![tx.to] = [proxies[tx.to] EXCEPT
                !.implementation = tx.logic, !.revision = REVISION(tx.logic.code)]]
        BY <3>1
    <3> QED BY <3>2, <3>3, <3>4 DEF ExecuteUpgrade
  <2>6. CASE tx.call = "initializeVault"
    <3>1. tx.logic \in Contracts /\ tx.admin \in People /\ tx.to \in Proxies
        BY <2>1, <2>6 DEF Txs, People, Accepts, CanInitializeProxy
    <3>2. [InitializedProxy(tx) EXCEPT !.revision = REVISION(tx.logic.code), !.token = WOAS,
                 !.incentivesController = IncentivesController] \in ProxyStates
        BY <2>2, <2>12, <3>1 DEF InitializedProxy, ProxyStates
    <3>3. ExecuteInitializeVault(tx)
        BY <2>1, <2>6 DEF ExecuteCall
    <3> QED BY <3>1, <3>2, <3>3 DEF ExecuteInitializeVault
  <2>7. CASE tx.call \in {"initializeVesting", "transferOwnership", "transferVestingOwner"}
    <3>1. /\ tx.to \in Vestings
          /\ tx.call = "initializeVesting" => tx.token \in Contracts
          /\ tx.call # "initializeVesting" => tx.newOwner \in People
        BY <2>7 DEF Txs, People
    <3>2. ExecuteVesting(tx)
        BY <2>1, <2>7 DEF ExecuteCall
    <3> QED BY <3>1, <3>2 DEF ExecuteVesting, VestingStates
  <2>8. CASE tx.call = "withdraw"
    <3>1. tx.to \in Vestings /\ vestings[tx.to].owner \in People
        BY <2>8 DEF Txs, VestingStates
    <3>2. ExecuteWithdraw(tx)
        BY <2>1, <2>8 DEF ExecuteCall
    <3> QED BY <2>10, <2>11, <3>1, <3>2 DEF ExecuteWithdraw, Holders
  <2>9. CASE tx.call = "transferToTreasury"
    <3>1. tx.recipient \in People
        BY <2>9 DEF Txs, People
    <3>2. ExecuteTransfer(tx)
        BY <2>1, <2>9 DEF ExecuteCall
    <3> QED BY <2>10, <2>11, <3>1, <3>2 DEF ExecuteTransfer, Holders
  <2> QED BY <2>1, <2>3, <2>4, <2>5, <2>6, <2>7, <2>8, <2>9 DEF ExecuteCall
<1> QED BY <1>1, <1>2, <1>3

\* The step a script is at.
LEMMA StepFacts ==
    ASSUME script \in Scripts, script.todo # <<>>
    PROVE  /\ Len(script.todo) \in Nat \ {0}
           /\ Step = script.todo[1]
           /\ Step \in Steps
           /\ Step.do = "deploy" => Step.code \in Codes
           /\ Step.do = "register" => Step.name \in Names
           /\ Step.do = "send" => Step.call \in Calls
           /\ Step.do \in {"export", "predict"} => Step.name \in Exports
<1>1. script.todo \in Seq(Steps)
    BY DEF Scripts
<1>2. Step \in Steps /\ Step = script.todo[1] /\ Len(script.todo) \in Nat \ {0}
    BY <1>1, HeadTailProperties, EmptySeq DEF Step
<1> QED BY <1>2 DEF Steps, PrintSalts, Finish

\* No task running is a script too.
LEMMA IdleTyped == Idle \in Scripts
<1>1. <<>> \in Seq(Steps)
    BY EmptySeq
<1> QED BY <1>1 DEF Idle, Scripts

\* A transaction that the script waits for can be waited for, and with the
\* calls that are sent or mined the script stays one.
LEMMA ScriptTyped ==
    ASSUME script \in Scripts
    PROVE  /\ \A s \in Signers : [script EXCEPT !.waitsFor = s] \in Scripts
           /\ \A s \in Signers : \A c \in Contracts :
                 [script EXCEPT !.waitsFor = s, !.created = c] \in Scripts
BY DEF Scripts

\* A script that waits for a signer is at a step.
LEMMA WaitingFacts ==
    ASSUME ScriptWaits, NEW signer \in Signers, script.waitsFor = signer
    PROVE  script.todo # <<>>
BY PeopleAssumption DEF ScriptWaits, Signers, People

\* What a script sends to create a contract.
Creation(contract) == [call |-> "create", from |-> Deployer, to |-> contract]

\* A creation that is sent goes to an address of testnet.
LEMMA CreationTyped ==
    ASSUME SendCreation
    PROVE  /\ NextContract(Step.code) \in OnTestnet
           /\ Creation(NextContract(Step.code)) \in Txs
           /\ SendTransaction(Creation(NextContract(Step.code)))
<1> DEFINE contract == NextContract(Step.code)
<1>1. contract \in Contracts /\ contract.salt = "none"
    BY DEF SendCreation, NextContract
<1>2. contract \in OnTestnet
    BY <1>1 DEF Contracts, OnOasys, GetOasysDeploymentAddress, ToSalt, Exports
<1>3. SendTransaction(Creation(contract))
    BY DEF SendCreation, Creation
<1> HIDE DEF contract
<1>4. Creation(contract) \in Txs
    BY <1>2 DEF Creation, Txs
<1> QED BY <1>2, <1>3, <1>4 DEF contract

\* A transaction is sent: it comes after those its signer sent before.
LEMMA SendFacts ==
    ASSUME StatesTyped, NEW tx \in Txs, SendTransaction(tx)
    PROVE  /\ tx.from \in Signers
           /\ pending' \in [Signers -> Seq(Txs)]
           /\ \A s \in Signers \ {tx.from} : pending'[s] = pending[s]
           /\ Len(pending'[tx.from]) = Len(pending[tx.from]) + 1
           /\ \A i \in 1 .. Len(pending[tx.from]) :
                 pending'[tx.from][i] = pending[tx.from][i]
           /\ pending'[tx.from][Len(pending[tx.from]) + 1] = tx
           /\ \A s \in Signers : \A i \in 1 .. Len(pending'[s]) : pending'[s][i].from = s
<1>1. tx.from \in Signers
    BY DEF Txs, Signers
<1>2. pending \in [Signers -> Seq(Txs)] /\ Len(pending[tx.from]) \in Nat
    BY <1>1 DEF StatesTyped
<1> DEFINE sent == Append(pending[tx.from], tx)
<1>3. /\ sent \in Seq(Txs)
      /\ Len(sent) = Len(pending[tx.from]) + 1
      /\ \A i \in 1 .. Len(pending[tx.from]) : sent[i] = pending[tx.from][i]
      /\ sent[Len(pending[tx.from]) + 1] = tx
    BY <1>1, <1>2, AppendProperties
<1> HIDE DEF sent
<1>4. pending' = [pending EXCEPT ![tx.from] = sent]
    BY DEF SendTransaction, sent
<1>5. \A i \in 1 .. Len(sent) : sent[i].from = tx.from
    BY <1>1, <1>2, <1>3 DEF StatesTyped
<1>6. \A s \in Signers : \A i \in 1 .. Len(pending[s]) : pending[s][i].from = s
    BY DEF StatesTyped
<1> QED BY <1>1, <1>2, <1>3, <1>4, <1>5, <1>6

\* A transaction is mined: the first of its signer's takes effect or reverts.
LEMMA MineFacts ==
    ASSUME StatesTyped, NEW signer \in Signers, Mine(signer)
    PROVE  /\ pending[signer] # <<>>
           /\ Head(pending[signer]) \in Txs
           /\ Head(pending[signer]) = pending[signer][1]
           /\ Head(pending[signer]).from = signer
           /\ pending' \in [Signers -> Seq(Txs)]
           /\ \A s \in Signers \ {signer} : pending'[s] = pending[s]
           /\ Len(pending[signer]) \in Nat \ {0}
           /\ Len(pending'[signer]) = Len(pending[signer]) - 1
           /\ \A i \in 1 .. Len(pending'[signer]) :
                 pending'[signer][i] = pending[signer][i + 1]
           /\ \A s \in Signers : \A i \in 1 .. Len(pending'[s]) : pending'[s][i].from = s
<1>1. pending \in [Signers -> Seq(Txs)] /\ pending[signer] \in Seq(Txs)
    BY DEF StatesTyped
<1>2. pending[signer] # <<>> /\ pending' = [pending EXCEPT ![signer] = Tail(@)]
    BY DEF Mine
<1> DEFINE queue == pending[signer]
           rest  == Tail(queue)
<1>3. /\ Head(queue) \in Txs
      /\ Head(queue) = queue[1]
      /\ rest \in Seq(Txs)
      /\ Len(rest) = Len(queue) - 1
      /\ \A i \in 1 .. Len(rest) : rest[i] = queue[i + 1]
    BY <1>1, <1>2, HeadTailProperties
<1>4. Len(queue) \in Nat \ {0}
    BY <1>1, <1>2, EmptySeq
<1>5. \A s \in Signers : \A i \in 1 .. Len(pending[s]) : pending[s][i].from = s
    BY DEF StatesTyped
<1>6. pending' = [pending EXCEPT ![signer] = rest]
    BY <1>2
<1> HIDE DEF rest
<1>7. \A i \in 1 .. Len(rest) : rest[i].from = signer
    BY <1>3, <1>4, <1>5
<1> QED BY <1>1, <1>2, <1>3, <1>4, <1>5, <1>6, <1>7

\* The state of the chain and of the queues stays well formed.
LEMMA StatesTypedStep ==
    ASSUME Inv, Next
    PROVE  StatesTyped'
<1> USE DEF Inv
<1>1. script \in Scripts /\ runs \in Nat
    BY DEF StatesTyped
<1>2. ASSUME NEW on \in {"testnet", "oasys"}, NEW task \in TasksOn[on], Start(on, task)
      PROVE  StatesTyped'
  <2>1. Program(on, task) \in Seq(Steps)
      BY ProgramsAreOrderly DEF Orderly, BothNetworks
  <2>2. script' = [Idle EXCEPT !.todo = Program(on, task), !.hadCode = RegisteredHaveCode']
      BY <1>2 DEF Start
  <2>3. RegisteredHaveCode' \in BOOLEAN
      BY DEF RegisteredHaveCode
  <2>4. script' \in Scripts
      BY <2>1, <2>2, <2>3 DEF Scripts, Idle
  <2>5. switches' \in 0 .. MaxSwitches /\ runs' \in Nat
      BY <1>2, BoundsAssumption DEF Start, MayChange, StatesTyped
  <2> QED BY <1>2, <2>4, <2>5 DEF Start, StatesTyped, BothNetworks, chain
<1>3. ASSUME Stop PROVE StatesTyped'
  <2>1. Idle \in Scripts
      BY EmptySeq DEF Idle, Scripts
  <2> QED BY <1>3, <2>1, BoundsAssumption DEF Stop, StatesTyped, disk, chain
<1>4. ASSUME NEW name \in Exports, FactoryCreate(name) PROVE StatesTyped'
  <2>1. GetOasysDeploymentAddress(name) \in Contracts
      BY DEF Contracts, OnOasys
  <2> QED BY <1>4, <2>1 DEF FactoryCreate, StatesTyped, disk, counters
<1>5. ASSUME SendCreation PROVE StatesTyped'
  <2> DEFINE contract == NextContract(Step.code)
  <2>1. contract \in Contracts
      BY <1>5 DEF SendCreation
  <2>3. Creation(contract) \in Txs /\ SendTransaction(Creation(contract))
      BY <1>5, CreationTyped
  <2>5. script' \in Scripts
      BY <1>1, <1>5, <2>1, AdvanceFacts DEF SendCreation, contract, Awaited, Scripts, Signers
  <2> HIDE DEF contract
  <2> QED BY <2>3, <2>5, SendFacts DEF StatesTyped, SendTransaction, disk, chain, counters
<1>6. ASSUME SendCall PROVE StatesTyped'
  <2>1. Step.call \in Calls /\ CanSend(Step.call) /\ script.todo # <<>>
      BY <1>1, <1>6, StepFacts DEF SendCall, At, Step
  <2> DEFINE tx == Transaction(Step.call)
  <2>2. tx \in Txs /\ SendTransaction(tx)
      BY <1>6, <2>1, TransactionTyped DEF SendCall
  <2>3. tx.from \in Signers
      BY <2>2, SendFacts
  <2>4. script' = [script EXCEPT !.waitsFor = tx.from] \/ script' = Advance
      BY <1>6 DEF SendCall
  <2> HIDE DEF tx
  <2>5. script' \in Scripts
      BY <1>1, <2>1, <2>3, <2>4, ScriptTyped, AdvanceFacts
  <2> QED BY <2>2, <2>5, SendFacts DEF StatesTyped, SendTransaction, disk, chain, counters
<1>7. ASSUME Throw PROVE StatesTyped'
    BY <1>7, IdleTyped DEF Throw, StatesTyped, disk, chain, counters
<1>8. ASSUME RegisterAddress \/ RegisterPrediction PROVE StatesTyped'
  <2>1. script.todo # <<>> /\ Step.name \in Names
      BY <1>1, <1>8, StepFacts DEF RegisterAddress, RegisterPrediction, At, Step, Names, Exports
  <2>2. script' = Advance /\ script' \in Scripts
      BY <1>1, <1>8, <2>1, AdvanceFacts DEF RegisterAddress, RegisterPrediction
  <2>3. RegisterPrediction => GetOasysDeploymentAddress(Step.name) \in Contracts
      BY <1>1, <2>1, StepFacts DEF RegisterPrediction, At, Step, Contracts, OnOasys
  <2>4. \/ db' = db
        \/ \E c \in Contracts \cup {NoAddress} : db' = [db EXCEPT ![network][Step.name] = c]
      BY <1>1, <1>8, <2>3 DEF RegisterAddress, RegisterPrediction, Scripts
  <2>5. db' \in [BothNetworks -> [Names -> Contracts \cup {NoAddress}]]
    <3>1. db \in [BothNetworks -> [Names -> Contracts \cup {NoAddress}]]
          /\ network \in BothNetworks
        BY DEF StatesTyped
    <3>2. CASE db' = db
        BY <3>1, <3>2
    <3>3. ASSUME NEW c \in Contracts \cup {NoAddress}, NEW d, NEW name \in Names,
                 d = [db EXCEPT ![network][name] = c]
          PROVE  d \in [BothNetworks -> [Names -> Contracts \cup {NoAddress}]]
        BY ONLY <3>1, <3>3
    <3> QED BY <2>1, <2>4, <3>2, <3>3
  <2> QED
      BY <1>8, <2>2, <2>5
      DEF RegisterAddress, RegisterPrediction, StatesTyped, chain, counters
<1>9. ASSUME WriteCallData PROVE StatesTyped'
  <2>1. script.todo # <<>> /\ Step.name \in Exports
      BY <1>1, <1>9, StepFacts DEF WriteCallData, At, Step
  <2>2. script' \in Scripts
      BY <1>1, <1>9, <2>1, AdvanceFacts DEF WriteCallData
  <2> QED BY <1>9, <2>1, <2>2 DEF WriteCallData, StatesTyped, chain, counters
<1>10. ASSUME PrintAddressAndSalt PROVE StatesTyped'
  <2>1. script' \in Scripts
      BY <1>1, <1>10, AdvanceFacts DEF PrintAddressAndSalt, At
  <2>2. db' \in [BothNetworks -> [Names -> Contracts \cup {NoAddress}]]
      BY <1>10 DEF PrintAddressAndSalt, StatesTyped, BothNetworks
  <2> QED BY <1>10, <2>1, <2>2 DEF PrintAddressAndSalt, StatesTyped, chain, counters
<1>11. ASSUME ReportFinished PROVE StatesTyped'
  <2>1. script' \in Scripts
      BY <1>1, <1>11, AdvanceFacts DEF ReportFinished, At
  <2> QED BY <1>11, <2>1 DEF ReportFinished, StatesTyped, disk, chain, counters
<1>12. ASSUME NEW signer \in Signers, Mine(signer) PROVE StatesTyped'
  <2> DEFINE tx == Head(pending[signer])
  <2>1. tx \in Txs
      BY <1>12, MineFacts
  <2>2. (Succeeds(tx) /\ Execute(tx)) \/ UNCHANGED chain
      BY <1>12 DEF Mine
  <2>3. script' \in {script, Idle} \/ (script' = Advance /\ script.todo # <<>>)
    <3>1. script.waitsFor = signer => script.todo # <<>>
        BY WaitingFacts
    <3>2. script' \in {script, Idle} \/ (script' = Advance /\ script.waitsFor = signer)
      <4> DEFINE waited == script.waitsFor = signer /\ Len(pending[signer]) = 1
      <4>1. \/ script' = IF waited THEN Advance ELSE script
            \/ script' = IF waited THEN Idle ELSE script
          BY <1>12 DEF Mine
      <4> QED BY <4>1
    <3> QED BY <3>1, <3>2
  <2>4. script' \in Scripts
      BY <1>1, <2>3, AdvanceFacts, IdleTyped
  <2>5. UNCHANGED <<disk, counters, finished>>
      BY <1>12 DEF Mine
  <2> HIDE DEF tx
  <2>6. CASE UNCHANGED chain
      BY <1>12, <2>4, <2>5, <2>6, MineFacts DEF StatesTyped, disk, chain, counters
  <2>7. CASE Succeeds(tx) /\ Execute(tx)
      BY <1>12, <2>1, <2>4, <2>5, <2>7, MineFacts, ExecuteTyped DEF StatesTyped, disk, counters
  <2> QED BY <2>2, <2>6, <2>7
<1> QED
    BY <1>2, <1>3, <1>4, <1>5, <1>6, <1>7, <1>8, <1>9, <1>10, <1>11, <1>12
    DEF Next, ScriptStep

-----------------------------------------------------------------------------
\* No contract loses its code.
LEMMA DeployedGrows ==
    ASSUME Inv, Next
    PROVE  deployed \subseteq deployed'
<1>1. ASSUME NEW signer \in Signers, Mine(signer) PROVE deployed \subseteq deployed'
  <2> DEFINE tx == Head(pending[signer])
  <2>1. StatesTyped /\ tx \in Txs
      BY <1>1, MineFacts DEF Inv
  <2>2. (Succeeds(tx) /\ Execute(tx)) \/ UNCHANGED chain
      BY <1>1 DEF Mine
  <2> HIDE DEF tx
  <2> QED BY <2>1, <2>2, ExecuteTyped DEF chain
<1> QED
    BY <1>1
    DEF Next, Start, Stop, FactoryCreate, ScriptStep, SendCreation, SendCall,
        SendTransaction, Throw, RegisterAddress, RegisterPrediction, WriteCallData,
        PrintAddressAndSalt, ReportFinished, chain

\* So what the registry may name it may name later.
LEMMA KnownGrows ==
    ASSUME deployed \subseteq deployed', NEW name
    PROVE  Known(name) \subseteq Known(name)'
BY DEF Known

\* A contract that is registered was just deployed, by the script itself.
LEMMA HeadRegistrable ==
    ASSUME ScriptOrdered, script \in Scripts, At("register")
    PROVE  Registrable(Step.name) /\ script.created \in Known(Step.name)
<1>1. script.todo # <<>> /\ Step.do = "register"
    BY DEF At, Step
<1>2. /\ Step = script.todo[1] /\ 1 \in 1 .. Len(script.todo)
      /\ Len(script.todo) \in Nat
    BY <1>1, StepFacts
<1>3. ~RegistersDeployed(script.todo, 1)
    BY <1>2 DEF RegistersDeployed
<1>4. Registrable(Step.name)
    BY <1>1, <1>2, <1>3 DEF ScriptOrdered
<1> QED BY <1>4 DEF Registrable, Known

\* The registry names what was deployed or predicted, under a name that fits.
LEMMA RegistryKnownStep ==
    ASSUME Inv, Next
    PROVE  RegistryKnown'
<1>1. script \in Scripts /\ db \in [BothNetworks -> [Names -> Contracts \cup {NoAddress}]]
      /\ network \in BothNetworks
    BY DEF Inv, StatesTyped
<1>2. \A name \in Names : Known(name) \subseteq Known(name)'
    BY DeployedGrows, KnownGrows
<1>3. \A on \in BothNetworks : \A name \in Names : db[on][name] \in Known(name)' \cup {NoAddress}
    BY <1>2 DEF Inv, RegistryKnown
<1>4. ASSUME RegisterAddress PROVE RegistryKnown'
  <2>1. script.created \in Known(Step.name) /\ Step.name \in Names
      BY <1>1, <1>4, HeadRegistrable, StepFacts DEF Inv, RegisterAddress, At, Step
  <2> QED BY <1>1, <1>2, <1>3, <1>4, <2>1 DEF RegisterAddress, RegistryKnown
<1>5. ASSUME RegisterPrediction PROVE RegistryKnown'
  <2>1. Step.name \in Exports
      BY <1>1, <1>5, StepFacts DEF RegisterPrediction, At, Step
  <2>2. GetOasysDeploymentAddress(Step.name) \in Known(Step.name)
      BY <2>1 DEF Known
  <2>3. Step.name \in Names
      BY <2>1 DEF Names, Exports
  <2> QED BY <1>1, <1>2, <1>3, <1>5, <2>2, <2>3 DEF RegisterPrediction, RegistryKnown
<1>6. ASSUME PrintAddressAndSalt PROVE RegistryKnown'
    BY <1>1, <1>3, <1>6 DEF PrintAddressAndSalt, RegistryKnown, BothNetworks
<1>7. ASSUME UNCHANGED db PROVE RegistryKnown'
    BY <1>3, <1>7 DEF RegistryKnown
<1>8. ASSUME NEW signer \in Signers, Mine(signer) PROVE UNCHANGED db
    BY <1>8 DEF Mine, disk
<1> QED
    BY <1>4, <1>5, <1>6, <1>7, <1>8
    DEF Next, Start, Stop, FactoryCreate, ScriptStep, SendCreation, SendCall,
        SendTransaction, Throw, WriteCallData, ReportFinished, disk

\* Sending and mining upgrades.
LEMMA SendTargets ==
    ASSUME StatesTyped, NEW tx \in Txs, SendTransaction(tx)
    PROVE  \A c \in UpgradeTargets' :
              c \in UpgradeTargets \/ (tx.call = "upgradeToken" /\ c = tx.to)
<1>1. pending' \in [Signers -> Seq(Txs)] /\ Deployer \in Signers
    BY SendFacts DEF Signers
<1>2. Len(pending[Deployer]) \in Nat
    BY <1>1 DEF StatesTyped
<1>3. CASE tx.from = Deployer
  <2>1. /\ Len(pending'[Deployer]) = Len(pending[Deployer]) + 1
        /\ \A i \in 1 .. Len(pending'[Deployer]) :
              pending'[Deployer][i] = IF i = Len(pending[Deployer]) + 1 THEN tx
                                      ELSE pending[Deployer][i]
      BY <1>2, <1>3, SendFacts
  <2>2. ASSUME NEW i \in 1 .. Len(pending'[Deployer]),
               pending'[Deployer][i].call = "upgradeToken"
        PROVE  \/ pending'[Deployer][i].to \in UpgradeTargets
               \/ tx.call = "upgradeToken" /\ pending'[Deployer][i].to = tx.to
    <3>1. CASE i = Len(pending[Deployer]) + 1
      <4>1. pending'[Deployer][i] = tx
          BY <2>1, <3>1
      <4> QED BY <2>2, <4>1
    <3>2. CASE i # Len(pending[Deployer]) + 1
      <4>1. pending'[Deployer][i] = pending[Deployer][i] /\ i \in 1 .. Len(pending[Deployer])
          BY <1>2, <2>1, <3>2
      <4> QED BY <2>2, <4>1 DEF UpgradeTargets
    <3> QED BY <3>1, <3>2
  <2> QED BY <2>2 DEF UpgradeTargets
<1>4. CASE tx.from # Deployer
    BY <1>1, <1>2, <1>4, SendFacts DEF UpgradeTargets
<1> QED BY <1>3, <1>4

\* An upgrade that is mined is on its way no longer.
LEMMA MineTargets ==
    ASSUME StatesTyped, NEW signer \in Signers, Mine(signer)
    PROVE  UpgradeTargets' \subseteq UpgradeTargets
<1>1. pending' \in [Signers -> Seq(Txs)] /\ Deployer \in Signers
    BY MineFacts DEF Signers
<1>2. Len(pending[Deployer]) \in Nat
    BY <1>1 DEF StatesTyped
<1>3. CASE signer = Deployer
  <2>1. \A i \in 1 .. Len(pending'[Deployer]) :
            i + 1 \in 1 .. Len(pending[Deployer]) /\ pending'[Deployer][i] = pending[Deployer][i + 1]
      BY <1>2, <1>3, MineFacts
  <2> QED BY <2>1 DEF UpgradeTargets
<1>4. CASE signer # Deployer
    BY <1>1, <1>2, <1>4, MineFacts DEF UpgradeTargets
<1> QED BY <1>3, <1>4

\* The entries of the two proxies, and the upgrades, lead to no other contract.
FewerTargets == TokenTargets' \subseteq TokenTargets /\ VaultTargets' \subseteq VaultTargets

\* Only a step that registers leads them elsewhere.
LEMMA TargetsSame ==
    ASSUME Inv, Next, ~RegisterAddress, ~RegisterPrediction
    PROVE  FewerTargets
<1>1. /\ script \in Scripts /\ network \in BothNetworks
      /\ db \in [BothNetworks -> [Names -> Contracts \cup {NoAddress}]]
      /\ deployed \subseteq Contracts /\ deployed' \subseteq Contracts
      /\ StatesTyped
      /\ TokenEntry \in Names /\ VaultEntry \in Names
    BY StatesTypedStep DEF Inv, StatesTyped, TokenEntry, VaultEntry, Names
<1>2. ASSUME PrintAddressAndSalt PROVE FewerTargets
  <2>1. TokenEntry \in Names /\ VaultEntry \in Names
      BY <1>1
  <2>2. \A on \in BothNetworks : \A name \in Names :
            \E from \in BothNetworks : db'[on][name] = db[from][name]
      BY <1>1, <1>2 DEF PrintAddressAndSalt, BothNetworks
  <2>3. TokenTargets' \subseteq TokenTargets /\ VaultTargets' \subseteq VaultTargets
      BY <1>2, <2>1, <2>2 DEF PrintAddressAndSalt, TokenTargets, VaultTargets, UpgradeTargets
  <2> QED BY <2>3 DEF FewerTargets
<1>3. ASSUME ReportFinished PROVE FewerTargets
  <2>1. Entry("PalmyRewardsVaultProxy") \in VaultTargets
      BY <1>1 DEF VaultTargets, Entry, VaultEntry
  <2>2. TokenTargets' \subseteq TokenTargets /\ VaultTargets' \subseteq VaultTargets
      BY <1>3, <2>1 DEF ReportFinished, TokenTargets, VaultTargets, UpgradeTargets, disk
  <2> QED BY <2>2 DEF FewerTargets
<1>4. ASSUME NEW tx \in Txs, SendTransaction(tx), tx.call = "upgradeToken" => tx.to \in TokenTargets
       PROVE  FewerTargets
  <2>1. TokenTargets' \subseteq TokenTargets /\ VaultTargets' \subseteq VaultTargets
      BY <1>1, <1>4, SendTargets DEF TokenTargets, VaultTargets, SendTransaction, disk
  <2> QED BY <2>1 DEF FewerTargets
<1>5. ASSUME SendCreation PROVE FewerTargets
  <2> DEFINE tx == Creation(NextContract(Step.code))
  <2>1. tx \in Txs /\ SendTransaction(tx) /\ tx.call # "upgradeToken"
      BY <1>5, CreationTyped DEF Creation
  <2> HIDE DEF tx
  <2> QED BY <1>4, <2>1
<1>6. ASSUME SendCall PROVE FewerTargets
  <2>1. Step.call \in Calls /\ CanSend(Step.call)
      BY <1>1, <1>6, StepFacts DEF SendCall, At, Step
  <2> DEFINE tx == Transaction(Step.call)
  <2>2. tx \in Txs /\ tx.call = Step.call /\ SendTransaction(tx)
      BY <1>6, <2>1, TransactionTyped DEF SendCall, Inv
  <2>3. tx.call = "upgradeToken" => tx.to = Entry("PlmyToken")
      BY <2>2 DEF Transaction
  <2>4. Entry("PlmyToken") \in TokenTargets
      BY <1>1 DEF TokenTargets, Entry, TokenEntry
  <2> HIDE DEF tx
  <2> QED BY <1>4, <2>2, <2>3, <2>4
<1>7. ASSUME NEW signer \in Signers, Mine(signer) PROVE FewerTargets
  <2>1. TokenTargets' \subseteq TokenTargets /\ VaultTargets' \subseteq VaultTargets
      BY <1>1, <1>7, MineTargets DEF TokenTargets, VaultTargets, Mine, disk
  <2> QED BY <2>1 DEF FewerTargets
<1>8. ASSUME UNCHANGED <<db, pending, finished>> PROVE FewerTargets
  <2>1. TokenTargets' \subseteq TokenTargets /\ VaultTargets' \subseteq VaultTargets
      BY <1>8 DEF TokenTargets, VaultTargets, UpgradeTargets
  <2> QED BY <2>1 DEF FewerTargets
<1> QED
    BY <1>2, <1>3, <1>5, <1>6, <1>7, <1>8
    DEF Next, Start, Stop, FactoryCreate, ScriptStep, Throw, WriteCallData, disk

\* Where the two entries and the upgrades on their way may lead after a step:
\* a new contract, or a prediction, comes under one of the two names.
Leads(name, c) ==
    /\ c \in Known(name)'
    /\ name = TokenEntry => c \notin VaultTargets
    /\ name = VaultEntry => c \notin TokenTargets

\* No contract comes to be the token's proxy to one entry, or to an upgrade, and
\* the vault's to another.
LEMMA TargetsStep ==
    ASSUME Inv, Next
    PROVE  TargetsKnown' /\ TargetsApart'
<1>1. /\ script \in Scripts /\ network \in BothNetworks
      /\ db \in [BothNetworks -> [Names -> Contracts \cup {NoAddress}]]
      /\ deployed \subseteq Contracts /\ deployed' \subseteq Contracts
      /\ StatesTyped
    BY StatesTypedStep DEF Inv, StatesTyped
<1>2. TokenEntry \in Names /\ VaultEntry \in Names /\ TokenEntry # VaultEntry
    BY DEF TokenEntry, VaultEntry, Names
<1>3. /\ Known(TokenEntry) \subseteq Known(TokenEntry)'
      /\ Known(VaultEntry) \subseteq Known(VaultEntry)'
    BY DeployedGrows, KnownGrows
<1>4. \A c \in Known(TokenEntry)' \cup Known(VaultEntry)' : c # NoAddress
    BY <1>1, AddressesAssumption DEF Known, Contracts, OnOasys, Exports
<1> DEFINE OneEntry(name, c) ==
        /\ db' = [db EXCEPT ![network][name] = c]
        /\ name \in Names
        /\ Leads(name, c)
        /\ UNCHANGED <<pending, finished>>
<1>5. ASSUME NEW name, NEW c, OneEntry(name, c)
      PROVE  TargetsKnown' /\ TargetsApart'
  <2>1. /\ TokenTargets' \subseteq TokenTargets \cup (IF name = TokenEntry THEN {c} ELSE {})
        /\ VaultTargets' \subseteq VaultTargets \cup (IF name = VaultEntry THEN {c} ELSE {})
      BY <1>1, <1>2, <1>5 DEF TokenTargets, VaultTargets, UpgradeTargets
  <2> QED BY <1>2, <1>3, <1>5, <2>1 DEF Inv, TargetsKnown, TargetsApart, Leads
<1>6. ASSUME TokenTargets' \subseteq TokenTargets, VaultTargets' \subseteq VaultTargets
      PROVE  TargetsKnown' /\ TargetsApart'
    BY <1>3, <1>6 DEF Inv, TargetsKnown, TargetsApart
<1>7. ASSUME RegisterAddress PROVE TargetsKnown' /\ TargetsApart'
  <2>1. Registrable(Step.name) /\ script.created \in Known(Step.name) /\ Step.name \in Names
      BY <1>1, <1>7, HeadRegistrable, StepFacts DEF Inv, RegisterAddress, At, Step
  <2>2. PICK name \in Names : name = Step.name
      BY <2>1
  <2>3. PICK c : c = script.created
      OBVIOUS
  <2>4. Known(name) \subseteq Known(name)'
      BY DeployedGrows, KnownGrows
  <2>5. OneEntry(name, c)
      BY <1>7, <2>1, <2>2, <2>3, <2>4 DEF RegisterAddress, Registrable, Leads
  <2> HIDE DEF OneEntry
  <2> QED BY <1>5, <2>5
<1>8. ASSUME RegisterPrediction PROVE TargetsKnown' /\ TargetsApart'
  <2>1. PICK name \in Exports : name = Step.name
      BY <1>1, <1>8, StepFacts DEF RegisterPrediction, At, Step
  <2> DEFINE c == GetOasysDeploymentAddress(name)
  <2>2. c \in Known(name)' /\ name \in Names
      BY DEF Known, Names, Exports
  <2>3. c \in OnOasys /\ c # NoAddress
      BY AddressesAssumption DEF OnOasys, Contracts
  <2>4. \A other \in Names : c \in Known(other) => other = name
      BY <1>1, <2>3, KnownFacts DEF GetOasysDeploymentAddress, ToSalt
  <2>5. /\ TokenTargets \subseteq Known(TokenEntry) \cup {NoAddress}
        /\ VaultTargets \subseteq Known(VaultEntry) \cup {NoAddress}
      BY DEF Inv, TargetsKnown
  <2>6. Leads(name, c)
      BY <1>2, <2>2, <2>3, <2>4, <2>5 DEF Leads
  <2>7. CASE network = "oasys"
    <3>1. OneEntry(name, c)
        BY <1>8, <2>1, <2>2, <2>6, <2>7 DEF RegisterPrediction
    <3> HIDE DEF OneEntry
    <3> QED BY <1>5, <3>1
  <2>8. CASE network # "oasys"
    <3>1. TokenTargets' = TokenTargets /\ VaultTargets' = VaultTargets
        BY <1>8, <2>8 DEF RegisterPrediction, TokenTargets, VaultTargets, UpgradeTargets
    <3> QED BY <1>6, <3>1
  <2> QED BY <2>7, <2>8
<1> QED BY <1>6, <1>7, <1>8, TargetsSame DEF FewerTargets

-----------------------------------------------------------------------------
\* What was created, and what is on its way, can be counted.
LEMMA CreationsFinite ==
    ASSUME NEW code
    PROVE  IsFiniteSet(CreatedOf(code)) /\ Cardinality(CreatedOf(code)) \in Nat
<1> DEFINE S == {c \in OnTestnet : c.code = code}
           f == [c \in S |-> c.number]
<1>1. IsFiniteSet(1 .. MaxDeploys)
    BY BoundsAssumption, FS_Interval
<1>2. f \in Injection(S, 1 .. MaxDeploys)
    BY DEF OnTestnet, Injection, IsInjective
<1> HIDE DEF f, S
<1>3. IsFiniteSet(S)
    BY <1>1, <1>2, FS_Injection
<1>4. CreatedOf(code) \in SUBSET S
    BY DEF CreatedOf, S
<1> QED BY <1>3, <1>4, FS_Subset, FS_CardinalityType

\* The creations a queue holds are finitely many.
LEMMA SentFinite ==
    ASSUME NEW code, Len(pending[Deployer]) \in Nat
    PROVE  IsFiniteSet(SentOf(code)) /\ Cardinality(SentOf(code)) \in Nat
<1>1. IsFiniteSet(1 .. Len(pending[Deployer]))
    BY FS_Interval
<1>2. SentOf(code) \in SUBSET (1 .. Len(pending[Deployer]))
    BY DEF SentOf
<1> QED BY <1>1, <1>2, FS_Subset, FS_CardinalityType

\* The creations on their way are one further ahead once the first transaction
\* was mined.
LEMMA SentShift ==
    ASSUME NEW code, StatesTyped, Mine(Deployer)
    PROVE  /\ IsFiniteSet(SentOf(code) \ {1})
           /\ Cardinality(SentOf(code)') = Cardinality(SentOf(code) \ {1})
<1> DEFINE S == SentOf(code) \ {1}
           T == SentOf(code)'
           f == [i \in S |-> i - 1]
<1>1. /\ Deployer \in Signers
      /\ Len(pending[Deployer]) \in Nat \ {0}
      /\ Len(pending'[Deployer]) = Len(pending[Deployer]) - 1
      /\ \A i \in 1 .. Len(pending'[Deployer]) :
            pending'[Deployer][i] = pending[Deployer][i + 1]
    BY MineFacts DEF Signers
<1>2. IsFiniteSet(S)
    BY <1>1, SentFinite, FS_RemoveElement
<1>3. \A i \in S : i \in Nat /\ i - 1 \in T
    BY <1>1 DEF SentOf, IsCreation
<1>4. \A j \in T : j \in Nat /\ j + 1 \in S /\ j = (j + 1) - 1
    BY <1>1 DEF SentOf, IsCreation
<1> HIDE DEF S, T
<1>5. f \in [S -> T] /\ \A i \in S : f[i] = i - 1
    BY <1>3
<1>6. f \in Bijection(S, T)
  <2>1. f \in Injection(S, T)
      BY <1>3, <1>5 DEF Injection, IsInjective
  <2>2. f \in Surjection(S, T)
    <3>1. ASSUME NEW j \in T PROVE \E i \in S : f[i] = j
        BY <1>4, <1>5
    <3> QED BY <1>5, <3>1 DEF Surjection
  <2> QED BY <2>1, <2>2 DEF Bijection
<1> HIDE DEF f
<1>7. Cardinality(T) = Cardinality(S)
    BY <1>2, <1>6, FS_Bijection DEF ExistsBijection
<1> QED BY <1>2, <1>7 DEF S, T

\* What a signer other than the deployer does, and any call, leaves the count
\* of creations alone; so does what others create on oasys.
LEMMA CountOfSame ==
    ASSUME NEW code, CreatedOf(code)' = CreatedOf(code), SentOf(code)' = SentOf(code)
    PROVE  CountOf(code)' = CountOf(code)
BY DEF CountOf, Cardinality

\* Creations: numbers are given once.
Creations == CreationsApart /\ CreationsCounted

\* Calls that are sent leave the creations as they are.
LEMMA CreationsSame ==
    ASSUME Creations, deployed' \cap OnTestnet = deployed \cap OnTestnet,
           Len(pending[Deployer]) \in Nat,
           Len(pending'[Deployer]) \in {Len(pending[Deployer]), Len(pending[Deployer]) + 1},
           \A i \in 1 .. Len(pending[Deployer]) : pending'[Deployer][i] = pending[Deployer][i],
           pending[Deployer] \in Seq(Txs),
           \A i \in 1 .. Len(pending'[Deployer]) :
              i > Len(pending[Deployer]) => pending'[Deployer][i].call # "create"
    PROVE  Creations'
<1>1. \A code : CreatedOf(code)' = CreatedOf(code)
    BY DEF CreatedOf
<1>2. \A code : SentOf(code)' = SentOf(code)
    BY DEF SentOf, IsCreation
<1>3. \A code : CountOf(code)' = CountOf(code)
    BY <1>1, <1>2, CountOfSame
<1>4. \A i \in 1 .. Len(pending'[Deployer]) : IsCreation(i)' =>
          /\ i \in 1 .. Len(pending[Deployer])
          /\ IsCreation(i)
          /\ pending'[Deployer][i] = pending[Deployer][i]
          /\ pending[Deployer][i].to \in OnTestnet
    BY DEF IsCreation, Txs
<1>5. CreationsApart'
    BY <1>4 DEF Creations, CreationsApart
<1>6. CreationsCounted'
    BY <1>3, <1>4 DEF Creations, CreationsCounted
<1> QED BY <1>5, <1>6 DEF Creations

\* A call creates no contract.
LEMMA CallDeploysNothing ==
    ASSUME NEW tx, Execute(tx), tx.call # "create"
    PROVE  deployed' = deployed
BY DEF Execute, ExecuteCall, ExecuteInitializeToken, ExecuteInitializeProxyOnly,
       ExecuteUpgrade, ExecuteInitializeVault, ExecuteVesting, ExecuteWithdraw,
       ExecuteTransfer, chain

\* The next creation of a code goes one number further than any before it.
LEMMA SendCreationCounted ==
    ASSUME Inv, SendCreation
    PROVE  Creations'
<1>1. /\ StatesTyped /\ Creations /\ script \in Scripts /\ script.todo # <<>>
      /\ Step = script.todo[1] /\ Len(script.todo) \in Nat \ {0}
    BY StepFacts DEF Inv, StatesTyped, Creations, SendCreation, At
<1>2. network = "testnet"
    BY <1>1 DEF Inv, ScriptKnown, Does, StatesTyped, BothNetworks, SendCreation, At, Step
<1> DEFINE code == Step.code
           contract == NextContract(code)
           n == Len(pending[Deployer])
<1>3. PICK new : new = contract
    OBVIOUS
<1>4. PICK c : c = code
    OBVIOUS
<1>5. new \in OnTestnet /\ new.code = c /\ new.number = CountOf(c) + 1
  <2>1. CreatedOf(c) = {x \in WithCode : x.code = c}
      BY <1>2 DEF CreatedOf, WithCode
  <2>2. SentOf(c) = {i \in 1 .. Len(pending[Deployer]) : /\ pending[Deployer][i].call = "create"
                                                        /\ pending[Deployer][i].to.code = c}
      BY DEF SentOf, IsCreation
  <2>3. new = [code |-> c, salt |-> "none",
               number |-> Cardinality(CreatedOf(c)) + Cardinality(SentOf(c)) + 1]
      BY <1>3, <1>4, <2>1, <2>2 DEF NextContract
  <2>4. new \in OnTestnet
      BY <1>3, CreationTyped
  <2> QED BY <2>3, <2>4 DEF CountOf
<1>6. /\ n \in Nat /\ Deployer \in Signers /\ pending[Deployer] \in Seq(Txs)
      /\ Len(pending'[Deployer]) = n + 1
      /\ \A i \in 1 .. n : pending'[Deployer][i] = pending[Deployer][i]
      /\ pending'[Deployer][n + 1] = Creation(new)
  <2>1. Creation(new) \in Txs /\ SendTransaction(Creation(new)) /\ Creation(new).from = Deployer
      BY <1>3, CreationTyped DEF Creation
  <2> QED BY <1>1, <2>1, SendFacts DEF Signers, StatesTyped
<1>7. deployed' = deployed
    BY DEF SendCreation, SendTransaction, chain
<1> HIDE DEF code, contract, n
<1>8. \A d : CountOf(d) \in Nat
    BY <1>1, <1>6, CreationsFinite, SentFinite DEF CountOf, n
<1>9. \A d : CreatedOf(d)' = CreatedOf(d)
    BY <1>7 DEF CreatedOf
<1>10. \A d : SentOf(d)' = SentOf(d) \cup (IF d = c THEN {n + 1} ELSE {})
  <2>1. \A i \in 1 .. n : IsCreation(i)' = IsCreation(i)
      BY <1>6 DEF IsCreation
  <2>2. Creation(new).call = "create" /\ Creation(new).to.code = c
      BY <1>5 DEF Creation
  <2> QED BY <1>6, <2>1, <2>2 DEF SentOf, IsCreation, n
<1>11. \A d : CountOf(d)' = CountOf(d) + (IF d = c THEN 1 ELSE 0)
  <2>1. ASSUME NEW d PROVE CountOf(d)' = CountOf(d) + (IF d = c THEN 1 ELSE 0)
    <3>1. PICK S : S = SentOf(d)
        OBVIOUS
    <3>2. /\ IsFiniteSet(S) /\ Cardinality(S) \in Nat
          /\ Cardinality(CreatedOf(d)) \in Nat
        BY <1>6, <3>1, SentFinite, CreationsFinite DEF n
    <3>3. n + 1 \notin S
        BY <1>6, <3>1 DEF SentOf, n
    <3>4. Cardinality(S \cup (IF d = c THEN {n + 1} ELSE {}))
              = Cardinality(S) + (IF d = c THEN 1 ELSE 0)
      <4>1. CASE d = c
          BY <3>2, <3>3, <4>1, FS_AddElement
      <4>2. CASE d # c
        <5>1. S \cup (IF d = c THEN {n + 1} ELSE {}) = S
            BY <4>2
        <5> QED BY <3>2, <4>2, <5>1
      <4> QED BY <4>1, <4>2
    <3>5. CountOf(d)' = Cardinality(CreatedOf(d)) + Cardinality(S \cup (IF d = c THEN {n + 1} ELSE {}))
        BY <1>9, <1>10, <3>1 DEF CountOf, Cardinality
    <3>6. CountOf(d) = Cardinality(CreatedOf(d)) + Cardinality(S)
        BY <3>1 DEF CountOf
    <3> HIDE DEF n
    <3> QED BY <3>2, <3>4, <3>5, <3>6
  <2> QED BY <2>1
<1>12. \A i \in 1 .. Len(pending'[Deployer]) : IsCreation(i)' =>
           /\ pending'[Deployer][i].to \in OnTestnet
           /\ \/ i = n + 1 /\ pending'[Deployer][i].to = new
              \/ /\ i \in 1 .. n /\ IsCreation(i)
                 /\ pending'[Deployer][i] = pending[Deployer][i]
  <2>1. \A tx \in Txs : tx.call = "create" => tx.to \in OnTestnet
      BY DEF Txs
  <2>2. /\ Creation(new).to = new
        /\ \A i \in 1 .. Len(pending'[Deployer]) : i = n + 1 \/ i \in 1 .. n
        /\ \A i \in 1 .. n : pending[Deployer][i] \in Txs
      BY <1>6 DEF Creation, n
  <2>3. ASSUME NEW i \in 1 .. n, IsCreation(i)'
        PROVE  /\ IsCreation(i) /\ pending'[Deployer][i] = pending[Deployer][i]
               /\ pending'[Deployer][i].to \in OnTestnet
      BY <1>6, <2>1, <2>2, <2>3 DEF IsCreation
  <2> HIDE DEF n
  <2> QED BY <1>5, <1>6, <2>2, <2>3
<1>13. \A i \in 1 .. n : IsCreation(i) =>
           /\ pending[Deployer][i].to # new
           /\ pending[Deployer][i].to.number \in Nat
           /\ pending[Deployer][i].to.number <= CountOf(pending[Deployer][i].to.code)
  <2>1. \A x \in OnTestnet : x.number \in Nat
      BY DEF OnTestnet
  <2>2. ASSUME NEW i \in 1 .. n, IsCreation(i)
        PROVE  /\ pending[Deployer][i].to \in OnTestnet
               /\ pending[Deployer][i].to.number <= CountOf(pending[Deployer][i].to.code)
      BY <1>1, <1>6, <2>2 DEF IsCreation, Txs, Creations, CreationsCounted, n
  <2> QED BY <1>5, <1>8, <2>1, <2>2
<1>14. /\ new \notin deployed
       /\ \A x \in deployed \cap OnTestnet : x.number \in Nat /\ x.number <= CountOf(x.code)
    BY <1>1, <1>5, <1>8 DEF Creations, CreationsCounted, OnTestnet
<1>15. CreationsApart'
    BY <1>1, <1>7, <1>12, <1>13, <1>14 DEF Creations, CreationsApart, n
<1>16. CreationsCounted'
  <2>1. \A d : CountOf(d)' \in Nat /\ CountOf(d) <= CountOf(d)' /\ CountOf(c)' = CountOf(c) + 1
      BY <1>8, <1>11
  <2>2. ASSUME NEW x \in deployed \cap OnTestnet PROVE x.number <= CountOf(x.code)'
    <3>1. PICK d : d = x.code
        OBVIOUS
    <3> QED BY <1>8, <1>14, <2>1, <2>2, <3>1
  <2>3. ASSUME NEW i \in 1 .. Len(pending'[Deployer]), IsCreation(i)'
        PROVE  pending'[Deployer][i].to.number <= CountOf(pending[Deployer][i].to.code)'
    <3>1. PICK x : x = pending'[Deployer][i].to
        OBVIOUS
    <3>2. PICK d : d = x.code
        OBVIOUS
    <3>3. CASE x = new
        BY <1>5, <1>8, <2>1, <3>1, <3>2, <3>3
    <3>4. CASE x # new
      <4>1. x.number \in Nat /\ x.number <= CountOf(d)
          BY <1>12, <1>13, <2>3, <3>1, <3>2, <3>4
      <4> QED BY <1>8, <2>1, <3>1, <3>2, <4>1
    <3> QED BY <3>3, <3>4
  <2> QED BY <1>7, <2>2, <2>3 DEF CreationsCounted
<1> QED BY <1>15, <1>16 DEF Creations

\* One that is mined is counted as deployed instead of as sent.
LEMMA MineCounted ==
    ASSUME Inv, Mine(Deployer)
    PROVE  Creations'
<1>1. StatesTyped /\ Creations
    BY DEF Inv, Creations
<1>2. PICK tx : tx = Head(pending[Deployer])
    OBVIOUS
<1>3. PICK added : added = IF tx.call = "create" THEN {tx.to} ELSE {}
    OBVIOUS
<1>4. PICK n : n = Len(pending[Deployer])
    OBVIOUS
<1>5. /\ n \in Nat \ {0} /\ pending[Deployer] \in Seq(Txs)
      /\ tx = pending[Deployer][1] /\ tx \in Txs
      /\ Len(pending'[Deployer]) = n - 1
      /\ \A i \in 1 .. n - 1 : pending'[Deployer][i] = pending[Deployer][i + 1]
    BY <1>1, <1>2, <1>4, MineFacts DEF Signers, StatesTyped
<1>6. /\ tx.call = "create" => tx.to \in OnTestnet
      /\ IsCreation(1) <=> tx.call = "create"
    BY <1>5 DEF Txs, IsCreation
<1>7. deployed' = deployed \cup added
  <2>1. (Succeeds(tx) /\ Execute(tx)) \/ (~Succeeds(tx) /\ UNCHANGED chain)
      BY <1>2 DEF Mine
  <2>2. CASE tx.call = "create"
      BY <1>3, <2>1, <2>2 DEF Succeeds, Execute, ExecuteCreate, IntoTheVoid
  <2>3. CASE tx.call # "create"
      BY <1>3, <2>1, <2>3, CallDeploysNothing DEF chain
  <2> QED BY <2>2, <2>3
<1>8. added \cap deployed = {}
    BY <1>1, <1>3, <1>4, <1>5, <1>6 DEF Creations, CreationsApart
<1>9. \A d : CountOf(d)' = CountOf(d)
  <2>1. ASSUME NEW d PROVE CountOf(d)' = CountOf(d)
    <3>1. PICK S : S = SentOf(d)
        OBVIOUS
    <3>2. PICK C : C = CreatedOf(d)
        OBVIOUS
    <3>3. /\ IsFiniteSet(S) /\ Cardinality(S) \in Nat
          /\ IsFiniteSet(C) /\ Cardinality(C) \in Nat
        BY <1>4, <1>5, <3>1, <3>2, SentFinite, CreationsFinite
    <3>4. Cardinality(SentOf(d)') = Cardinality(S \ {1})
        BY <1>1, <3>1, SentShift
    <3>5. Cardinality(S \ {1}) = IF 1 \in S THEN Cardinality(S) - 1 ELSE Cardinality(S)
        BY <3>3, FS_RemoveElement
    <3>6. 1 \in S <=> (tx.call = "create" /\ tx.to.code = d)
        BY <1>4, <1>5, <1>6, <3>1 DEF SentOf
    <3>7. Cardinality(CreatedOf(d)') = IF 1 \in S THEN Cardinality(C) + 1 ELSE Cardinality(C)
      <4>1. CASE 1 \in S
        <5>1. CreatedOf(d)' = C \cup {tx.to}
            BY <1>3, <1>6, <1>7, <3>2, <3>6, <4>1 DEF CreatedOf
        <5>2. tx.to \notin C
            BY <1>3, <1>8, <3>2, <3>6, <4>1 DEF CreatedOf
        <5> QED BY <3>3, <4>1, <5>1, <5>2, FS_AddElement
      <4>2. CASE 1 \notin S
        <5>1. CreatedOf(d)' = C
            BY <1>3, <1>7, <3>2, <3>6, <4>2 DEF CreatedOf
        <5> QED BY <4>2, <5>1
      <4> QED BY <4>1, <4>2
    <3>8. /\ CountOf(d) = Cardinality(C) + Cardinality(S)
          /\ CountOf(d)' = Cardinality(CreatedOf(d)') + Cardinality(SentOf(d)')
        BY <3>1, <3>2 DEF CountOf, Cardinality
    <3> QED BY <3>3, <3>4, <3>5, <3>7, <3>8
  <2> QED BY <2>1
<1>10. \A i \in 1 .. Len(pending'[Deployer]) : IsCreation(i)' =>
           /\ i + 1 \in 1 .. n /\ i + 1 # 1 /\ IsCreation(i + 1)
           /\ pending'[Deployer][i] = pending[Deployer][i + 1]
    BY <1>4, <1>5 DEF IsCreation
<1>11. CreationsApart'
  <2>1. ASSUME NEW i \in 1 .. n, IsCreation(i), i # 1
        PROVE  pending[Deployer][i].to \notin deployed'
      BY <1>1, <1>3, <1>4, <1>5, <1>6, <1>7, <2>1 DEF Creations, CreationsApart
  <2>2. \A i, j \in 1 .. n : IsCreation(i) /\ IsCreation(j) /\ i # j =>
            pending[Deployer][i].to # pending[Deployer][j].to
      BY <1>1, <1>4 DEF Creations, CreationsApart
  <2>3. ASSUME NEW i \in 1 .. Len(pending'[Deployer]), IsCreation(i)'
        PROVE  pending'[Deployer][i].to \notin deployed'
      BY <1>10, <2>1, <2>3
  <2>4. ASSUME NEW i \in 1 .. Len(pending'[Deployer]), IsCreation(i)',
               NEW j \in 1 .. Len(pending'[Deployer]), IsCreation(j)', i # j
        PROVE  pending'[Deployer][i].to # pending'[Deployer][j].to
    <3>1. i + 1 # j + 1
        BY <2>4
    <3> QED BY <1>10, <2>2, <2>4, <3>1
  <2> QED BY <2>3, <2>4 DEF CreationsApart
<1>12. CreationsCounted'
  <2>1. ASSUME NEW x \in deployed' \cap OnTestnet PROVE x.number <= CountOf(x.code)'
    <3>1. PICK d : d = x.code
        OBVIOUS
    <3>2. x.number <= CountOf(d)
      <4>1. CASE x \in deployed
          BY <1>1, <2>1, <3>1, <4>1 DEF Creations, CreationsCounted
      <4>2. CASE x \notin deployed
        <5>1. x = tx.to /\ IsCreation(1)
            BY <1>3, <1>6, <1>7, <2>1, <4>2
        <5> QED BY <1>1, <1>4, <1>5, <3>1, <5>1 DEF Creations, CreationsCounted
      <4> QED BY <4>1, <4>2
    <3> QED BY <1>9, <3>1, <3>2
  <2>2. ASSUME NEW i \in 1 .. Len(pending'[Deployer]), IsCreation(i)'
        PROVE  pending'[Deployer][i].to.number <= CountOf(pending[Deployer][i].to.code)'
    <3>1. PICK x : x = pending'[Deployer][i].to
        OBVIOUS
    <3>2. PICK d : d = x.code
        OBVIOUS
    <3>3. x.number <= CountOf(d)
        BY <1>1, <1>4, <1>10, <2>2, <3>1, <3>2 DEF Creations, CreationsCounted
    <3> QED BY <1>9, <3>1, <3>2, <3>3
  <2> QED BY <2>1, <2>2 DEF CreationsCounted
<1> QED BY <1>11, <1>12 DEF Creations

\* Every creation goes to an address of its own.
LEMMA CreationsStep ==
    ASSUME Inv, Next
    PROVE  Creations'
<1>1. /\ StatesTyped /\ Creations /\ script \in Scripts /\ Deployer \in Signers
      /\ pending[Deployer] \in Seq(Txs) /\ Len(pending[Deployer]) \in Nat
    BY DEF Inv, StatesTyped, Creations, Signers
<1>2. ASSUME UNCHANGED pending, deployed' \cap OnTestnet = deployed \cap OnTestnet
      PROVE  Creations'
    BY <1>1, <1>2, CreationsSame
<1>3. ASSUME NEW name \in Exports, FactoryCreate(name) PROVE Creations'
  <2>1. GetOasysDeploymentAddress(name) \notin OnTestnet
      BY DEF GetOasysDeploymentAddress, ToSalt, OnTestnet, Exports
  <2> QED BY <1>2, <1>3, <2>1 DEF FactoryCreate
<1>4. ASSUME SendCall PROVE Creations'
  <2>1. Step.call \in Calls /\ CanSend(Step.call)
      BY <1>1, <1>4, StepFacts DEF SendCall, At, Step
  <2>2. PICK tx : tx = Transaction(Step.call)
      OBVIOUS
  <2>3. tx \in Txs /\ tx.call # "create" /\ SendTransaction(tx)
      BY <1>4, <2>1, <2>2, TransactionTyped
      DEF SendCall, Inv, Calls, CallsOfDeployer, CallsOfVestingOwner
  <2>4. deployed' = deployed
      BY <2>3 DEF SendTransaction, chain
  <2>5. CASE tx.from = Deployer
    <3>1. /\ Len(pending'[Deployer]) = Len(pending[Deployer]) + 1
          /\ \A i \in 1 .. Len(pending[Deployer]) : pending'[Deployer][i] = pending[Deployer][i]
          /\ pending'[Deployer][Len(pending[Deployer]) + 1] = tx
        BY <1>1, <2>3, <2>5, SendFacts
    <3>2. \A i \in 1 .. Len(pending'[Deployer]) :
              i > Len(pending[Deployer]) => pending'[Deployer][i].call # "create"
        BY <1>1, <2>3, <3>1
    <3> QED BY <1>1, <2>4, <3>1, <3>2, CreationsSame
  <2>6. CASE tx.from # Deployer
    <3>1. pending'[Deployer] = pending[Deployer]
        BY <1>1, <2>3, <2>6, SendFacts
    <3> QED BY <1>1, <2>4, <3>1, CreationsSame
  <2> QED BY <2>5, <2>6
<1>5. ASSUME NEW signer \in Signers, Mine(signer), signer # Deployer
      PROVE  Creations'
  <2>1. PICK tx : tx = Head(pending[signer])
      OBVIOUS
  <2>2. tx.call # "create" /\ tx.from = signer
      BY <1>1, <1>5, <2>1, MineFacts DEF Txs
  <2>3. deployed' = deployed
      BY <1>5, <2>1, <2>2, CallDeploysNothing DEF Mine, chain
  <2>4. pending'[Deployer] = pending[Deployer]
      BY <1>1, <1>5, MineFacts
  <2> QED BY <1>1, <2>3, <2>4, CreationsSame
<1>6. Mine(Deployer) => Creations'
    BY MineCounted
<1>7. SendCreation => Creations'
    BY SendCreationCounted
<1> QED
    BY <1>2, <1>3, <1>4, <1>5, <1>6, <1>7
    DEF Next, Start, Stop, ScriptStep, Throw, RegisterAddress, RegisterPrediction,
        WriteCallData, PrintAddressAndSalt, ReportFinished, chain

-----------------------------------------------------------------------------
(***************************************************************************)
(* The script: how what is left of it changes.                             *)
(***************************************************************************)

\* A script that goes on leaves its first step, and the others move up by one.
LEMMA TailFacts ==
    ASSUME script \in Scripts, script.todo # <<>>, NEW rest, rest = Tail(script.todo)
    PROVE  /\ rest \in Seq(Steps)
           /\ Len(script.todo) \in Nat \ {0}
           /\ Len(rest) \in Nat
           /\ Len(rest) = Len(script.todo) - 1
           /\ \A i \in 1 .. Len(rest) :
                 /\ rest[i] = script.todo[i + 1]
                 /\ i + 1 \in 1 .. Len(script.todo)
           /\ Step = script.todo[1]
           /\ 1 \in 1 .. Len(script.todo)
<1>1. script.todo \in Seq(Steps) /\ Len(script.todo) \in Nat \ {0}
    BY StepFacts DEF Scripts
<1>2. /\ rest \in Seq(Steps)
      /\ Len(rest) = Len(script.todo) - 1
      /\ \A i \in 1 .. Len(rest) : rest[i] = script.todo[i + 1]
    BY <1>1, HeadTailProperties
<1> QED BY <1>1, <1>2, StepFacts

\* What becomes of a registration, or of a prediction, when the script leaves
\* the step before it.
LEMMA ShiftOrdered ==
    ASSUME script \in Scripts, script.todo # <<>>, ScriptOrdered,
           NEW rest, rest = Tail(script.todo), NEW i \in 1 .. Len(rest)
    PROVE  /\ rest[i].do = "register" =>
                 \/ RegistersDeployed(rest, i)
                 \/ /\ RegistersBetween(rest, 0, i)
                    /\ Step.do = "deploy"
                    /\ Step.code \in CodesOf(rest[i].name)
                 \/ /\ RegistersBetween(rest, 0, i)
                    /\ Step.do = "register"
                    /\ Compatible(Step.name, rest[i].name)
                    /\ Registrable(rest[i].name)
           /\ rest[i].do = "predict" =>
                 \/ PredictsExported(rest, i)
                 \/ Step = Export(rest[i].name)
                 \/ Saved(rest[i].name)
<1>1. PICK todo : todo = script.todo
    OBVIOUS
<1>2. /\ Len(todo) \in Nat \ {0}
      /\ Len(rest) = Len(todo) - 1
      /\ \A m \in 1 .. Len(rest) : rest[m] = todo[m + 1] /\ m + 1 \in 1 .. Len(todo)
      /\ Step = todo[1] /\ 1 \in 1 .. Len(todo)
    BY <1>1, TailFacts
<1>3. ASSUME NEW j \in Nat, NEW k \in Nat, RegistersBetween(todo, k, i + 1), k <= j + 1
      PROVE  RegistersBetween(rest, j, i)
  <2>1. ASSUME NEW m \in 1 .. Len(rest), j < m, m < i
        PROVE  rest[m].do = "register" /\ Compatible(rest[m].name, rest[i].name)
    <3>1. m + 1 \in 1 .. Len(todo) /\ k < m + 1 /\ m + 1 < i + 1
        BY <1>2, <1>3, <2>1
    <3>2. todo[m + 1].do = "register" /\ Compatible(todo[m + 1].name, todo[i + 1].name)
        BY <1>3, <3>1 DEF RegistersBetween
    <3> QED BY <1>2, <3>2
  <2> QED BY <2>1 DEF RegistersBetween
<1>4. ASSUME rest[i].do = "register", RegistersDeployed(todo, i + 1)
      PROVE  \/ RegistersDeployed(rest, i)
             \/ /\ RegistersBetween(rest, 0, i)
                /\ Step.do = "deploy"
                /\ Step.code \in CodesOf(rest[i].name)
  <2>1. PICK j \in 1 .. Len(todo) : /\ j < i + 1
                                    /\ todo[j].do = "deploy"
                                    /\ todo[j].code \in CodesOf(todo[i + 1].name)
                                    /\ RegistersBetween(todo, j, i + 1)
      BY <1>4 DEF RegistersDeployed
  <2>2. CASE j = 1
    <3>1. RegistersBetween(rest, 0, i)
        BY <1>3, <2>1, <2>2
    <3> QED BY <1>2, <2>1, <2>2, <3>1
  <2>3. CASE j # 1
    <3>1. PICK k : k = j - 1
        OBVIOUS
    <3>2. k \in 1 .. Len(rest) /\ k < i /\ k + 1 = j /\ j \in Nat /\ k \in Nat
        BY <1>2, <2>1, <2>3, <3>1
    <3>3. RegistersBetween(rest, k, i)
        BY <1>3, <2>1, <3>2
    <3>4. rest[k].do = "deploy" /\ rest[k].code \in CodesOf(rest[i].name)
        BY <1>2, <2>1, <3>2
    <3> QED BY <3>2, <3>3, <3>4 DEF RegistersDeployed
  <2> QED BY <2>2, <2>3
<1>5. ASSUME rest[i].do = "register", RegistersBetween(todo, 0, i + 1), Registrable(rest[i].name)
      PROVE  /\ RegistersBetween(rest, 0, i)
             /\ Step.do = "register"
             /\ Compatible(Step.name, rest[i].name)
             /\ Registrable(rest[i].name)
  <2>1. RegistersBetween(rest, 0, i)
      BY <1>3, <1>5
  <2>2. todo[1].do = "register" /\ Compatible(todo[1].name, todo[i + 1].name)
      BY <1>2, <1>5 DEF RegistersBetween
  <2> QED BY <1>2, <1>5, <2>1, <2>2
<1>6. ASSUME rest[i].do = "predict", PredictsExported(todo, i + 1)
      PROVE  PredictsExported(rest, i) \/ Step = Export(rest[i].name)
  <2>1. PICK j \in 1 .. Len(todo) : j < i + 1 /\ todo[j] = Export(todo[i + 1].name)
      BY <1>6 DEF PredictsExported
  <2>2. CASE j = 1
      BY <1>2, <2>1, <2>2
  <2>3. CASE j # 1
    <3>1. PICK k : k = j - 1
        OBVIOUS
    <3>2. k \in 1 .. Len(rest) /\ k < i /\ k + 1 = j
        BY <1>2, <2>1, <2>3, <3>1
    <3> QED BY <1>2, <2>1, <3>2 DEF PredictsExported
  <2> QED BY <2>2, <2>3
<1>7. rest[i] = todo[i + 1] /\ i + 1 \in 1 .. Len(todo)
    BY <1>2
<1> QED BY <1>1, <1>4, <1>5, <1>6, <1>7 DEF ScriptOrdered

\* A script that goes on stays in order, if what it deployed may be registered,
\* under each of the names it gives it, and what it exported may be predicted.
LEMMA OrderedAdvance ==
    ASSUME script \in Scripts, script.todo # <<>>, ScriptOrdered, script' = Advance,
           network' = network, exported \subseteq exported',
           Step.do = "deploy" => \A name : Step.code \in CodesOf(name) =>
              (script'.created = script.created => Registrable(name)'),
           Step.do = "register" => \A name :
              Compatible(Step.name, name) /\ Registrable(name) =>
              (script'.created = script.created => Registrable(name)'),
           Step.do = "export" /\ network = "oasys" => Step.name \in exported'
    PROVE  ScriptOrdered'
<1>1. PICK rest : rest = Tail(script.todo)
    OBVIOUS
<1>2. script'.todo = rest
    BY <1>1, AdvanceFacts
<1>3. ASSUME NEW i \in 1 .. Len(rest)
      PROVE  /\ rest[i].do = "register" =>
                   \/ RegistersDeployed(rest, i)
                   \/ RegistersBetween(rest, 0, i) /\ Registrable(rest[i].name)'
             /\ rest[i].do = "predict" => PredictsExported(rest, i) \/ Saved(rest[i].name)'
  <2>1. /\ rest[i].do = "register" =>
                 \/ RegistersDeployed(rest, i)
                 \/ /\ RegistersBetween(rest, 0, i)
                    /\ Step.do = "deploy"
                    /\ Step.code \in CodesOf(rest[i].name)
                 \/ /\ RegistersBetween(rest, 0, i)
                    /\ Step.do = "register"
                    /\ Compatible(Step.name, rest[i].name)
                    /\ Registrable(rest[i].name)
        /\ rest[i].do = "predict" =>
                 \/ PredictsExported(rest, i)
                 \/ Step = Export(rest[i].name)
                 \/ Saved(rest[i].name)
      BY <1>1, ShiftOrdered
  <2>2. rest # <<>>
      BY <1>3
  <2>3. script'.created = script.created
      BY <1>2, <2>2, AdvanceFacts
  <2>4. Step = Export(rest[i].name) => Step.do = "export" /\ Step.name = rest[i].name
      BY DEF Export
  <2>5. PICK name : name = rest[i].name
      OBVIOUS
  <2>6. Step.do = "deploy" /\ Step.code \in CodesOf(name) => Registrable(name)'
      BY <2>3
  <2>7. Step.do = "register" /\ Compatible(Step.name, name) /\ Registrable(name)
            => Registrable(name)'
      BY <2>3
  <2>8. Step = Export(name) \/ Saved(name) => Saved(name)'
      BY <2>4, <2>5 DEF Saved
  <2>9. /\ Registrable(rest[i].name)' <=> Registrable(name)'
        /\ Saved(rest[i].name)' <=> Saved(name)'
      BY <2>5
  <2> QED BY <2>1, <2>5, <2>6, <2>7, <2>8, <2>9
<1> QED BY <1>2, <1>3 DEF ScriptOrdered

\* What may be registered may still be registered, as long as the entries of
\* the two proxies lead nowhere new.
LEMMA RegistrableSame ==
    ASSUME NEW name, Registrable(name), deployed \subseteq deployed', FewerTargets,
           script'.created = script.created
    PROVE  Registrable(name)'
BY DEF Registrable, FewerTargets

\* So a script that stays where it is stays in order, and so does none.
LEMMA OrderedSame ==
    ASSUME ScriptOrdered, deployed \subseteq deployed', exported \subseteq exported',
           network' = network, FewerTargets,
           script'.created = script.created, script'.todo = script.todo
    PROVE  ScriptOrdered'
<1>1. \A name : Saved(name) => Saved(name)'
    BY DEF Saved
<1> QED BY <1>1, RegistrableSame DEF ScriptOrdered

\* A script that ended is in order.
LEMMA OrderedIdle ==
    ASSUME script' = Idle
    PROVE  ScriptOrdered'
BY DEF ScriptOrdered, Idle

\* A script that sends a creation is at the deployment.
LEMMA OrderedCreation ==
    ASSUME script \in Scripts, ScriptOrdered, SendCreation
    PROVE  ScriptOrdered'
<1>1. /\ script.todo # <<>> /\ Step = script.todo[1] /\ Step.do = "deploy"
      /\ Len(script.todo) \in Nat \ {0}
    BY StepFacts DEF SendCreation, At, Step
<1>2. script'.todo = script.todo /\ \A name : Saved(name) => Saved(name)'
    BY DEF SendCreation, Awaited, Scripts, SendTransaction, disk, Saved
<1>3. ASSUME NEW i \in 1 .. Len(script.todo), script.todo[i].do = "register"
      PROVE  RegistersDeployed(script.todo, i)
  <2>1. i # 1 /\ 0 < 1 /\ 1 < i /\ 1 \in 1 .. Len(script.todo)
      BY <1>1, <1>3
  <2>2. ~RegistersBetween(script.todo, 0, i)
      BY <1>1, <2>1 DEF RegistersBetween
  <2> QED BY <1>3, <2>2 DEF ScriptOrdered
<1> QED BY <1>2, <1>3 DEF ScriptOrdered

\* The contract that is mined while the script waits for it is new: no entry
\* and no upgrade leads to it.
LEMMA MinedRegistrable ==
    ASSUME Inv, NEW signer \in Signers, Mine(signer), script.waitsFor = signer,
           Len(pending[signer]) = 1, Step.do = "deploy", FewerTargets,
           script'.created = script.created,
           NEW name, Step.code \in CodesOf(name)
    PROVE  Registrable(name)'
<1>1. PICK new : new = script.created
    OBVIOUS
<1>2. script.waitsFor # NoAddress
    BY PeopleAssumption DEF Signers, People
<1>3. /\ signer = Deployer
      /\ LastPending(Deployer) = Creation(new)
      /\ new.code = Step.code
    BY <1>1, <1>2 DEF Inv, ScriptWaits, Step, Creation
<1>4. StatesTyped /\ deployed \subseteq Contracts /\ Deployer \in Signers
    BY DEF Inv, StatesTyped, Signers
<1>5. /\ pending[Deployer][1] = Creation(new) /\ pending[Deployer][1] \in Txs
      /\ Head(pending[Deployer]) = Creation(new)
    BY <1>3, <1>4, MineFacts DEF LastPending
<1>6. /\ new \in OnTestnet
      /\ new \notin deployed
  <2>1. Creation(new).call = "create" /\ Creation(new).to = new
      BY DEF Creation
  <2>2. new \in OnTestnet
      BY <1>5, <2>1 DEF Txs
  <2>3. new \notin deployed
      BY <1>3, <1>5, <2>1 DEF Inv, CreationsApart, IsCreation
  <2> QED BY <2>2, <2>3
<1>7. deployed' = deployed \cup {new}
  <2>1. Creation(new).call = "create" /\ Creation(new).to = new
      BY DEF Creation
  <2>2. Succeeds(Creation(new))
      BY <2>1 DEF Succeeds
  <2>3. Execute(Creation(new))
      BY <1>3, <1>5, <2>2 DEF Mine
  <2> QED BY <2>1, <2>3 DEF Execute, ExecuteCreate, IntoTheVoid
<1>8. new \notin TokenTargets /\ new \notin VaultTargets
  <2>1. new # NoAddress
      BY <1>6, AddressesAssumption DEF Contracts
  <2>2. \A other \in Names : new \notin Known(other)
      BY <1>4, <1>6, KnownFacts
  <2>3. TokenEntry \in Names /\ VaultEntry \in Names
      BY DEF TokenEntry, VaultEntry, Names
  <2> QED BY <2>1, <2>2, <2>3 DEF Inv, TargetsKnown
<1> QED BY <1>1, <1>3, <1>6, <1>7, <1>8 DEF Registrable, FewerTargets

\* A registration is always of what the script itself deployed and saw mined,
\* under names that fit its code.
LEMMA ScriptOrderedStep ==
    ASSUME Inv, Next
    PROVE  ScriptOrdered'
<1>1. /\ script \in Scripts /\ ScriptOrdered /\ StatesTyped
      /\ db \in [BothNetworks -> [Names -> Contracts \cup {NoAddress}]]
      /\ network \in BothNetworks
      /\ deployed \subseteq deployed'
    BY DeployedGrows DEF Inv, StatesTyped
<1>2. ~RegisterAddress /\ ~RegisterPrediction => FewerTargets
    BY TargetsSame
<1>3. ASSUME NEW on \in {"testnet", "oasys"}, NEW task \in TasksOn[on], Start(on, task)
      PROVE  ScriptOrdered'
  <2>1. WellOrdered(Program(on, task))
      BY ProgramsAreOrderly DEF Orderly, BothNetworks
  <2>2. script'.todo = Program(on, task)
      BY <1>3 DEF Start, Idle
  <2> QED BY <2>1, <2>2 DEF ScriptOrdered, WellOrdered
<1>4. ASSUME Stop \/ Throw PROVE ScriptOrdered'
    BY <1>4, OrderedIdle DEF Stop, Throw
<1>5. ASSUME NEW name \in Exports, FactoryCreate(name) PROVE ScriptOrdered'
  <2>1. ~RegisterAddress /\ ~RegisterPrediction
      BY <1>5 DEF FactoryCreate, RegisterAddress, RegisterPrediction, chain
  <2> QED BY <1>1, <1>2, <1>5, <2>1, OrderedSame DEF FactoryCreate, disk
<1>6. SendCreation => ScriptOrdered'
    BY <1>1, OrderedCreation
<1> DEFINE GoesOn == /\ script' = Advance /\ script.todo # <<>>
                     /\ network' = network /\ exported \subseteq exported'
<1>7. ASSUME GoesOn, FewerTargets, Step.do \in {"send", "predict", "print", "finish"}
      PROVE  ScriptOrdered'
    BY <1>1, <1>7, OrderedAdvance
<1>8. ASSUME SendCall PROVE ScriptOrdered'
  <2>1. ~RegisterAddress /\ ~RegisterPrediction
      BY <1>8 DEF SendCall, RegisterAddress, RegisterPrediction, At
  <2>2. network' = network /\ exported' = exported /\ script.todo # <<>> /\ Step.do = "send"
      BY <1>8 DEF SendCall, SendTransaction, disk, At, Step
  <2>3. GoesOn \/ (script'.created = script.created /\ script'.todo = script.todo)
      BY <1>1, <1>8, <2>2 DEF SendCall, Scripts
  <2> HIDE DEF GoesOn
  <2> QED BY <1>1, <1>2, <1>7, <2>1, <2>2, <2>3, OrderedSame
<1>9. ASSUME RegisterAddress PROVE ScriptOrdered'
  <2>1. PICK to \in Names : to = Step.name
      BY <1>1, <1>9, StepFacts DEF RegisterAddress, At, Step
  <2>2. GoesOn /\ Step.do = "register"
      BY <1>9 DEF RegisterAddress, At, Step
  <2>3. Registrable(to) /\ db' = [db EXCEPT ![network][to] = script.created]
      BY <1>1, <1>9, <2>1, HeadRegistrable DEF RegisterAddress
  <2>4. /\ to # TokenEntry => TokenTargets' \subseteq TokenTargets
        /\ to # VaultEntry => VaultTargets' \subseteq VaultTargets
        /\ TokenTargets' \subseteq TokenTargets \cup {script.created}
        /\ VaultTargets' \subseteq VaultTargets \cup {script.created}
      BY <1>1, <1>9, <2>1, <2>3 DEF RegisterAddress, TokenTargets, VaultTargets, UpgradeTargets,
         TokenEntry, VaultEntry
  <2>5. ASSUME NEW name, Compatible(to, name), Registrable(name),
               script'.created = script.created
        PROVE  Registrable(name)'
    <3>1. to = TokenEntry => name # VaultEntry
        BY <2>5 DEF Compatible
    <3>2. to = VaultEntry => name # TokenEntry
        BY <2>5 DEF Compatible
    <3> QED BY <1>1, <2>4, <2>5, <3>1, <3>2 DEF Registrable
  <2> QED BY <1>1, <2>1, <2>2, <2>5, OrderedAdvance
<1>10. ASSUME WriteCallData PROVE ScriptOrdered'
  <2>1. GoesOn /\ Step.do = "export" /\ (network = "oasys" => Step.name \in exported')
      BY <1>10 DEF WriteCallData, At, Step
  <2> QED BY <1>1, <2>1, OrderedAdvance
<1>11. ASSUME RegisterPrediction PROVE ScriptOrdered'
  <2>1. GoesOn /\ Step.do = "predict"
      BY <1>11 DEF RegisterPrediction, At, Step
  <2> QED BY <1>1, <2>1, OrderedAdvance
<1>12. ASSUME PrintAddressAndSalt \/ ReportFinished PROVE ScriptOrdered'
  <2>1. GoesOn /\ Step.do \in {"print", "finish"}
      BY <1>12 DEF PrintAddressAndSalt, ReportFinished, At, Step, disk
  <2> QED BY <1>1, <2>1, OrderedAdvance
<1>13. ASSUME NEW signer \in Signers, Mine(signer) PROVE ScriptOrdered'
  <2>1. FewerTargets /\ exported' = exported /\ network' = network
    <3>1. ~RegisterAddress /\ ~RegisterPrediction
      <4>1. pending'[signer] # pending[signer]
          BY <1>1, <1>13, MineFacts
      <4> QED BY <4>1 DEF RegisterAddress, RegisterPrediction
    <3> QED BY <1>2, <1>13, <3>1 DEF Mine, disk
  <2>2. \/ script' \in {script, Idle}
        \/ script' = Advance /\ script.waitsFor = signer /\ Len(pending[signer]) = 1
    <3> DEFINE waited == script.waitsFor = signer /\ Len(pending[signer]) = 1
    <3>1. \/ script' = IF waited THEN Advance ELSE script
          \/ script' = IF waited THEN Idle ELSE script
        BY <1>13 DEF Mine
    <3> QED BY <3>1
  <2>3. CASE script' = Idle
      BY <2>3, OrderedIdle
  <2>4. CASE script' = script
      BY <1>1, <2>1, <2>4, OrderedSame
  <2>5. CASE script' = Advance /\ script.waitsFor = signer /\ Len(pending[signer]) = 1
    <3>1. script.waitsFor # NoAddress
        BY <2>5, PeopleAssumption DEF Signers, People
    <3>2. script.todo # <<>> /\ Step.do \in {"deploy", "send"}
        BY <3>1 DEF Inv, ScriptWaits, Step
    <3>3. Step.do = "deploy" => \A name : Step.code \in CodesOf(name) =>
              (script'.created = script.created => Registrable(name)')
        BY <1>13, <2>1, <2>5, MinedRegistrable
    <3> QED BY <1>1, <2>1, <2>5, <3>2, <3>3, OrderedAdvance
  <2> QED BY <2>2, <2>3, <2>4, <2>5
<1> QED
    BY <1>3, <1>4, <1>5, <1>6, <1>8, <1>9, <1>10, <1>11, <1>12, <1>13
    DEF Next, ScriptStep

-----------------------------------------------------------------------------
\* A script whose signer's last transaction is mined goes on, or throws when it
\* reverts.
LEMMA MineScript ==
    ASSUME NEW signer, Mine(signer)
    PROVE  \/ /\ script' = script
              /\ ~(script.waitsFor = signer /\ Len(pending[signer]) = 1)
           \/ /\ script' = Idle
              /\ script.waitsFor = signer /\ Len(pending[signer]) = 1
              /\ ~Succeeds(Head(pending[signer])) /\ UNCHANGED chain
           \/ /\ script' = Advance
              /\ script.waitsFor = signer /\ Len(pending[signer]) = 1
              /\ Succeeds(Head(pending[signer])) /\ Execute(Head(pending[signer]))
BY DEF Mine

\* A call is the same as long as the registry is.
LEMMA TransactionSame ==
    ASSUME UNCHANGED <<network, db>>, NEW call
    PROVE  Transaction(call)' = Transaction(call)
BY DEF Transaction, Entry

\* A script waits for the same as long as its signer's last transaction, and the
\* registry, are the same.
LEMMA WaitsSame ==
    ASSUME ScriptWaits, script' = script, UNCHANGED <<network, db>>,
           \A s : script.waitsFor = s /\ s # NoAddress =>
              pending'[s] # <<>> /\ LastPending(s)' = LastPending(s)
    PROVE  ScriptWaits'
<1>1. CASE script.waitsFor = NoAddress
    BY <1>1 DEF ScriptWaits
<1>2. CASE script.waitsFor # NoAddress
  <2>1. PICK s : s = script.waitsFor
      OBVIOUS
  <2>2. PICK call : call = Head(script.todo).call
      OBVIOUS
  <2>3. Transaction(call)' = Transaction(call)
      BY TransactionSame
  <2>4. pending'[s] # <<>> /\ LastPending(s)' = LastPending(s)
      BY <1>2, <2>1
  <2>5. /\ script.todo # <<>>
        /\ \/ /\ Head(script.todo).do = "deploy"
              /\ s = Deployer
              /\ LastPending(s) = [call |-> "create", from |-> Deployer, to |-> script.created]
              /\ script.created.code = Head(script.todo).code
           \/ /\ Head(script.todo).do = "send"
              /\ Awaited(call)
              /\ LastPending(s) = Transaction(call)
      BY <1>2, <2>1, <2>2 DEF ScriptWaits
  <2>6. LastPending(s)' = pending'[s][Len(pending'[s])]
      BY DEF LastPending
  <2> QED BY <2>1, <2>2, <2>3, <2>4, <2>5, <2>6 DEF ScriptWaits, LastPending
<1> QED BY <1>1, <1>2

\* What a script waits for is the last transaction of its signer: the creation
\* of its step's code, or the call of its step made from the registry as it is.
LEMMA ScriptWaitsStep ==
    ASSUME Inv, Next
    PROVE  ScriptWaits'
<1>1. /\ script \in Scripts /\ ScriptWaits /\ StatesTyped /\ RegistryKnown
      /\ pending \in [Signers -> Seq(Txs)]
      /\ Deployer \in Signers
    BY DEF Inv, StatesTyped, Signers
<1>2. ASSUME script'.waitsFor = NoAddress PROVE ScriptWaits'
    BY <1>2 DEF ScriptWaits
<1>3. Idle.waitsFor = NoAddress /\ (script.todo # <<>> => Advance.waitsFor = NoAddress)
    BY <1>1, AdvanceFacts DEF Idle
<1>4. ASSUME SendCreation PROVE ScriptWaits'
  <2>1. PICK new : new = NextContract(Step.code)
      OBVIOUS
  <2>2. Creation(new) \in Txs /\ SendTransaction(Creation(new)) /\ Creation(new).from = Deployer
      BY <1>4, <2>1, CreationTyped DEF Creation
  <2>3. PICK n : n = Len(pending[Deployer])
      OBVIOUS
  <2>4. /\ n \in Nat /\ pending'[Deployer] \in Seq(Txs)
        /\ Len(pending'[Deployer]) = n + 1
        /\ pending'[Deployer][n + 1] = Creation(new)
      BY <1>1, <2>2, <2>3, SendFacts
  <2>5. pending'[Deployer] # <<>>
      BY <2>4
  <2>6. LastPending(Deployer)' = Creation(new)
      BY <2>4 DEF LastPending
  <2>7. /\ script'.waitsFor = Deployer /\ script'.created = new
        /\ script'.todo = script.todo
        /\ script.todo # <<>> /\ Head(script.todo).do = "deploy"
        /\ new.code = Head(script.todo).code
      BY <1>1, <1>4, <2>1 DEF SendCreation, Awaited, At, Scripts, Step, NextContract
  <2> QED BY <2>5, <2>6, <2>7 DEF ScriptWaits, Creation
<1>5. ASSUME SendCall PROVE ScriptWaits'
  <2>1. script.todo # <<>> /\ Step.do = "send" /\ Step.call \in Calls /\ CanSend(Step.call)
      BY <1>1, <1>5, StepFacts DEF SendCall, At, Step
  <2>2. PICK call : call = Step.call
      OBVIOUS
  <2>3. PICK tx : tx = Transaction(call)
      OBVIOUS
  <2>4. tx \in Txs /\ SendTransaction(tx) /\ tx.call = call
      BY <1>1, <1>5, <2>1, <2>2, <2>3, TransactionTyped DEF SendCall
  <2>5. PICK n : n = Len(pending[tx.from])
      OBVIOUS
  <2>6. /\ n \in Nat /\ pending'[tx.from] \in Seq(Txs) /\ tx.from \in Signers
        /\ Len(pending'[tx.from]) = n + 1
        /\ pending'[tx.from][n + 1] = tx
      BY <1>1, <2>4, <2>5, SendFacts
  <2>7. CASE script' = Advance
      BY <1>2, <1>3, <2>1, <2>7
  <2>8. CASE script' = [script EXCEPT !.waitsFor = tx.from] /\ Awaited(call)
    <3>1. script'.waitsFor = tx.from /\ script'.todo = script.todo
        BY <1>1, <2>8 DEF Scripts
    <3>2. pending'[tx.from] # <<>>
        BY <2>6
    <3>3. pending'[script'.waitsFor][Len(pending'[script'.waitsFor])] = tx
        BY <2>6, <3>1
    <3>4. Transaction(call)' = tx
        BY <2>3, <2>4, TransactionSame DEF SendTransaction, disk
    <3>5. Head(script'.todo).do = "send" /\ Head(script'.todo).call = call
        BY <2>1, <2>2, <3>1 DEF Step
    <3>6. Awaited(Head(script'.todo).call)
        BY <2>8, <3>5
    <3> QED BY <2>1, <3>1, <3>2, <3>3, <3>4, <3>5, <3>6 DEF ScriptWaits, LastPending, Awaited
  <2> QED BY <1>5, <2>2, <2>3, <2>4, <2>7, <2>8 DEF SendCall
<1>6. ASSUME NEW name \in Exports, FactoryCreate(name) PROVE ScriptWaits'
  <2>1. \A s : script.waitsFor = s /\ s # NoAddress =>
            pending'[s] # <<>> /\ LastPending(s)' = LastPending(s)
      BY <1>1, <1>6 DEF FactoryCreate, ScriptWaits, LastPending
  <2> QED BY <1>1, <1>6, <2>1, WaitsSame DEF FactoryCreate, disk
<1>7. ASSUME NEW signer \in Signers, Mine(signer) PROVE ScriptWaits'
  <2>1. \/ /\ script' = script
           /\ ~(script.waitsFor = signer /\ Len(pending[signer]) = 1)
        \/ script' = Idle
        \/ script' = Advance /\ script.waitsFor = signer
      BY <1>7, MineScript
  <2>2. CASE script' = Idle \/ (script' = Advance /\ script.waitsFor = signer)
      BY <1>1, <1>2, <1>3, <2>2, WaitingFacts
  <2>3. CASE script' = script /\ ~(script.waitsFor = signer /\ Len(pending[signer]) = 1)
    <3>1. ASSUME NEW s, script.waitsFor = s, s # NoAddress
          PROVE  pending'[s] # <<>> /\ LastPending(s)' = LastPending(s)
      <4>1. s \in Signers /\ pending[s] # <<>>
          BY <1>1, <3>1 DEF ScriptWaits, Scripts
      <4>2. CASE s # signer
          BY <1>1, <1>7, <4>1, <4>2, MineFacts DEF LastPending
      <4>3. CASE s = signer
        <5>1. PICK n : n = Len(pending[s])
            OBVIOUS
        <5>2. PICK rest : rest = pending'[s]
            OBVIOUS
        <5>3. /\ n \in Nat /\ n # 1 /\ n # 0
              /\ rest \in Seq(Txs)
              /\ Len(rest) = n - 1
              /\ \A i \in 1 .. Len(rest) : rest[i] = pending[s][i + 1]
            BY <1>1, <1>7, <2>3, <3>1, <4>3, <5>1, <5>2, MineFacts
        <5>4. rest # <<>> /\ rest[n - 1] = pending[s][n]
            BY <5>3
        <5> QED BY <5>1, <5>2, <5>3, <5>4 DEF LastPending
      <4> QED BY <4>2, <4>3
    <3>2. UNCHANGED <<network, db>>
        BY <1>7 DEF Mine, disk
    <3> QED BY <1>1, <2>3, <3>1, <3>2, WaitsSame
  <2> QED BY <2>1, <2>2, <2>3
<1>8. ASSUME NEW on \in {"testnet", "oasys"}, NEW task \in TasksOn[on], Start(on, task)
      PROVE  ScriptWaits'
    BY <1>2, <1>8 DEF Start, Idle
<1>9. ASSUME Stop \/ Throw PROVE ScriptWaits'
    BY <1>2, <1>3, <1>9 DEF Stop, Throw
<1>10. ASSUME \/ RegisterAddress \/ WriteCallData \/ RegisterPrediction
              \/ PrintAddressAndSalt \/ ReportFinished
       PROVE  ScriptWaits'
  <2>1. script' = Advance /\ script.todo # <<>>
      BY <1>10 DEF RegisterAddress, WriteCallData, RegisterPrediction, PrintAddressAndSalt,
                   ReportFinished, At
  <2> QED BY <1>2, <1>3, <2>1
<1> QED
    BY <1>4, <1>5, <1>6, <1>7, <1>8, <1>9, <1>10
    DEF Next, ScriptStep

-----------------------------------------------------------------------------
\* What is left of a script when it goes on is part of what was left before.
LEMMA TailKnown ==
    ASSUME script \in Scripts, script.todo # <<>>, ScriptKnown,
           NEW rest, rest = Tail(script.todo)
    PROVE  /\ OneUnawaited(rest)
           /\ \A kinds : Does(rest, kinds) => Does(script.todo, kinds)
           /\ Does(rest, {"finish"}) => IsInitialization(rest)
           /\ Unawaited(rest) \in {0, 1} /\ Unawaited(script.todo) \in {0, 1}
           /\ Unawaited(rest) <= Unawaited(script.todo)
           /\ Step.do = "send" /\ ~Awaited(Step.call) =>
                 Unawaited(rest) = 0 /\ Unawaited(script.todo) = 1
<1>1. PICK todo : todo = script.todo
    OBVIOUS
<1>2. /\ Len(todo) \in Nat \ {0} /\ Len(rest) \in Nat
      /\ Len(rest) = Len(todo) - 1
      /\ \A i \in 1 .. Len(rest) : rest[i] = todo[i + 1] /\ i + 1 \in 1 .. Len(todo)
      /\ Step = todo[1] /\ 1 \in 1 .. Len(todo)
    BY <1>1, TailFacts
<1>3. OneUnawaited(todo) /\ (Does(todo, {"finish"}) => IsInitialization(todo))
    BY <1>1 DEF ScriptKnown
<1>4. \A i \in 1 .. Len(rest) : UnawaitedAt(rest, i) => UnawaitedAt(todo, i + 1) /\ i + 1 # 1
    BY <1>2 DEF UnawaitedAt
<1>5. OneUnawaited(rest)
  <2>1. ASSUME NEW i \in 1 .. Len(rest), NEW j \in 1 .. Len(rest),
               UnawaitedAt(rest, i), UnawaitedAt(rest, j)
        PROVE  i = j
    <3>1. i + 1 = j + 1
        BY <1>2, <1>3, <1>4, <2>1 DEF OneUnawaited
    <3> QED BY <3>1
  <2> QED BY <2>1 DEF OneUnawaited
<1>6. ASSUME NEW kinds, Does(rest, kinds) PROVE Does(todo, kinds)
    BY <1>2, <1>6 DEF Does
<1>7. ASSUME Does(rest, {"finish"}) PROVE IsInitialization(rest)
  <2>1. PICK n : n = Len(todo)
      OBVIOUS
  <2>2. PICK k : k = Len(rest)
      OBVIOUS
  <2>3. n \in Nat /\ k \in Nat /\ k = n - 1
      BY <1>2, <2>1, <2>2
  <2>4. n <= 8 /\ \A i \in 1 .. n : todo[i] = TokenInitialization[8 - n + i]
      BY <1>3, <1>6, <1>7, <2>1 DEF IsInitialization
  <2>5. ASSUME NEW i \in 1 .. k
        PROVE  rest[i] = TokenInitialization[8 - k + i]
    <3>1. i \in Int /\ i + 1 \in 1 .. n /\ 8 - n + (i + 1) = 8 - k + i
        BY <2>3
    <3>2. rest[i] = todo[i + 1]
        BY <1>2, <2>2
    <3> QED BY <2>4, <3>1, <3>2
  <2>6. k <= 8
      BY <2>3, <2>4
  <2> QED BY <2>2, <2>5, <2>6 DEF IsInitialization
<1>8. Unawaited(rest) \in {0, 1} /\ Unawaited(todo) \in {0, 1}
    BY DEF Unawaited
<1>9. Unawaited(rest) <= Unawaited(todo)
  <2>1. ASSUME NEW i \in 1 .. Len(rest), UnawaitedAt(rest, i)
        PROVE  \E j \in 1 .. Len(todo) : UnawaitedAt(todo, j)
    <3>1. PICK j : j = i + 1
        OBVIOUS
    <3> QED BY <1>2, <1>4, <2>1, <3>1
  <2> QED BY <2>1 DEF Unawaited
<1>10. ASSUME Step.do = "send", ~Awaited(Step.call)
       PROVE  Unawaited(rest) = 0 /\ Unawaited(todo) = 1
  <2>1. UnawaitedAt(todo, 1)
      BY <1>2, <1>10 DEF UnawaitedAt
  <2>2. \A i \in 1 .. Len(rest) : ~UnawaitedAt(rest, i)
      BY <1>2, <1>3, <1>4, <2>1 DEF OneUnawaited
  <2> QED BY <1>2, <2>1, <2>2 DEF Unawaited
<1> QED BY <1>1, <1>5, <1>6, <1>7, <1>8, <1>9, <1>10

\* What a step does to the script that runs, unless it starts one.
LEMMA ScriptMoves ==
    ASSUME Inv, Next
    PROVE  \/ \E on \in {"testnet", "oasys"} : \E task \in TasksOn[on] : Start(on, task)
           \/ /\ network' = network
              /\ \/ script' = Idle
                 \/ script' = script
                 \/ /\ script'.todo = script.todo /\ script'.hadCode = script.hadCode
                    /\ script.todo # <<>>
                 \/ script' = Advance /\ script.todo # <<>>
<1>1. script \in Scripts
    BY DEF Inv, StatesTyped
<1>2. ASSUME NEW signer \in Signers, Mine(signer)
      PROVE  /\ network' = network
             /\ script' \in {script, Idle} \/ (script' = Advance /\ script.todo # <<>>)
  <2>1. script.waitsFor = signer => script.todo # <<>>
      BY WaitingFacts DEF Inv
  <2> QED BY <1>2, <2>1, MineScript DEF Mine, disk
<1>3. ASSUME SendCreation \/ SendCall
      PROVE  /\ network' = network /\ script.todo # <<>>
             /\ \/ script'.todo = script.todo /\ script'.hadCode = script.hadCode
                \/ script' = Advance
    BY <1>1, <1>3
    DEF SendCreation, SendCall, SendTransaction, At, Awaited, Scripts, disk
<1>4. ASSUME \/ RegisterAddress \/ WriteCallData \/ RegisterPrediction
             \/ PrintAddressAndSalt \/ ReportFinished
      PROVE  network' = network /\ script' = Advance /\ script.todo # <<>>
    BY <1>4 DEF RegisterAddress, WriteCallData, RegisterPrediction, PrintAddressAndSalt,
                ReportFinished, At, disk
<1>5. ASSUME Stop \/ Throw \/ \E name \in Exports : FactoryCreate(name)
      PROVE  network' = network /\ script' \in {Idle, script}
    BY <1>5 DEF Stop, Throw, FactoryCreate, disk
<1> QED BY <1>2, <1>3, <1>4, <1>5 DEF Next, ScriptStep

\* An initialization that begins has all of its steps left.
LEMMA InitializationIsOne == IsInitialization(TokenInitialization)
BY InitializationSteps DEF IsInitialization

\* A script that has the end of token-initialization before it is one, at a
\* position of its own.
LEMMA ScriptKnownStep ==
    ASSUME Inv, Next
    PROVE  ScriptKnown'
<1>1. script \in Scripts /\ ScriptKnown /\ network \in BothNetworks
    BY DEF Inv, StatesTyped
<1>2. ASSUME NEW on \in {"testnet", "oasys"}, NEW task \in TasksOn[on], Start(on, task)
      PROVE  ScriptKnown'
  <2>1. PICK todo : todo = Program(on, task)
      OBVIOUS
  <2>2. Orderly(on, todo)
      BY <2>1, ProgramsAreOrderly DEF BothNetworks
  <2>3. script'.todo = todo /\ network' = on
      BY <1>2, <2>1 DEF Start, Idle
  <2> QED BY <2>2, <2>3, InitializationIsOne DEF ScriptKnown, Orderly
<1>3. CASE script' = Idle
    BY <1>3 DEF ScriptKnown, Idle, OneUnawaited, Does
<1>4. CASE network' = network /\ (script' = script \/ (script'.todo = script.todo /\ script.todo # <<>>))
    BY <1>1, <1>4 DEF ScriptKnown
<1>5. CASE network' = network /\ script' = Advance /\ script.todo # <<>>
  <2>1. PICK rest : rest = Tail(script.todo)
      OBVIOUS
  <2>2. script'.todo = rest /\ (rest = <<>> => script' = Idle)
      BY <1>1, <1>5, <2>1, AdvanceFacts
  <2>3. /\ OneUnawaited(rest)
        /\ \A kinds : Does(rest, kinds) => Does(script.todo, kinds)
        /\ Does(rest, {"finish"}) => IsInitialization(rest)
      BY <1>1, <1>5, <2>1, TailKnown
  <2> QED BY <1>1, <1>5, <2>2, <2>3 DEF ScriptKnown
<1> QED BY <1>2, <1>3, <1>4, <1>5, ScriptMoves

\* Whoever waits for no transaction has none counted.
LEMMA WaitedFacts ==
    ASSUME NEW s \in Signers
    PROVE  /\ WaitedOf(s) \in {0, 1} /\ WaitedOf(s)' \in {0, 1}
           /\ script.waitsFor = NoAddress => WaitedOf(s) = 0
           /\ script'.waitsFor = NoAddress => WaitedOf(s)' = 0
           /\ script.waitsFor = s => WaitedOf(s) = 1
           /\ script'.waitsFor = s => WaitedOf(s)' = 1
           /\ script'.waitsFor = script.waitsFor => WaitedOf(s)' = WaitedOf(s)
BY PeopleAssumption DEF WaitedOf, Signers, People

\* Each task leaves at most one transaction it did not wait for, and each stop
\* at most one more.
LEMMA PendingBoundedStep ==
    ASSUME Inv, Next
    PROVE  PendingBounded'
<1>1. /\ script \in Scripts /\ ScriptKnown /\ StatesTyped /\ RegistryKnown
      /\ runs \in Nat /\ stops \in Nat
      /\ \A s \in Signers : Len(pending[s]) \in Nat
    BY BoundsAssumption DEF Inv, StatesTyped
<1>2. Idle.waitsFor = NoAddress /\ Unawaited(Idle.todo) = 0
    BY DEF Idle, Unawaited
<1>3. \A todo : Unawaited(todo) \in {0, 1}
    BY DEF Unawaited
<1>4. SUFFICES ASSUME NEW s \in Signers
               PROVE  Len(pending'[s]) + Unawaited(script'.todo)
                          <= (runs' + stops') + WaitedOf(s)'
  <2>1. runs' \in Nat /\ stops' \in Nat
      BY StatesTypedStep, BoundsAssumption DEF StatesTyped
  <2>2. ASSUME NEW s \in Signers
        PROVE  Len(pending'[s]) + Unawaited(script'.todo) <= runs' + stops' + WaitedOf(s)'
      BY <1>4
  <2> QED BY <2>2 DEF PendingBounded, WaitedOf
\* The numbers before the step, and after.
<1>5. PICK l, u, r, w : l = Len(pending[s]) /\ u = Unawaited(script.todo)
                        /\ r = runs + stops /\ w = WaitedOf(s)
    OBVIOUS
<1>6. PICK l2, u2, r2, w2 : l2 = Len(pending'[s]) /\ u2 = Unawaited(script'.todo)
                            /\ r2 = runs' + stops' /\ w2 = WaitedOf(s)'
    OBVIOUS
<1>7. l \in Nat /\ u \in {0, 1} /\ r \in Nat /\ w \in {0, 1} /\ u2 \in {0, 1} /\ w2 \in {0, 1}
    BY <1>1, <1>3, <1>5, <1>6, WaitedFacts
<1>8. l + u <= r + w
    BY <1>1, <1>5 DEF Inv, PendingBounded
<1>9. ASSUME NEW on \in {"testnet", "oasys"}, NEW task \in TasksOn[on], Start(on, task)
      PROVE  l2 + u2 <= r2 + w2
  <2>1. /\ pending' = pending /\ runs' = runs + 1 /\ stops' = stops
        /\ script = Idle /\ script'.waitsFor = NoAddress
      BY <1>9 DEF Start, Idle
  <2>2. l2 = l /\ u = 0 /\ w = 0 /\ w2 = 0
      BY <1>2, <1>5, <1>6, <2>1, WaitedFacts
  <2>3. r2 = r + 1
      BY <1>1, <1>5, <1>6, <2>1
  <2> QED BY <1>7, <1>8, <2>2, <2>3
<1>10. ASSUME Stop PROVE l2 + u2 <= r2 + w2
  <2>1. pending' = pending /\ runs' = runs /\ stops' = stops + 1 /\ script' = Idle
      BY <1>10 DEF Stop
  <2>2. l2 = l /\ w2 = 0 /\ u2 = 0
      BY <1>2, <1>5, <1>6, <2>1, WaitedFacts
  <2>3. r2 = r + 1
      BY <1>1, <1>5, <1>6, <2>1
  <2> QED BY <1>7, <1>8, <2>2, <2>3
<1>11. ASSUME UNCHANGED <<pending, runs, stops, script>> PROVE l2 + u2 <= r2 + w2
  <2>1. l2 = l /\ u2 = u /\ r2 = r /\ w2 = w
      BY <1>5, <1>6, <1>11, WaitedFacts
  <2> QED BY <1>8, <2>1
<1>12. ASSUME UNCHANGED <<pending, runs, stops>>, script.todo # <<>>,
              script.waitsFor = NoAddress, script' \in {Idle, Advance}
       PROVE  l2 + u2 <= r2 + w2
  <2>1. w = 0 /\ w2 = 0
      BY <1>1, <1>2, <1>5, <1>6, <1>12, AdvanceFacts, WaitedFacts
  <2>2. CASE script' = Idle
    <3>1. u2 = 0 /\ l2 = l /\ r2 = r
        BY <1>2, <1>5, <1>6, <1>12, <2>2
    <3> QED BY <1>7, <1>8, <2>1, <3>1
  <2>3. CASE script' = Advance
    <3>1. u2 <= u /\ l2 = l /\ r2 = r
        BY <1>1, <1>5, <1>6, <1>12, <2>3, AdvanceFacts, TailKnown
    <3> QED BY <1>7, <1>8, <2>1, <3>1
  <2> QED BY <1>12, <2>2, <2>3
<1> DEFINE Sends(tx) ==
        /\ tx \in Txs
        /\ SendTransaction(tx)
        /\ script.todo # <<>> /\ script.waitsFor = NoAddress
        /\ \/ script'.todo = script.todo /\ script'.waitsFor = tx.from
           \/ script' = Advance /\ Step.do = "send" /\ ~Awaited(Step.call)
<1>13. ASSUME NEW tx, Sends(tx) PROVE l2 + u2 <= r2 + w2
  <2>1. r2 = r /\ tx.from \in Signers
      BY <1>1, <1>5, <1>6, <1>13, SendFacts DEF SendTransaction, counters
  <2>2. l2 = l + (IF tx.from = s THEN 1 ELSE 0)
    <3>1. CASE tx.from = s
        BY <1>1, <1>5, <1>6, <1>13, <3>1, SendFacts
    <3>2. CASE tx.from # s
        BY <1>1, <1>5, <1>6, <1>7, <1>13, <3>2, SendFacts
    <3> QED BY <3>1, <3>2
  <2>3. w = 0
      BY <1>5, <1>13, WaitedFacts
  <2>4. CASE script'.todo = script.todo /\ script'.waitsFor = tx.from
    <3>1. u2 = u /\ (tx.from = s => w2 = 1)
        BY <1>5, <1>6, <2>4, WaitedFacts
    <3> QED BY <1>7, <1>8, <2>1, <2>2, <2>3, <3>1
  <2>5. CASE script' = Advance /\ Step.do = "send" /\ ~Awaited(Step.call)
    <3>1. u2 = 0 /\ u = 1
        BY <1>1, <1>5, <1>6, <1>13, <2>5, AdvanceFacts, TailKnown
    <3>2. w2 = 0
        BY <1>1, <1>6, <1>13, <2>5, AdvanceFacts, WaitedFacts
    <3> QED BY <1>7, <1>8, <2>1, <2>2, <2>3, <3>1, <3>2
  <2> QED BY <1>13, <2>4, <2>5
<1>14. ASSUME SendCreation PROVE l2 + u2 <= r2 + w2
  <2>1. PICK tx : tx = Creation(NextContract(Step.code))
      OBVIOUS
  <2>2. tx \in Txs /\ SendTransaction(tx) /\ tx.from = Deployer
      BY <1>14, <2>1, CreationTyped DEF Creation
  <2>3. /\ script.todo # <<>> /\ script.waitsFor = NoAddress
        /\ script'.todo = script.todo /\ script'.waitsFor = Deployer
      BY <1>1, <1>14 DEF SendCreation, At, Awaited, Scripts
  <2>4. Sends(tx)
      BY <2>2, <2>3
  <2> HIDE DEF Sends
  <2> QED BY <1>13, <2>4
<1>15. ASSUME SendCall PROVE l2 + u2 <= r2 + w2
  <2>1. script.todo # <<>> /\ Step.do = "send" /\ Step.call \in Calls /\ CanSend(Step.call)
        /\ script.waitsFor = NoAddress
      BY <1>1, <1>15, StepFacts DEF SendCall, At, Step
  <2>2. PICK tx : tx = Transaction(Step.call)
      OBVIOUS
  <2>3. tx \in Txs /\ SendTransaction(tx) /\ tx.call = Step.call
      BY <1>1, <1>15, <2>1, <2>2, TransactionTyped DEF SendCall
  <2>4. \/ script' = [script EXCEPT !.waitsFor = tx.from]
        \/ script' = Advance /\ ~Awaited(Step.call)
      BY <1>15, <2>2, <2>3 DEF SendCall
  <2>5. Sends(tx)
      BY <1>1, <2>1, <2>3, <2>4 DEF Scripts
  <2> HIDE DEF Sends
  <2> QED BY <1>13, <2>5
<1>16. ASSUME NEW signer \in Signers, Mine(signer) PROVE l2 + u2 <= r2 + w2
  <2>1. r2 = r
      BY <1>5, <1>6, <1>16 DEF Mine, counters
  <2>2. l2 = l - (IF s = signer THEN 1 ELSE 0)
    <3>1. CASE s = signer
        BY <1>1, <1>5, <1>6, <1>16, <3>1, MineFacts
    <3>2. CASE s # signer
        BY <1>1, <1>5, <1>6, <1>7, <1>16, <3>2, MineFacts
    <3> QED BY <3>1, <3>2
  <2>3. CASE script' = script
    <3>1. u2 = u /\ w2 = w
        BY <1>5, <1>6, <2>3, WaitedFacts
    <3> QED BY <1>7, <1>8, <2>1, <2>2, <3>1
  <2>4. CASE script' \in {Idle, Advance} /\ script.waitsFor = signer
    <3>1. script.todo # <<>>
        BY <1>16, <2>4, WaitingFacts DEF Inv
    <3>2. w2 = 0
        BY <1>1, <1>2, <1>6, <2>4, <3>1, AdvanceFacts, WaitedFacts
    <3>3. u2 <= u
      <4>1. CASE script' = Idle
          BY <1>2, <1>6, <1>7, <4>1
      <4>2. CASE script' = Advance
          BY <1>1, <1>5, <1>6, <3>1, <4>2, AdvanceFacts, TailKnown
      <4> QED BY <2>4, <4>1, <4>2
    <3>4. w = IF s = signer THEN 1 ELSE 0
        BY <1>5, <2>4 DEF WaitedOf
    <3> QED BY <1>7, <1>8, <2>1, <2>2, <3>2, <3>3, <3>4
  <2> QED BY <1>16, <2>3, <2>4, MineScript
<1> HIDE DEF Sends
<1>17. l2 + u2 <= r2 + w2
    BY <1>9, <1>10, <1>11, <1>12, <1>14, <1>15, <1>16
    DEF Next, ScriptStep, FactoryCreate, Throw, RegisterAddress, WriteCallData,
        RegisterPrediction, PrintAddressAndSalt, ReportFinished, At, counters
<1> QED BY <1>6, <1>17

-----------------------------------------------------------------------------
(***************************************************************************)
(* The registry.                                                           *)
(***************************************************************************)

\* A script at a step has that step.
LEMMA AtDoes ==
    ASSUME script \in Scripts, NEW do, At(do), NEW kinds, do \in kinds
    PROVE  Does(script.todo, kinds)
<1>1. script.todo # <<>> /\ Step.do = do
    BY DEF At, Step
<1> QED BY <1>1, StepFacts DEF Does

\* A prediction is registered after the export it belongs to.
LEMMA OasysPredictedStep ==
    ASSUME Inv, OasysPredicted, Next
    PROVE  OasysPredicted'
<1>1. /\ script \in Scripts /\ network \in BothNetworks
      /\ db \in [BothNetworks -> [Names -> Contracts \cup {NoAddress}]]
    BY DEF Inv, StatesTyped
<1>2. ASSUME db'["oasys"] = db["oasys"], exported \subseteq exported' PROVE OasysPredicted'
    BY <1>2 DEF OasysPredicted
<1>3. ASSUME RegisterAddress PROVE OasysPredicted'
  <2>1. network # "oasys"
      BY <1>1, <1>3, AtDoes DEF RegisterAddress, Inv, ScriptKnown
  <2> QED BY <1>1, <1>2, <1>3, <2>1 DEF RegisterAddress
<1>4. ASSUME RegisterPrediction PROVE OasysPredicted'
  <2>1. PICK to \in Exports : to = Step.name
      BY <1>1, <1>4, StepFacts DEF RegisterPrediction, At, Step
  <2>2. script.todo # <<>> /\ Step.do = "predict"
      BY <1>4 DEF RegisterPrediction, At, Step
  <2>3. network = "oasys" => to \in exported
    <3>1. Step = script.todo[1] /\ 1 \in 1 .. Len(script.todo)
        BY <1>1, <2>2, StepFacts
    <3>2. ~PredictsExported(script.todo, 1)
        BY DEF PredictsExported
    <3> QED BY <2>1, <2>2, <3>1, <3>2 DEF Inv, ScriptOrdered, Saved
  <2>4. /\ exported' = exported
        /\ db' = IF network = "oasys"
                 THEN [db EXCEPT !["oasys"][to] = GetOasysDeploymentAddress(to)]
                 ELSE db
      BY <1>4, <2>1 DEF RegisterPrediction
  <2> QED BY <1>1, <2>3, <2>4 DEF OasysPredicted
<1>5. ASSUME PrintAddressAndSalt PROVE OasysPredicted'
  <2>1. db'["oasys"] = db["oasys"]
      BY <1>1, <1>5 DEF PrintAddressAndSalt
  <2> QED BY <1>2, <1>5, <2>1 DEF PrintAddressAndSalt
<1>6. ASSUME NEW signer \in Signers, Mine(signer) PROVE UNCHANGED <<db, exported>>
    BY <1>6 DEF Mine, disk
<1>7. ASSUME NEW name \in Exports, FactoryCreate(name) PROVE UNCHANGED <<db, exported>>
    BY <1>7 DEF FactoryCreate, disk
<1>8. ASSUME NEW on, NEW task, Start(on, task) PROVE UNCHANGED <<db, exported>>
    BY <1>8 DEF Start
<1> QED
    BY <1>2, <1>3, <1>4, <1>5, <1>6, <1>7, <1>8
    DEF Next, Stop, ScriptStep, SendCreation, SendCall, SendTransaction, Throw,
        WriteCallData, ReportFinished, disk

\* The predictions are of different addresses, as the salts differ.
LEMMA PredictedApart ==
    ASSUME OasysPredicted, exported \subseteq Exports
    PROVE  RegisteredArePredicted
<1>1. ASSUME NEW name \in Names, db["oasys"][name] # NoAddress
      PROVE  /\ name \in exported
             /\ \A other \in Names \ {name} : db["oasys"][other] # db["oasys"][name]
  <2>1. name \in exported /\ db["oasys"][name] = GetOasysDeploymentAddress(name)
      BY <1>1 DEF OasysPredicted
  <2>2. ASSUME NEW other \in Names \ {name}, db["oasys"][other] = db["oasys"][name]
        PROVE  FALSE
    <3>1. db["oasys"][other] = GetOasysDeploymentAddress(other)
        BY <1>1, <2>2 DEF OasysPredicted
    <3>2. GetOasysDeploymentAddress(other).salt = other
          /\ GetOasysDeploymentAddress(name).salt = name
        BY DEF GetOasysDeploymentAddress, ToSalt
    <3> QED BY <2>1, <2>2, <3>1, <3>2
  <2> QED BY <2>1, <2>2
<1> QED BY <1>1 DEF RegisteredArePredicted

\* Testnet's entries are written by its own scripts alone.
LEMMA TestnetDeployedStep ==
    ASSUME NetworksKeptApart, Inv, TestnetDeployed, Next
    PROVE  TestnetDeployed'
<1>1. /\ script \in Scripts /\ network \in BothNetworks /\ ScriptKnown
      /\ db \in [BothNetworks -> [Names -> Contracts \cup {NoAddress}]]
      /\ switches \in 0 .. MaxSwitches
      /\ deployed \subseteq deployed'
    BY DeployedGrows DEF Inv, StatesTyped
<1> DEFINE Printing == \E on \in BothNetworks : "print-address-and-salt" \in TasksOn[on]
           Others == MaxSwitches = 0 => \A on \in BothNetworks \ {network} : \A name \in Names :
                        db[on][name] = NoAddress
           Kinds == ~Printing => ~Does(script.todo, {"print"})
<1>2. RegisteredAreDeployed /\ Kinds /\ Others
    BY DEF TestnetDeployed
<1>3. ASSUME RegisteredAreDeployed', Kinds', Others' PROVE TestnetDeployed'
    BY <1>3 DEF TestnetDeployed
<1>4. ASSUME UNCHANGED db PROVE RegisteredAreDeployed'
    BY <1>1, <1>2, <1>4 DEF RegisteredAreDeployed
<1>5. ASSUME UNCHANGED db, network' = network PROVE Others'
    BY <1>2, <1>5
<1>6. ASSUME NEW on \in {"testnet", "oasys"}, NEW task \in TasksOn[on], Start(on, task)
      PROVE  TestnetDeployed'
  <2>1. task # "print-address-and-salt" => ~Does(Program(on, task), {"print"})
      BY ProgramsAreOrderly DEF BothNetworks
  <2>2. network' = on /\ script'.todo = Program(on, task) /\ db' = db
      BY <1>6 DEF Start, Idle
  <2>3. Kinds'
      BY <2>1, <2>2 DEF BothNetworks
  <2>4. MaxSwitches = 0 => on = network
      BY <1>1, <1>6 DEF Start, MayChange
  <2>5. Others'
      BY <1>2, <2>2, <2>4
  <2> HIDE DEF Kinds, Others
  <2> QED BY <1>3, <1>4, <2>2, <2>3, <2>5
<1>7. ASSUME network' = network,
             \/ script' = Idle
             \/ script' = script
             \/ script'.todo = script.todo /\ script.todo # <<>>
             \/ script' = Advance /\ script.todo # <<>>
      PROVE  Kinds'
  <2>1. \A kinds : Does(script'.todo, kinds) => Does(script.todo, kinds)
    <3>1. CASE script' = Idle
        BY <3>1 DEF Does, Idle
    <3>2. CASE script' = script \/ script'.todo = script.todo
        BY <3>2
    <3>3. CASE script' = Advance /\ script.todo # <<>>
        BY <1>1, <3>3, AdvanceFacts, TailKnown
    <3> QED BY <1>7, <3>1, <3>2, <3>3
  <2> QED BY <1>2, <1>7, <2>1
<1>8. ASSUME network' = network, RegisteredAreDeployed', Others',
             ~\E on \in {"testnet", "oasys"} : \E task \in TasksOn[on] : Start(on, task)
      PROVE  TestnetDeployed'
  <2> HIDE DEF Kinds, Others
  <2> QED BY <1>3, <1>7, <1>8, ScriptMoves
<1> DEFINE Starts == \E on \in {"testnet", "oasys"} : \E task \in TasksOn[on] : Start(on, task)
<1>9. CASE Starts
    BY <1>6, <1>9
<1>10. CASE ~Starts
  <2>1. network' = network
      BY <1>10, ScriptMoves
  <2>2. ASSUME RegisterAddress PROVE RegisteredAreDeployed' /\ Others'
    <3>1. network = "testnet"
        BY <1>1, <2>2, AtDoes DEF RegisterAddress, ScriptKnown, BothNetworks
    <3>2. PICK to \in Names : to = Step.name
        BY <1>1, <2>2, StepFacts DEF RegisterAddress, At, Step
    <3>3. script.created \in deployed \cap OnTestnet
        BY <1>1, <2>2, HeadRegistrable DEF Inv, RegisterAddress, Registrable
    <3>4. db' = [db EXCEPT ![network][to] = script.created]
        BY <2>2, <3>2 DEF RegisterAddress
    <3>5. RegisteredAreDeployed'
        BY <1>1, <1>2, <3>1, <3>3, <3>4 DEF RegisteredAreDeployed, BothNetworks
    <3>6. Others'
        BY <1>1, <1>2, <2>1, <3>4
    <3> QED BY <3>5, <3>6
  <2>3. ASSUME RegisterPrediction PROVE RegisteredAreDeployed' /\ Others'
    <3>1. db'["testnet"] = db["testnet"] /\ (network = "testnet" => db' = db)
        BY <1>1, <2>3 DEF RegisterPrediction
    <3>2. \A on \in BothNetworks \ {network} : db'[on] = db[on]
        BY <1>1, <3>1 DEF BothNetworks
    <3>3. RegisteredAreDeployed'
        BY <1>1, <1>2, <3>1 DEF RegisteredAreDeployed
    <3>4. Others'
        BY <1>2, <2>1, <3>2
    <3> QED BY <3>3, <3>4
  <2>4. ASSUME PrintAddressAndSalt PROVE RegisteredAreDeployed' /\ Others'
    <3>1. MaxSwitches = 0
        BY <1>1, <1>2, <2>4, AtDoes DEF PrintAddressAndSalt, NetworksKeptApart
    <3>2. \A on \in BothNetworks \ {network} : \A name \in Names : db[on][name] = NoAddress
        BY <1>2, <3>1
    <3>3. \A on \in BothNetworks : \A name \in Names : db'[on][name] = db[on][name]
      <4>1. CASE network = "testnet"
        <5>1. \A name \in Names : db["oasys"][name] = NoAddress
            BY <3>2, <4>1 DEF BothNetworks
        <5> QED BY <1>1, <2>4, <5>1 DEF PrintAddressAndSalt, BothNetworks
      <4>2. CASE network = "oasys"
        <5>1. \A name \in Names : db["testnet"][name] = NoAddress
            BY <3>2, <4>2 DEF BothNetworks
        <5> QED BY <1>1, <2>4, <5>1 DEF PrintAddressAndSalt, BothNetworks
      <4> QED BY <1>1, <4>1, <4>2 DEF BothNetworks
    <3>4. RegisteredAreDeployed'
        BY <1>1, <1>2, <3>3 DEF RegisteredAreDeployed, BothNetworks
    <3> QED BY <2>1, <3>2, <3>3, <3>4
  <2>5. ASSUME UNCHANGED db PROVE RegisteredAreDeployed' /\ Others'
      BY <1>4, <1>5, <2>1, <2>5
  <2>6. ASSUME NEW signer \in Signers, Mine(signer) PROVE UNCHANGED db
      BY <2>6 DEF Mine, disk
  <2>7. ASSUME NEW name \in Exports, FactoryCreate(name) PROVE UNCHANGED db
      BY <2>7 DEF FactoryCreate, disk
  <2> HIDE DEF Others, Starts
  <2>8. RegisteredAreDeployed' /\ Others'
      BY <1>10, <2>2, <2>3, <2>4, <2>5, <2>6, <2>7
      DEF Next, Starts, Stop, ScriptStep, SendCreation, SendCall, SendTransaction, Throw,
          WriteCallData, ReportFinished, disk
  <2> QED BY <1>8, <1>10, <2>1, <2>8 DEF Starts
<1> QED BY <1>9, <1>10

-----------------------------------------------------------------------------
(***************************************************************************)
(* The initialization.                                                     *)
(***************************************************************************)

\* What was set up stays so, whatever is mined.
Kept ==
    /\ \A token, logic : TokenUpgraded(token, logic) =>
          /\ TokenUpgraded(token, logic)'
          /\ distribution[token] = Treasury => distribution'[token] = Treasury
    /\ \A vault \in VaultTargets : VaultInitialized(vault) => VaultInitialized(vault)'
    /\ \A v \in Vestings :
          /\ vestings[v].token # NoAddress => vestings'[v].token = vestings[v].token
          /\ vestings[v].owner = VestingOwner => vestings'[v].owner = VestingOwner

\* What changes none of it keeps it.
LEMMA KeptSame ==
    ASSUME UNCHANGED <<proxies, vestings, distribution>>
    PROVE  Kept
BY DEF Kept, TokenUpgraded, VaultInitialized

\* A proxy that has an implementation is not initialized again, one that was
\* upgraded is not upgraded again, and one that is a vault is never upgraded; a
\* vesting contract keeps its token, and its owner once that is VestingOwner.
LEMMA ExecuteKeeps ==
    ASSUME StatesTyped, TargetsApart, NEW tx \in Txs, Succeeds(tx), Execute(tx),
           tx.call = "upgradeToken" => tx.to \in TokenTargets
    PROVE  Kept
<1>1. CASE tx.call = "create" \/ IntoTheVoid(tx)
    BY <1>1, KeptSame DEF Execute, ExecuteCreate, IntoTheVoid, chain
<1>2. ASSUME NEW to \in Proxies, NEW x, proxies' = [proxies EXCEPT ![to] = x],
             vestings' = vestings,
             \A t \in Proxies : t # to => distribution'[t] = distribution[t],
             \A token, logic : TokenUpgraded(token, logic) => token # to,
             \A vault \in VaultTargets : VaultInitialized(vault) => vault # to
      PROVE  Kept
  <2>1. proxies \in [Proxies -> ProxyStates]
      BY DEF StatesTyped
  <2>2. \A t \in Proxies : t # to => proxies'[t] = proxies[t]
      BY <1>2, <2>1
  <2>3. ASSUME NEW token, NEW logic, TokenUpgraded(token, logic)
        PROVE  /\ TokenUpgraded(token, logic)'
               /\ distribution[token] = Treasury => distribution'[token] = Treasury
    <3>1. token \in Proxies /\ token # to
        BY <1>2, <2>3 DEF TokenUpgraded
    <3> QED BY <1>2, <2>2, <2>3, <3>1 DEF TokenUpgraded
  <2>4. ASSUME NEW vault \in VaultTargets, VaultInitialized(vault)
        PROVE  VaultInitialized(vault)'
    <3>1. vault \in Proxies /\ vault # to
        BY <1>2, <2>4 DEF VaultInitialized
    <3> QED BY <2>2, <2>4, <3>1 DEF VaultInitialized
  <2> QED BY <1>2, <2>3, <2>4 DEF Kept
<1>3. ASSUME NEW token, NEW logic, TokenUpgraded(token, logic)
      PROVE  token \in Proxies /\ proxies[token].implementation # NoAddress
             /\ proxies[token].revision = 2
    BY <1>3, AddressesAssumption DEF TokenUpgraded
<1>4. ASSUME NEW vault, VaultInitialized(vault)
      PROVE  vault \in Proxies /\ vault # NoAddress
             /\ proxies[vault].implementation # NoAddress
    BY <1>4, AddressesAssumption DEF VaultInitialized, Proxies
<1>5. CASE tx.call # "create" /\ ~IntoTheVoid(tx)
  <2>1. Accepts(tx) /\ ExecuteCall(tx)
      BY <1>5 DEF Succeeds, Execute
  <2>2. CASE tx.call = "initializeToken"
    <3>1. tx.to \in Proxies /\ proxies[tx.to].implementation = NoAddress
        BY <2>1, <2>2 DEF Accepts, CanInitializeProxy
    <3>2. ExecuteInitializeToken(tx)
        BY <2>1, <2>2 DEF ExecuteCall
    <3>3. \E x : proxies' = [proxies EXCEPT ![tx.to] = x]
        BY <3>2 DEF ExecuteInitializeToken
    <3>4. \A t \in Proxies : t # tx.to => distribution'[t] = distribution[t]
        BY <3>2 DEF ExecuteInitializeToken, StatesTyped
    <3> QED BY <1>2, <1>3, <1>4, <3>1, <3>2, <3>3, <3>4 DEF ExecuteInitializeToken
  <2>3. CASE tx.call \in {"initializeProxyOnly", "initializeVault"}
    <3>1. tx.to \in Proxies /\ proxies[tx.to].implementation = NoAddress
        BY <2>1, <2>3 DEF Accepts, CanInitializeProxy
    <3>2. (\E x : proxies' = [proxies EXCEPT ![tx.to] = x]) /\ UNCHANGED <<vestings, distribution>>
        BY <2>1, <2>3 DEF ExecuteCall, ExecuteInitializeProxyOnly, ExecuteInitializeVault
    <3> QED BY <1>2, <1>3, <1>4, <3>1, <3>2
  <2>4. CASE tx.call = "upgradeToken"
    <3>1. ExecuteUpgrade(tx)
        BY <2>1, <2>4 DEF ExecuteCall
    <3>2. CASE IsEmpty(tx.to)
        BY <3>1, <3>2, KeptSame DEF ExecuteUpgrade
    <3>3. CASE ~IsEmpty(tx.to)
      <4>1. tx.to \in Proxies /\ MayInitialize(tx.to, tx.logic.code)
          BY <2>1, <2>4, <3>3 DEF Accepts
      <4>2. proxies[tx.to].revision # 2
          BY <4>1 DEF MayInitialize, REVISION
      <4>3. \E x : proxies' = [proxies EXCEPT ![tx.to] = x]
        <5>1. proxies' = [proxies EXCEPT ![tx.to].implementation = tx.logic,
                                         ![tx.to].revision = REVISION(tx.logic.code)]
            BY <3>1, <3>3 DEF ExecuteUpgrade
        <5>2. [proxies EXCEPT ![tx.to].implementation = tx.logic,
                              ![tx.to].revision = REVISION(tx.logic.code)]
              = [proxies EXCEPT ![tx.to] = [proxies[tx.to] EXCEPT
                    !.implementation = tx.logic, !.revision = REVISION(tx.logic.code)]]
            BY <4>1 DEF StatesTyped
        <5> QED BY <5>1, <5>2
      <4>4. \A vault \in VaultTargets : vault = tx.to => vault = NoAddress
          BY <2>4 DEF TargetsApart
      <4> QED BY <1>2, <1>3, <1>4, <3>1, <4>1, <4>2, <4>3, <4>4 DEF ExecuteUpgrade
    <3> QED BY <3>2, <3>3
  <2>5. CASE tx.call \in {"initializeVesting", "transferOwnership", "transferVestingOwner"}
    <3>1. ExecuteVesting(tx) /\ tx.to \in Vestings /\ tx.from = Deployer
        BY <2>1, <2>5 DEF ExecuteCall, Txs
    <3>2. UNCHANGED <<proxies, distribution>>
        BY <3>1 DEF ExecuteVesting
    <3>3. /\ \A token, logic : TokenUpgraded(token, logic) => TokenUpgraded(token, logic)'
          /\ \A vault : VaultInitialized(vault) => VaultInitialized(vault)'
        BY <3>2 DEF TokenUpgraded, VaultInitialized
    <3>4. ASSUME NEW v \in Vestings
          PROVE  /\ vestings[v].token # NoAddress => vestings'[v].token = vestings[v].token
                 /\ vestings[v].owner = VestingOwner => vestings'[v].owner = VestingOwner
      <4>1. vestings \in [Vestings -> VestingStates] /\ vestings[v] \in VestingStates
          BY DEF StatesTyped
      <4>2. CASE v # tx.to
          BY <3>1, <4>1, <4>2 DEF ExecuteVesting
      <4>3. CASE v = tx.to /\ tx.call = "initializeVesting"
        <5>1. vestings'[v] = [vestings[v] EXCEPT !.token = tx.token]
            BY <3>1, <4>1, <4>3 DEF ExecuteVesting
        <5>2. vestings[v].token = NoAddress
            BY <2>1, <4>3 DEF Accepts
        <5> QED BY <4>1, <5>1, <5>2 DEF VestingStates
      <4>4. CASE v = tx.to /\ tx.call # "initializeVesting"
        <5>1. vestings'[v] = [vestings[v] EXCEPT !.owner = tx.newOwner]
            BY <3>1, <4>1, <4>4 DEF ExecuteVesting
        <5>2. vestings[v].owner = Deployer
            BY <2>1, <2>5, <3>1, <4>4 DEF Accepts
        <5> QED BY <4>1, <5>1, <5>2, PeopleAssumption DEF VestingStates
      <4> QED BY <4>2, <4>3, <4>4
    <3> QED BY <3>2, <3>3, <3>4 DEF Kept
  <2>6. CASE tx.call \in {"withdraw", "transferToTreasury"}
    <3>1. UNCHANGED <<proxies, vestings>>
        BY <2>1, <2>6 DEF ExecuteCall, ExecuteWithdraw, ExecuteTransfer
    <3>2. /\ \A token, logic : TokenUpgraded(token, logic) => TokenUpgraded(token, logic)'
          /\ \A vault : VaultInitialized(vault) => VaultInitialized(vault)'
        BY <3>1 DEF TokenUpgraded, VaultInitialized
    <3>3. ASSUME NEW t \in Proxies, distribution[t] = Treasury
          PROVE  distribution'[t] = Treasury
      <4>1. distribution \in [Proxies -> Vestings \cup People \cup {NoAddress}]
          BY DEF StatesTyped
      <4>2. CASE tx.call = "withdraw"
        <5>1. tx.to \in Vestings /\ ExecuteWithdraw(tx)
            BY <2>1, <4>2 DEF ExecuteCall, Txs
        <5>2. distribution[vestings[tx.to].token] = tx.to
            BY <2>1, <4>2 DEF Accepts, CanTransfer
        <5>3. Treasury # tx.to
            BY <5>1, AddressesAssumption DEF Vestings, People
        <5> QED BY <3>3, <4>1, <5>1, <5>2, <5>3 DEF ExecuteWithdraw
      <4>3. CASE tx.call = "transferToTreasury"
        <5>1. tx.recipient = Treasury /\ ExecuteTransfer(tx)
            BY <2>1, <4>3 DEF ExecuteCall, Txs
        <5> QED BY <3>3, <4>1, <5>1 DEF ExecuteTransfer
      <4> QED BY <2>6, <4>2, <4>3
    <3>4. \A token, logic : TokenUpgraded(token, logic) => token \in Proxies
        BY <1>3
    <3> QED BY <3>1, <3>2, <3>3, <3>4 DEF Kept
  <2> QED BY <2>1, <2>2, <2>3, <2>4, <2>5, <2>6 DEF ExecuteCall
<1> QED BY <1>1, <1>5

\* Nothing that the operator runs undoes an upgrade, a vault or a vesting
\* contract that was set up.
LEMMA KeptStep ==
    ASSUME Inv, Next
    PROVE  Kept
<1>1. ASSUME NEW signer \in Signers, Mine(signer) PROVE Kept
  <2>1. PICK tx : tx = Head(pending[signer])
      OBVIOUS
  <2>2. StatesTyped /\ TargetsApart
      BY DEF Inv
  <2>3. /\ tx \in Txs /\ tx.from = signer /\ tx = pending[signer][1]
        /\ Len(pending[signer]) \in Nat \ {0}
      BY <1>1, <2>1, <2>2, MineFacts
  <2>4. (Succeeds(tx) /\ Execute(tx)) \/ UNCHANGED chain
      BY <1>1, <2>1 DEF Mine
  <2>5. tx.call = "upgradeToken" => tx.to \in TokenTargets
    <3>1. tx.call = "upgradeToken" => signer = Deployer
        BY <2>3 DEF Txs
    <3> QED BY <2>3, <3>1 DEF TokenTargets, UpgradeTargets
  <2>6. CASE UNCHANGED chain
      BY <2>6, KeptSame DEF chain
  <2>7. CASE Succeeds(tx) /\ Execute(tx)
      BY <2>2, <2>3, <2>5, <2>7, ExecuteKeeps
  <2> QED BY <2>4, <2>6, <2>7
<1>2. ASSUME NEW name \in Exports, FactoryCreate(name) PROVE Kept
    BY <1>2, KeptSame DEF FactoryCreate
<1> QED
    BY <1>1, <1>2, KeptSame
    DEF Next, Start, Stop, ScriptStep, SendCreation, SendCall, SendTransaction, Throw,
        RegisterAddress, RegisterPrediction, WriteCallData, PrintAddressAndSalt,
        ReportFinished, chain

\* Where an initialization is, and the step it is at.
LEMMA AtPosition ==
    ASSUME Inv, Does(script.todo, {"finish"})
    PROVE  /\ script.todo # <<>>
           /\ Position \in 1 .. 8
           /\ Len(script.todo) = 9 - Position
           /\ Step = TokenInitialization[Position]
<1>1. PICK n : n = Len(script.todo)
    OBVIOUS
<1>2. script \in Scripts /\ script.todo \in Seq(Steps) /\ n \in Nat
    BY <1>1 DEF Inv, StatesTyped, Scripts
<1>3. PICK i \in 1 .. n : script.todo[i].do = "finish"
    BY <1>1 DEF Does
<1>4. script.todo # <<>> /\ n \in Nat \ {0}
    BY <1>1, <1>2, <1>3
<1>5. n <= 8 /\ script.todo[1] = TokenInitialization[8 - n + 1]
  <2>1. IsInitialization(script.todo)
      BY DEF Inv, ScriptKnown
  <2>2. n <= 8 /\ \A k \in 1 .. n : script.todo[k] = TokenInitialization[8 - n + k]
      BY <1>1, <2>1 DEF IsInitialization
  <2>3. 1 \in 1 .. n
      BY <1>4
  <2> QED BY <2>2, <2>3
<1>6. Position = 9 - n /\ 8 - n + 1 = 9 - n /\ Step = script.todo[1]
    BY <1>1, <1>2, <1>4, StepFacts DEF Position
<1>7. 9 - n \in 1 .. 8 /\ n = 9 - (9 - n)
    BY <1>4, <1>5
<1> QED BY <1>1, <1>4, <1>5, <1>6, <1>7

\* What an initialization does, position by position.
LEMMA CallAt ==
    ASSUME Inv, Does(script.todo, {"finish"})
    PROVE  /\ Position \in 1 .. 7 => Step.do = "send"
           /\ Position = 1 => Step.call = "initializeToken"
           /\ Position = 2 => Step.call = "upgradeToken"
           /\ Position = 3 => Step.call = "initializeVault"
           /\ Position = 4 => Step.call = "initializeVesting"
           /\ Position = 5 => Step.call = "transferOwnership"
           /\ Position = 6 => Step.call = "withdraw"
           /\ Position = 7 => Step.call = "transferToTreasury"
           /\ Position = 8 => Step.do = "finish"
<1>1. PICK p \in 1 .. 8 : p = Position /\ Step = TokenInitialization[p]
    BY AtPosition
<1>2. p \in {1, 2, 3, 4, 5, 6, 7, 8}
    OBVIOUS
<1> QED BY <1>1, <1>2, InitializationSteps DEF Send, Finish

\* An initialization begins, or goes on with its script, a position further or
\* where it was.
LEMMA InitializingMoves ==
    ASSUME Inv, Next, Initializing'
    PROVE  \/ \E on \in {"testnet", "oasys"} : \E task \in TasksOn[on] :
                 Start(on, task) /\ script'.todo = TokenInitialization
           \/ /\ Initializing /\ network' = network
              /\ \/ script'.todo = script.todo /\ Position' = Position
                 \/ script' = Advance /\ Position' = Position + 1
<1>1. script \in Scripts
    BY DEF Inv, StatesTyped
<1>2. ASSUME NEW on \in {"testnet", "oasys"}, NEW task \in TasksOn[on], Start(on, task)
      PROVE  script'.todo = TokenInitialization
  <2>1. script'.todo = Program(on, task)
      BY <1>2 DEF Start, Idle
  <2> QED BY <2>1, ProgramsAreOrderly DEF Initializing, Orderly, BothNetworks
<1>3. CASE script' = Idle
    BY <1>3 DEF Initializing, Does, Idle
<1>4. CASE /\ network' = network
           /\ \/ script' = script
              \/ script'.todo = script.todo /\ script'.hadCode = script.hadCode
    BY <1>4 DEF Initializing, Position
<1>5. CASE network' = network /\ script' = Advance /\ script.todo # <<>>
  <2>1. PICK rest : rest = Tail(script.todo)
      OBVIOUS
  <2>2. script'.todo = rest /\ Does(rest, {"finish"})
      BY <1>1, <1>5, <2>1, AdvanceFacts DEF Initializing
  <2>3. Does(script.todo, {"finish"})
      BY <1>1, <1>5, <2>1, <2>2, TailKnown DEF Inv
  <2>4. rest # <<>>
      BY <2>2 DEF Does
  <2>5. script.hadCode
      BY <1>1, <1>5, <2>2, <2>4, AdvanceFacts DEF Initializing
  <2>6. PICK n, k : n = Len(script.todo) /\ k = Len(rest)
      OBVIOUS
  <2>7. n \in Nat /\ k = n - 1
      BY <1>1, <1>5, <2>1, <2>6, TailFacts
  <2>8. Position = 9 - n /\ Position' = 9 - k
      BY <2>2, <2>6 DEF Position
  <2> QED BY <1>5, <2>3, <2>5, <2>7, <2>8 DEF Initializing
<1> QED BY <1>2, <1>3, <1>4, <1>5, ScriptMoves

\* While an initialization goes on, the registry stays: what happens is that it
\* sends, that a transaction is mined, or that others create contracts.
LEMMA InitializingSteps ==
    ASSUME Inv, Next, Initializing, Initializing'
    PROVE  \/ \E on \in {"testnet", "oasys"} : \E task \in TasksOn[on] : Start(on, task)
           \/ \E name \in Exports : FactoryCreate(name)
           \/ SendCall
           \/ \E signer \in Signers : Mine(signer)
<1>1. script \in Scripts /\ script.todo # <<>> /\ Step.do \in {"send", "finish"}
      /\ (Step.do = "finish" => Len(script.todo) = 1)
  <2>1. PICK p \in 1 .. 8 : p = Position
      BY AtPosition DEF Initializing
  <2>2. p \in 1 .. 7 \/ p = 8
      OBVIOUS
  <2>3. Len(script.todo) = 9 - p
      BY <2>1, AtPosition DEF Initializing
  <2>4. p \in 1 .. 7 => Step.do = "send"
      BY <2>1, CallAt DEF Initializing
  <2>5. p = 8 => Step.do = "finish" /\ Len(script.todo) = 1
      BY <2>1, <2>3, CallAt DEF Initializing
  <2> QED BY <2>2, <2>4, <2>5, AtPosition DEF Inv, StatesTyped, Initializing
<1>2. script' # Idle
    BY DEF Initializing, Does, Idle
<1>3. ~ReportFinished
  <2>1. ReportFinished => Step.do = "finish" /\ script' = Advance
      BY DEF ReportFinished, At, Step
  <2> QED BY <1>1, <1>2, <2>1 DEF Advance
<1> QED
    BY <1>1, <1>2, <1>3
    DEF Next, ScriptStep, Stop, Throw, SendCreation, RegisterAddress, RegisterPrediction,
        WriteCallData, PrintAddressAndSalt, At, Step

\* An entry is the same as long as the registry and the network are.
LEMMA EntrySame ==
    ASSUME UNCHANGED <<network, db>>, NEW name
    PROVE  Entry(name)' = Entry(name)
BY DEF Entry

\* What was reached stays, as long as nothing is mined.
LEMMA ReachedSame ==
    ASSUME NEW p, NEW token, NEW logic, NEW vesting, NEW vault,
           Reached(p, token, logic, vesting, vault),
           UNCHANGED <<network, proxies, vestings, distribution>>, deployed \subseteq deployed',
           \A n \in Nat : PendingAre(n) => PendingAre(n)',
           pending[Deployer] # <<>> =>
              pending'[Deployer] # <<>> /\ Head(pending'[Deployer]) = Head(pending[Deployer])
    PROVE  Reached(p, token, logic, vesting, vault)'
<1>1. TokenFresh(token) => TokenFresh(token)'
    BY DEF TokenFresh, IsEmpty
<1>2. TokenUpgraded(token, logic) => TokenUpgraded(token, logic)'
    BY DEF TokenUpgraded
<1>3. VaultInitialized(vault) => VaultInitialized(vault)'
    BY DEF VaultInitialized
<1>4. WithCode \subseteq WithCode'
    BY DEF WithCode
<1>5. UpgradePending(token, logic) => UpgradePending(token, logic)'
    BY <1>1, <1>4 DEF UpgradePending
<1> QED BY <1>1, <1>2, <1>3, <1>5 DEF Reached

\* A call is the one its name says, to a contract the registry names.
LEMMA TransactionCall ==
    ASSUME NEW call \in Calls
    PROVE  /\ Transaction(call).call = call
           /\ \E name \in Names : Transaction(call).to = Entry(name)
BY DEF Transaction, Calls, CallsOfDeployer, CallsOfVestingOwner, Names

\* What an initialization waits for is mined, and takes effect: it is the call
\* of its step, to a contract with code.
LEMMA WaitedMined ==
    ASSUME Inv, Initializing, Initializing', NEW signer \in Signers, Mine(signer),
           script.waitsFor = signer, Len(pending[signer]) = 1,
           NEW tx, tx = Head(pending[signer])
    PROVE  /\ tx \in Txs /\ tx.from = signer
           /\ Step.do = "send" /\ Awaited(Step.call) /\ Step.call \in Calls
           /\ tx = Transaction(Step.call) /\ tx.call = Step.call
           /\ Accepts(tx) /\ ExecuteCall(tx)
           /\ script' = Advance /\ script.todo # <<>>
           /\ Len(pending'[signer]) = 0
<1>1. /\ StatesTyped /\ script \in Scripts /\ script.todo # <<>>
      /\ network \in BothNetworks
      /\ db \in [BothNetworks -> [Names -> Contracts \cup {NoAddress}]]
    BY AtPosition DEF Inv, StatesTyped, Initializing
<1>2. /\ tx \in Txs /\ tx.from = signer /\ tx = pending[signer][1]
      /\ Len(pending'[signer]) = 0
  <2>1. /\ Head(pending[signer]) \in Txs /\ Head(pending[signer]).from = signer
        /\ Head(pending[signer]) = pending[signer][1]
        /\ Len(pending'[signer]) = Len(pending[signer]) - 1
      BY <1>1, MineFacts
  <2> QED BY <2>1
<1>3. script' # Idle
    BY DEF Initializing, Does, Idle
<1>4. script' = Advance /\ Succeeds(tx) /\ Execute(tx)
    BY <1>3, MineScript
<1>5. script.waitsFor # NoAddress
    BY PeopleAssumption DEF Signers, People
<1>6. Step.do # "deploy"
  <2>1. PICK p \in 1 .. 8 : p = Position
      BY AtPosition DEF Initializing
  <2>2. p \in 1 .. 7 \/ p = 8
      OBVIOUS
  <2> QED BY <2>1, <2>2, CallAt DEF Initializing
<1>7. /\ Step.do = "send" /\ Awaited(Step.call)
      /\ LastPending(signer) = Transaction(Step.call)
    BY <1>5, <1>6 DEF Inv, ScriptWaits, Step
<1>8. tx = Transaction(Step.call)
    BY <1>2, <1>7 DEF LastPending
<1>9. Step.call \in Calls /\ tx.call = Step.call
    BY <1>1, <1>7, <1>8, StepFacts, TransactionCall
<1>10. tx.call # "create"
    BY <1>9 DEF Calls, CallsOfDeployer, CallsOfVestingOwner
<1>11. tx.to \in WithCode
  <2>1. PICK name \in Names : tx.to = Entry(name)
      BY <1>8, <1>9, TransactionCall
  <2>2. tx.to \in Contracts
      BY <1>2, <1>10 DEF Txs, Vestings
  <2>3. tx.to # NoAddress
      BY <2>2, AddressesAssumption
  <2>4. RegisteredHaveCode
      BY DEF Inv, Progress
  <2> QED BY <2>1, <2>3, <2>4 DEF RegisteredHaveCode
<1>12. Accepts(tx) /\ ExecuteCall(tx)
    BY <1>4, <1>10, <1>11 DEF Succeeds, Execute, IntoTheVoid
<1> QED BY <1>1, <1>2, <1>4, <1>7, <1>8, <1>9, <1>12

\* When it is mined the initialization has reached its next position.
LEMMA ReachedNext ==
    ASSUME Inv, Kept, Initializing, Initializing', NEW signer \in Signers, Mine(signer),
           script.waitsFor = signer, Len(pending[signer]) = 1,
           NEW token, token = Entry("PlmyToken"), NEW logic, logic = Entry("PlmyTokenV2"),
           NEW vesting, vesting = Entry("TokenVesting"),
           NEW vault, vault = Entry("PalmyRewardsVaultProxy"),
           NEW p \in 1 .. 8, p = Position
    PROVE  Reached(p + 1, token, logic, vesting, vault)'
<1>1. PICK tx : tx = Head(pending[signer])
    OBVIOUS
<1>2. /\ tx \in Txs /\ tx.from = signer
      /\ Step.do = "send" /\ Awaited(Step.call) /\ Step.call \in Calls
      /\ tx = Transaction(Step.call) /\ tx.call = Step.call
      /\ Accepts(tx) /\ ExecuteCall(tx)
      /\ script' = Advance /\ script.todo # <<>>
      /\ Len(pending'[signer]) = 0
    BY <1>1, WaitedMined
<1>3. Reached(p, token, logic, vesting, vault)
    BY DEF Inv, Progress
<1>4. /\ StatesTyped /\ script \in Scripts
      /\ proxies \in [Proxies -> ProxyStates] /\ vestings \in [Vestings -> VestingStates]
      /\ distribution \in [Proxies -> Vestings \cup People \cup {NoAddress}]
      /\ network \in BothNetworks /\ Deployer \in Signers
    BY DEF Inv, StatesTyped, Signers
<1>5. p \in {1, 2, 3, 4, 5, 6, 7, 8} /\ p \in Int
    OBVIOUS
<1>6. /\ p \in 1 .. 7 => Step.do = "send"
      /\ p = 1 => tx.call = "initializeToken" /\ signer = Deployer
      /\ p = 2 => tx.call = "upgradeToken"
      /\ p = 3 => tx.call = "initializeVault" /\ signer = Deployer
      /\ p = 4 => tx.call = "initializeVesting" /\ signer = Deployer
      /\ p = 5 => tx.call = "transferOwnership" /\ signer = Deployer
      /\ p = 6 => tx.call = "withdraw" /\ signer = VestingOwner
      /\ p = 7 => tx.call = "transferToTreasury" /\ signer = VestingOwner
      /\ p = 8 => Step.do = "finish"
    BY <1>2, CallAt DEF Initializing, Txs
<1>7. p # 2 /\ p # 8
    BY <1>2, <1>6 DEF Awaited
<1>8. WaitedOf(Deployer)' = 0
  <2>1. script'.waitsFor = NoAddress
      BY <1>2, <1>4, AdvanceFacts
  <2> QED BY <1>4, <2>1, WaitedFacts
<1>9. signer = Deployer => PendingAre(0)'
    BY <1>2, <1>8 DEF PendingAre
<1>10. signer = VestingOwner /\ PendingAre(0) => PendingAre(0)'
  <2>1. ASSUME signer = VestingOwner, PendingAre(0) PROVE PendingAre(0)'
    <3>1. WaitedOf(Deployer) = 0
        BY <2>1, PeopleAssumption DEF WaitedOf
    <3>2. pending'[Deployer] = pending[Deployer]
        BY <1>4, <2>1, MineFacts, PeopleAssumption
    <3> QED BY <1>8, <2>1, <3>1, <3>2 DEF PendingAre
  <2> QED BY <2>1
<1>11. /\ TokenUpgraded(token, logic) => TokenUpgraded(token, logic)'
       /\ VaultInitialized(vault) => VaultInitialized(vault)'
       /\ vesting \in Vestings /\ vestings[vesting].token # NoAddress =>
             vestings'[vesting].token = vestings[vesting].token
       /\ vesting \in Vestings /\ vestings[vesting].owner = VestingOwner =>
             vestings'[vesting].owner = VestingOwner
       /\ TokenUpgraded(token, logic) => token \in Proxies /\ token # NoAddress /\ ~IsEmpty(token)
  <2>1. vault \in VaultTargets
      BY <1>4 DEF VaultTargets, Entry, VaultEntry
  <2>2. TokenUpgraded(token, logic) => token \in Proxies /\ token # NoAddress /\ ~IsEmpty(token)
      BY AddressesAssumption DEF TokenUpgraded, Proxies, IsEmpty
  <2> QED BY <2>1, <2>2 DEF Kept
<1>12. CASE p = 1
  <2>1. /\ tx.to = token /\ tx.admin = PlmyAdmin
        /\ tx.logic \in Contracts /\ tx.logic.code = "PlmyToken"
        /\ token \in Proxies
      BY <1>2, <1>6, <1>12 DEF Transaction, Accepts, CanInitializeProxy, Txs
  <2>2. ExecuteInitializeToken(tx)
      BY <1>2, <1>6, <1>12 DEF ExecuteCall
  <2>3. proxies'[token] = [InitializedProxy(tx) EXCEPT !.revision = REVISION(tx.logic.code)]
      BY <1>4, <2>1, <2>2 DEF ExecuteInitializeToken
  <2>4. REVISION(tx.logic.code) = 1
      BY <2>1 DEF REVISION
  <2>5. /\ proxies'[token].implementation = tx.logic
        /\ proxies'[token].admin = PlmyAdmin
        /\ proxies'[token].revision = 1
      BY <1>4, <2>1, <2>3, <2>4 DEF InitializedProxy, ProxyStates
  <2>6. tx.logic # NoAddress
      BY <2>1, AddressesAssumption
  <2>7. TokenFresh(token)'
      BY <2>1, <2>5, <2>6 DEF TokenFresh, IsEmpty
  <2> QED BY <1>6, <1>9, <1>12, <2>7 DEF Reached
<1>13. CASE p = 3
  <2>1. ~PendingAre(1)
    <3>1. WaitedOf(Deployer) = 1
        BY <1>6, <1>13 DEF WaitedOf
    <3> QED BY <1>6, <1>13, <3>1 DEF PendingAre
  <2>2. TokenUpgraded(token, logic)
      BY <1>3, <1>13, <2>1 DEF Reached
  <2>3. /\ tx.to = vault /\ vault \in Proxies
        /\ tx.logic \in Contracts /\ tx.logic.code = "PalmyRewardsVault"
      BY <1>2, <1>6, <1>13 DEF Transaction, Accepts, CanInitializeProxy, Txs
  <2>4. ExecuteInitializeVault(tx)
      BY <1>2, <1>6, <1>13 DEF ExecuteCall
  <2>5. proxies'[vault] = [InitializedProxy(tx) EXCEPT
                              !.revision = REVISION(tx.logic.code), !.token = WOAS,
                              !.incentivesController = IncentivesController]
      BY <1>4, <2>3, <2>4 DEF ExecuteInitializeVault
  <2>6. /\ proxies'[vault].implementation = tx.logic
        /\ proxies'[vault].incentivesController = IncentivesController
      BY <1>4, <2>3, <2>5 DEF InitializedProxy, ProxyStates
  <2>7. VaultInitialized(vault)'
      BY <2>3, <2>6 DEF VaultInitialized
  <2> QED BY <1>6, <1>9, <1>11, <1>13, <2>2, <2>7 DEF Reached
<1>14. CASE p = 4
  <2>1. /\ tx.to = vesting /\ vesting \in Vestings /\ tx.token = token
      BY <1>2, <1>6, <1>14 DEF Transaction, Txs
  <2>2. ExecuteVesting(tx)
      BY <1>2, <1>6, <1>14 DEF ExecuteCall
  <2>3. vestings'[vesting] = [vestings[vesting] EXCEPT !.token = token]
      BY <1>4, <1>6, <1>14, <2>1, <2>2 DEF ExecuteVesting
  <2>4. vestings'[vesting].token = token
      BY <1>4, <2>1, <2>3 DEF VestingStates
  <2> QED BY <1>3, <1>6, <1>9, <1>11, <1>14, <2>1, <2>4 DEF Reached
<1>15. CASE p = 5
  <2>1. /\ tx.to = vesting /\ vesting \in Vestings /\ tx.newOwner = VestingOwner
      BY <1>2, <1>6, <1>15 DEF Transaction, Txs
  <2>2. ExecuteVesting(tx)
      BY <1>2, <1>6, <1>15 DEF ExecuteCall
  <2>3. vestings'[vesting] = [vestings[vesting] EXCEPT !.owner = VestingOwner]
      BY <1>4, <1>6, <1>15, <2>1, <2>2 DEF ExecuteVesting
  <2>4. vestings'[vesting].owner = VestingOwner
      BY <1>4, <2>1, <2>3 DEF VestingStates
  <2> QED BY <1>3, <1>6, <1>9, <1>11, <1>15, <2>1, <2>4 DEF Reached
<1>16. CASE p = 6
    BY <1>3, <1>6, <1>10, <1>11, <1>16 DEF Reached
<1>17. CASE p = 7
  <2>1. tx.to = token /\ tx.recipient = Treasury
      BY <1>2, <1>6, <1>17 DEF Transaction
  <2>2. ExecuteTransfer(tx)
      BY <1>2, <1>6, <1>17 DEF ExecuteCall
  <2>3. TokenUpgraded(token, logic)
      BY <1>3, <1>17 DEF Reached
  <2>4. distribution'[token] = Treasury
      BY <1>4, <1>11, <2>1, <2>2, <2>3 DEF ExecuteTransfer
  <2> QED BY <1>3, <1>6, <1>10, <1>11, <1>17, <2>4 DEF Reached
<1> QED BY <1>5, <1>7, <1>12, <1>13, <1>14, <1>15, <1>16, <1>17

\* A call is sent: the script waits for it, or goes on.
LEMMA CallSent ==
    ASSUME Inv, SendCall, NEW tx, tx = Transaction(Step.call)
    PROVE  /\ script.todo # <<>> /\ script.waitsFor = NoAddress
           /\ Step.do = "send" /\ Step.call \in Calls
           /\ tx \in Txs /\ tx.call = Step.call /\ SendTransaction(tx) /\ Succeeds(tx)
           /\ \/ Awaited(Step.call) /\ script' = [script EXCEPT !.waitsFor = tx.from]
              \/ ~Awaited(Step.call) /\ script' = Advance
<1>1. script \in Scripts /\ StatesTyped /\ RegistryKnown
    BY DEF Inv, StatesTyped
<1>2. /\ script.todo # <<>> /\ script.waitsFor = NoAddress
      /\ Step.do = "send" /\ CanSend(Step.call)
    BY DEF SendCall, At, Step
<1>3. Step.call \in Calls
    BY <1>1, <1>2, StepFacts
<1>4. tx \in Txs /\ tx.call = Step.call
    BY <1>1, <1>2, <1>3, TransactionTyped
<1>5. SendTransaction(tx) /\ Succeeds(tx)
    BY <1>2 DEF SendCall, CanSend
<1>6. \/ Awaited(Step.call) /\ script' = [script EXCEPT !.waitsFor = tx.from]
      \/ ~Awaited(Step.call) /\ script' = Advance
    BY <1>4 DEF SendCall
<1> QED BY <1>2, <1>3, <1>4, <1>5, <1>6

\* The upgrade that is sent and not waited for cannot fail any more: the token
\* is initialized, the deployer is its admin, and nothing is mined before it.
LEMMA UpgradeSent ==
    ASSUME Inv, Initializing, SendCall, ~Awaited(Step.call),
           NEW token, token = Entry("PlmyToken"), NEW logic, logic = Entry("PlmyTokenV2"),
           NEW vesting, NEW vault, Position = 2, Reached(2, token, logic, vesting, vault)
    PROVE  Reached(3, token, logic, vesting, vault)'
<1>1. PICK tx : tx = Transaction(Step.call)
    OBVIOUS
<1>2. /\ script.todo # <<>> /\ script.waitsFor = NoAddress
      /\ tx \in Txs /\ tx.call = Step.call /\ SendTransaction(tx) /\ Succeeds(tx)
      /\ script' = Advance
    BY <1>1, CallSent
<1>3. StatesTyped /\ script \in Scripts /\ Deployer \in Signers
    BY DEF Inv, StatesTyped, Signers
<1>4. tx = UpgradeOf(token, logic) /\ tx.call = "upgradeToken"
  <2>1. Step.call = "upgradeToken"
      BY CallAt DEF Initializing
  <2> QED BY <1>1, <2>1 DEF Transaction, UpgradeOf
<1>5. tx.from = Deployer /\ tx.to = token /\ tx.logic = logic
    BY <1>4 DEF UpgradeOf
<1>6. TokenFresh(token) /\ PendingAre(0)
    BY DEF Reached
<1>7. token \in WithCode
  <2>1. token # NoAddress
      BY <1>6, AddressesAssumption DEF TokenFresh, Proxies
  <2>2. RegisteredHaveCode /\ "PlmyToken" \in Names
      BY DEF Inv, Progress, Names
  <2> QED BY <2>1, <2>2 DEF RegisteredHaveCode
<1>8. Accepts(tx)
    BY <1>2, <1>4, <1>5, <1>7 DEF Succeeds, IntoTheVoid
<1>9. /\ PlmyAdmin = Deployer /\ logic \in WithCode
      /\ REVISION(logic.code) > 1
    BY <1>4, <1>5, <1>6, <1>8 DEF Accepts, TokenFresh, MayInitialize
<1>10. logic.code = "PlmyTokenV2"
    BY <1>9 DEF REVISION
<1>11. WaitedOf(Deployer) = 0 /\ WaitedOf(Deployer)' = 0
    BY <1>2, <1>3, AdvanceFacts, WaitedFacts
<1>12. Len(pending[Deployer]) = 0
    BY <1>6, <1>11 DEF PendingAre
<1>13. PICK queue : queue = pending'[Deployer]
    OBVIOUS
<1>14. queue \in Seq(Txs) /\ Len(queue) = 1 /\ queue[1] = tx
  <2>1. /\ pending' \in [Signers -> Seq(Txs)]
        /\ Len(pending'[Deployer]) = Len(pending[Deployer]) + 1
        /\ pending'[Deployer][Len(pending[Deployer]) + 1] = tx
      BY <1>2, <1>3, <1>5, SendFacts
  <2> QED BY <1>3, <1>12, <1>13, <2>1
<1>15. queue # <<>> /\ Head(queue) = tx
    BY <1>14, EmptyLen, HeadTailProperties
<1>16. TokenFresh(token)' /\ WithCode' = WithCode
  <2>1. UNCHANGED <<network, deployed, proxies>>
      BY <1>2 DEF SendTransaction, disk, chain
  <2> QED BY <1>6, <2>1 DEF TokenFresh, IsEmpty, WithCode
<1>17. UpgradePending(token, logic)'
    BY <1>4, <1>7, <1>9, <1>10, <1>13, <1>15, <1>16 DEF UpgradePending, UpgradeOf
<1>18. PendingAre(1)'
    BY <1>11, <1>13, <1>14 DEF PendingAre
<1> QED BY <1>17, <1>18 DEF Reached

\* Mined, it takes effect.
LEMMA UpgradeMined ==
    ASSUME Inv, Mine(Deployer), NEW token, NEW logic, UpgradePending(token, logic),
           PendingAre(1), script' = script
    PROVE  TokenUpgraded(token, logic)' /\ PendingAre(0)'
<1>1. PICK tx : tx = Head(pending[Deployer])
    OBVIOUS
<1>2. /\ StatesTyped /\ Deployer \in Signers /\ proxies \in [Proxies -> ProxyStates]
    BY DEF Inv, StatesTyped, Signers
<1>3. /\ tx = UpgradeOf(token, logic)
      /\ TokenFresh(token) /\ PlmyAdmin = Deployer
      /\ token \in WithCode /\ logic \in WithCode /\ logic.code = "PlmyTokenV2"
    BY <1>1 DEF UpgradePending
<1>4. tx.call = "upgradeToken" /\ tx.from = Deployer /\ tx.to = token /\ tx.logic = logic
    BY <1>3 DEF UpgradeOf
<1>5. MayInitialize(token, logic.code)
    BY <1>3 DEF MayInitialize, REVISION, TokenFresh
<1>6. Accepts(tx)
    BY <1>3, <1>4, <1>5 DEF Accepts, TokenFresh
<1>7. Succeeds(tx) /\ ~IntoTheVoid(tx)
    BY <1>3, <1>4, <1>6 DEF Succeeds, IntoTheVoid
<1>8. ExecuteUpgrade(tx)
  <2>1. Execute(tx)
      BY <1>1, <1>7 DEF Mine
  <2> QED BY <1>4, <1>7, <2>1 DEF Execute, ExecuteCall
<1>9. /\ token \in Proxies /\ ~IsEmpty(token) /\ logic \in Contracts
      /\ proxies[token] \in ProxyStates /\ proxies[token].admin = PlmyAdmin
    BY <1>2, <1>3 DEF TokenFresh, WithCode, StatesTyped
<1>10. proxies' = [proxies EXCEPT ![token].implementation = logic,
                                  ![token].revision = REVISION(logic.code)]
    BY <1>4, <1>8, <1>9 DEF ExecuteUpgrade
<1>11. [proxies EXCEPT ![token].implementation = logic,
                       ![token].revision = REVISION(logic.code)]
       = [proxies EXCEPT ![token] = [proxies[token] EXCEPT
             !.implementation = logic, !.revision = REVISION(logic.code)]]
    BY <1>2, <1>9
<1>12. REVISION(logic.code) = 2
    BY <1>3 DEF REVISION
<1>13. proxies'[token] = [proxies[token] EXCEPT !.implementation = logic, !.revision = 2]
    BY <1>2, <1>9, <1>10, <1>11, <1>12
<1>14. TokenUpgraded(token, logic)'
    BY <1>3, <1>9, <1>13 DEF TokenUpgraded, ProxyStates
<1>15. PendingAre(0)'
  <2>1. PICK l, l2, w : l = Len(pending[Deployer]) /\ l2 = Len(pending'[Deployer])
                        /\ w = WaitedOf(Deployer)
      OBVIOUS
  <2>2. l \in Nat /\ l2 = l - 1 /\ w \in {0, 1}
      BY <1>2, <2>1, MineFacts, WaitedFacts
  <2>3. l = 1 + w
      BY <2>1 DEF PendingAre
  <2>4. l2 = 0 + w
      BY <2>2, <2>3
  <2>5. WaitedOf(Deployer)' = w
      BY <2>1 DEF WaitedOf
  <2> QED BY <2>1, <2>4, <2>5 DEF PendingAre
<1> QED BY <1>14, <1>15

\* What another transaction leaves of what was reached when it is mined: before
\* the upgrade nobody but the deployer changes a proxy, and he has none unmined.
LEMMA ReachedMined ==
    ASSUME Inv, Kept, Initializing, NEW signer \in Signers, Mine(signer), script' = script,
           NEW token, NEW logic, NEW vesting,
           NEW vault \in VaultTargets, NEW p \in 1 .. 8,
           Reached(p, token, logic, vesting, vault)
    PROVE  Reached(p, token, logic, vesting, vault)'
<1>1. /\ StatesTyped /\ Deployer \in Signers
      /\ distribution \in [Proxies -> Vestings \cup People \cup {NoAddress}]
    BY DEF Inv, StatesTyped, Signers
<1>2. ~(script.waitsFor = signer /\ Len(pending[signer]) = 1)
  <2>1. script.todo # <<>>
      BY AtPosition DEF Initializing
  <2>2. script' # Idle
      BY <2>1 DEF Idle
  <2>3. script' = Advance => Len(script'.todo) = Len(script.todo) - 1 /\ Len(script.todo) \in Nat
      BY <1>1, <2>1, AdvanceFacts, TailFacts DEF StatesTyped
  <2>4. script' # Advance
    <3>1. PICK n : n = Len(script.todo)
        OBVIOUS
    <3>2. script' = Advance => n = n - 1 /\ n \in Nat
        BY <2>3, <3>1
    <3> QED BY <3>2
  <2> QED BY <2>2, <2>4, MineScript
<1>3. /\ TokenUpgraded(token, logic) => TokenUpgraded(token, logic)'
      /\ VaultInitialized(vault) => VaultInitialized(vault)'
      /\ TokenUpgraded(token, logic) /\ distribution[token] = Treasury =>
            distribution'[token] = Treasury
      /\ vesting \in Vestings /\ vestings[vesting].token # NoAddress =>
            vestings'[vesting].token = vestings[vesting].token
      /\ vesting \in Vestings /\ vestings[vesting].owner = VestingOwner =>
            vestings'[vesting].owner = VestingOwner
      /\ TokenUpgraded(token, logic) => token # NoAddress
    BY AddressesAssumption DEF Kept, TokenUpgraded, Proxies
<1>4. CASE signer = Deployer
  <2>1. ~PendingAre(0)
    <3>1. PICK l, w : l = Len(pending[Deployer]) /\ w = WaitedOf(Deployer)
        OBVIOUS
    <3>2. l \in Nat \ {0} /\ w \in {0, 1} /\ (w = 1 => l # 1)
        BY <1>1, <1>2, <1>4, <3>1, MineFacts, WaitedFacts DEF WaitedOf
    <3>3. l # 0 + w
        BY <3>2
    <3> QED BY <3>1, <3>3 DEF PendingAre
  <2>2. p \in {1, 2, 3, 4, 5, 6, 7, 8}
      OBVIOUS
  <2>3. p = 1 \/ (p = 3 /\ UpgradePending(token, logic) /\ PendingAre(1))
      BY <2>1, <2>2 DEF Reached
  <2>4. CASE p = 1
      BY <2>4 DEF Reached
  <2>5. CASE p = 3 /\ UpgradePending(token, logic) /\ PendingAre(1)
      BY <1>4, <2>5, UpgradeMined DEF Reached
  <2> QED BY <2>3, <2>4, <2>5
<1>5. CASE signer = VestingOwner
  <2>1. PICK tx : tx = Head(pending[signer])
      OBVIOUS
  <2>2. tx \in Txs /\ tx.from = VestingOwner
      BY <1>1, <1>5, <2>1, MineFacts
  <2>3. tx.call \in {"withdraw", "transferToTreasury"}
      BY <2>2, PeopleAssumption DEF Txs
  <2>4. UNCHANGED <<deployed, proxies, vestings>>
    <3>1. (Succeeds(tx) /\ Execute(tx)) \/ UNCHANGED chain
        BY <2>1 DEF Mine
    <3> QED BY <2>3, <3>1 DEF Execute, ExecuteCall, ExecuteWithdraw, ExecuteTransfer, chain
  <2>5. network' = network /\ pending'[Deployer] = pending[Deployer]
      BY <1>1, <1>5, MineFacts, PeopleAssumption DEF Mine, disk
  <2>6. \A n \in Nat : PendingAre(n) => PendingAre(n)'
      BY <2>5 DEF PendingAre, WaitedOf
  <2>7. TokenFresh(token) => TokenFresh(token)'
      BY <2>4 DEF TokenFresh, IsEmpty
  <2>8. UpgradePending(token, logic) => UpgradePending(token, logic)'
      BY <2>4, <2>5, <2>7 DEF UpgradePending, WithCode
  <2> QED BY <1>3, <2>4, <2>6, <2>7, <2>8 DEF Reached
<1> QED BY <1>4, <1>5 DEF Signers

\* A transaction that the script waits for is counted as such.
LEMMA SentOnWaiting ==
    ASSUME StatesTyped, NEW tx \in Txs, SendTransaction(tx),
           script.waitsFor = NoAddress, script'.waitsFor = tx.from
    PROVE  /\ \A n \in Nat : PendingAre(n) => PendingAre(n)'
           /\ pending[Deployer] # <<>> =>
                 pending'[Deployer] # <<>> /\ Head(pending'[Deployer]) = Head(pending[Deployer])
<1>1. /\ Deployer \in Signers /\ tx.from \in Signers
      /\ pending \in [Signers -> Seq(Txs)] /\ pending' \in [Signers -> Seq(Txs)]
    BY SendFacts DEF StatesTyped, Signers
<1>2. WaitedOf(Deployer) = 0
    BY <1>1, WaitedFacts
<1>3. CASE tx.from # Deployer
  <2>1. pending'[Deployer] = pending[Deployer]
      BY <1>1, <1>3, SendFacts
  <2>2. WaitedOf(Deployer)' = 0
      BY <1>3 DEF WaitedOf
  <2> QED BY <1>2, <2>1, <2>2 DEF PendingAre
<1>4. CASE tx.from = Deployer
  <2>1. PICK queue, l, queue2, l2 :
            /\ queue = pending[Deployer] /\ l = Len(queue)
            /\ queue2 = pending'[Deployer] /\ l2 = Len(queue2)
      OBVIOUS
  <2>2. queue \in Seq(Txs) /\ queue2 \in Seq(Txs) /\ l \in Nat
      BY <1>1, <2>1
  <2>3. l2 = l + 1 /\ \A i \in 1 .. l : queue2[i] = queue[i]
      BY <1>4, <2>1, SendFacts
  <2>4. WaitedOf(Deployer)' = 1
      BY <1>1, <1>4, WaitedFacts
  <2>5. ASSUME NEW n \in Nat, PendingAre(n) PROVE PendingAre(n)'
    <3>1. l = n + 0
        BY <1>2, <2>1, <2>5 DEF PendingAre
    <3>2. l2 = n + 1
        BY <2>3, <3>1
    <3> QED BY <2>1, <2>4, <3>2 DEF PendingAre
  <2>6. ASSUME queue # <<>> PROVE queue2 # <<>> /\ Head(queue2) = Head(queue)
    <3>1. l \in Nat \ {0} /\ Head(queue) = queue[1]
        BY <2>1, <2>2, <2>6, EmptyLen, HeadTailProperties
    <3>2. queue2[1] = queue[1] /\ l2 # 0
        BY <2>3, <3>1
    <3>3. queue2 # <<>>
        BY <2>1, <2>2, <3>2, EmptyLen
    <3>4. Head(queue2) = queue2[1]
        BY <2>2, <3>3, HeadTailProperties
    <3> QED BY <3>1, <3>2, <3>3, <3>4
  <2> QED BY <2>1, <2>5, <2>6
<1> QED BY <1>3, <1>4

\* An initialization waits for all it sends but the upgrade.
LEMMA AwaitedBut ==
    ASSUME Inv, Initializing, Step.do = "send", ~Awaited(Step.call)
    PROVE  Position = 2
<1>1. PICK p \in 1 .. 8 : p = Position
    BY AtPosition DEF Initializing
<1>2. p \in {1, 2, 3, 4, 5, 6, 7, 8}
    OBVIOUS
<1> QED BY <1>1, <1>2, CallAt DEF Initializing, Awaited

\* An initialization begins with whether all that is registered has code.
LEMMA InitializationBegins ==
    ASSUME NEW on, NEW task, Start(on, task), script'.todo = TokenInitialization, Initializing'
    PROVE  RegisteredHaveCode' /\ Position' = 1
<1>1. script'.hadCode = RegisteredHaveCode'
    BY DEF Start, Idle
<1>2. RegisteredHaveCode'
    BY <1>1 DEF Initializing
<1>3. Position' = 1
    BY InitializationSteps DEF Position
<1> QED BY <1>2, <1>3

\* No step of an initialization fails half-way: each leaves what the next needs.
LEMMA ProgressStep ==
    ASSUME Inv, Next
    PROVE  Progress'
<1>1. SUFFICES ASSUME Initializing', NEW p, p = Position',
                      NEW token, token = Entry("PlmyToken")',
                      NEW logic, logic = Entry("PlmyTokenV2")',
                      NEW vesting, vesting = Entry("TokenVesting")',
                      NEW vault, vault = Entry("PalmyRewardsVaultProxy")'
               PROVE  RegisteredHaveCode' /\ Reached(p, token, logic, vesting, vault)'
    BY DEF Progress
<1>2. StatesTyped /\ script \in Scripts /\ network \in BothNetworks
    BY DEF Inv, StatesTyped
<1>3. ASSUME NEW on, NEW task, Start(on, task), script'.todo = TokenInitialization
      PROVE  RegisteredHaveCode' /\ Reached(p, token, logic, vesting, vault)'
    BY <1>1, <1>3, InitializationBegins DEF Reached
<1>4. ASSUME Initializing, network' = network, db' = db,
             \/ script'.todo = script.todo /\ Position' = Position
             \/ script' = Advance /\ Position' = Position + 1,
             \/ \E name \in Exports : FactoryCreate(name)
             \/ SendCall
             \/ \E signer \in Signers : Mine(signer)
      PROVE  RegisteredHaveCode' /\ Reached(p, token, logic, vesting, vault)'
  <2>1. /\ token = Entry("PlmyToken") /\ logic = Entry("PlmyTokenV2")
        /\ vesting = Entry("TokenVesting") /\ vault = Entry("PalmyRewardsVaultProxy")
      BY <1>1, <1>4 DEF Entry
  <2>2. PICK q \in 1 .. 8 : q = Position
      BY <1>4, AtPosition DEF Initializing
  <2>3. Reached(q, token, logic, vesting, vault) /\ RegisteredHaveCode
      BY <1>4, <2>1, <2>2 DEF Inv, Progress
  <2>4. RegisteredHaveCode'
    <3>1. deployed \subseteq deployed'
        BY DeployedGrows
    <3>2. WithCode \subseteq WithCode'
        BY <1>4, <3>1 DEF WithCode
    <3>3. \A name \in Names : Entry(name)' = Entry(name)
        BY <1>4, EntrySame
    <3> QED BY <2>3, <3>2, <3>3 DEF RegisteredHaveCode
  <2>5. \/ script'.todo = script.todo /\ p = q
        \/ script' = Advance /\ p = q + 1
      BY <1>1, <1>4, <2>2
  <2>6. Len(script.todo) \in Nat /\ script.todo # <<>> /\ (script' = Advance => script'.todo # script.todo)
    <3>1. script.todo # <<>>
        BY <1>4, AtPosition DEF Initializing
    <3>2. PICK n : n = Len(script.todo)
        OBVIOUS
    <3>3. n \in Nat /\ Len(Tail(script.todo)) = n - 1
        BY <1>2, <3>1, <3>2, TailFacts
    <3>4. Advance.todo = Tail(script.todo)
        BY <1>2, <3>1, AdvanceFacts
    <3>5. n - 1 # n
        BY <3>3
    <3> QED BY <3>1, <3>2, <3>3, <3>4, <3>5
  <2>7. ASSUME NEW name \in Exports, FactoryCreate(name)
        PROVE  Reached(p, token, logic, vesting, vault)'
    <3>1. UNCHANGED <<network, proxies, vestings, distribution, pending, script>>
          /\ deployed \subseteq deployed'
        BY <2>7 DEF FactoryCreate, disk
    <3>2. p = q
        BY <2>5, <2>6, <3>1
    <3>3. \A n \in Nat : PendingAre(n) => PendingAre(n)'
        BY <3>1 DEF PendingAre, WaitedOf
    <3> QED BY <2>3, <3>1, <3>2, <3>3, ReachedSame
  <2>8. ASSUME SendCall
        PROVE  Reached(p, token, logic, vesting, vault)'
    <3>1. PICK tx : tx = Transaction(Step.call)
        OBVIOUS
    <3>2. /\ script.waitsFor = NoAddress
          /\ tx \in Txs /\ tx.call = Step.call /\ SendTransaction(tx)
          /\ \/ Awaited(Step.call) /\ script' = [script EXCEPT !.waitsFor = tx.from]
             \/ ~Awaited(Step.call) /\ script' = Advance
        BY <2>8, <3>1, CallSent
    <3>3. CASE Awaited(Step.call) /\ script' = [script EXCEPT !.waitsFor = tx.from]
      <4>1. script'.todo = script.todo /\ script'.waitsFor = tx.from /\ p = q
          BY <1>2, <2>5, <2>6, <3>3 DEF Scripts
      <4>2. UNCHANGED <<network, deployed, proxies, vestings, distribution>>
          BY <3>2 DEF SendTransaction, disk, chain
      <4>3. /\ \A n \in Nat : PendingAre(n) => PendingAre(n)'
            /\ pending[Deployer] # <<>> =>
                  pending'[Deployer] # <<>> /\ Head(pending'[Deployer]) = Head(pending[Deployer])
          BY <1>2, <3>2, <4>1, SentOnWaiting
      <4> QED BY <2>3, <4>1, <4>2, <4>3, ReachedSame
    <3>4. CASE ~Awaited(Step.call) /\ script' = Advance
      <4>1. p = q + 1
          BY <2>5, <2>6, <3>4
      <4>2. q = 2
          BY <1>4, <2>2, <2>8, <3>1, <3>4, CallSent, AwaitedBut
      <4> QED BY <1>4, <2>1, <2>2, <2>3, <2>8, <3>4, <4>1, <4>2, UpgradeSent
    <3> QED BY <3>2, <3>3, <3>4
  <2>9. ASSUME NEW signer \in Signers, Mine(signer)
        PROVE  Reached(p, token, logic, vesting, vault)'
    <3>1. Kept /\ vault \in VaultTargets
        BY <1>2, <2>1, KeptStep DEF VaultTargets, Entry, VaultEntry
    <3>2. CASE script' = Advance
      <4>1. p = q + 1
          BY <2>5, <2>6, <3>2
      <4>2. script.waitsFor = signer /\ Len(pending[signer]) = 1
          BY <2>6, <2>9, <3>2, MineScript
      <4> QED BY <1>1, <1>4, <2>1, <2>2, <2>9, <3>1, <4>1, <4>2, ReachedNext
    <3>3. CASE script' # Advance
      <4>1. script'.todo = script.todo /\ p = q
          BY <2>5, <3>3
      <4>2. script' = script
          BY <2>6, <2>9, <3>3, <4>1, MineScript DEF Idle
      <4> QED BY <1>4, <2>3, <2>9, <3>1, <4>1, <4>2, ReachedMined
    <3> QED BY <3>2, <3>3
  <2> QED BY <1>4, <2>4, <2>7, <2>8, <2>9
<1>5. ASSUME Initializing, network' = network,
             \/ script'.todo = script.todo /\ Position' = Position
             \/ script' = Advance /\ Position' = Position + 1
      PROVE  RegisteredHaveCode' /\ Reached(p, token, logic, vesting, vault)'
  <2>1. CASE \E on \in {"testnet", "oasys"} : \E task \in TasksOn[on] : Start(on, task)
    <3>1. script.todo = <<>>
        BY <2>1 DEF Start, Idle
    <3> QED BY <1>5, <3>1, AtPosition DEF Initializing
  <2>2. CASE \/ \E name \in Exports : FactoryCreate(name)
             \/ SendCall
             \/ \E signer \in Signers : Mine(signer)
    <3>1. db' = db
        BY <2>2 DEF FactoryCreate, SendCall, SendTransaction, Mine, disk
    <3> QED BY <1>4, <1>5, <2>2, <3>1
  <2> QED BY <1>1, <1>5, <2>1, <2>2, InitializingSteps
<1> QED BY <1>1, <1>3, <1>5, InitializingMoves

\* What an initialization that says it finished had set up is there, and what
\* one that finished before had set up stays.
LEMMA FinishedOnesStep ==
    ASSUME Inv, Next
    PROVE  FinishedOnes'
<1>1. SUFFICES ASSUME NEW f \in finished', f.hadCode
               PROVE  /\ TokenUpgraded(f.token, f.logic)'
                      /\ VaultInitialized(f.vault)'
                      /\ distribution'[f.token] = Treasury
                      /\ f.vesting \in Vestings
                      /\ vestings'[f.vesting] = [token |-> f.token, owner |-> VestingOwner]
    BY DEF FinishedOnes
<1>2. /\ script \in Scripts
      /\ vestings \in [Vestings -> VestingStates] /\ vestings' \in [Vestings -> VestingStates]
    BY StatesTypedStep DEF Inv, StatesTyped
<1>3. CASE f \in finished
  <2>1. /\ TokenUpgraded(f.token, f.logic) /\ VaultInitialized(f.vault)
        /\ distribution[f.token] = Treasury
        /\ f.vesting \in Vestings
        /\ vestings[f.vesting] = [token |-> f.token, owner |-> VestingOwner]
      BY <1>1, <1>3 DEF Inv, FinishedOnes
  <2>2. f.vault \in VaultTargets
      BY <1>3 DEF VaultTargets
  <2>3. f.token # NoAddress
      BY <2>1, AddressesAssumption DEF TokenUpgraded, Proxies
  <2>4. /\ TokenUpgraded(f.token, f.logic)' /\ VaultInitialized(f.vault)'
        /\ distribution'[f.token] = Treasury
        /\ vestings'[f.vesting].token = f.token
        /\ vestings'[f.vesting].owner = VestingOwner
      BY <2>1, <2>2, <2>3, KeptStep DEF Kept
  <2> QED BY <1>2, <2>1, <2>4 DEF VestingStates
<1>4. CASE f \notin finished
  <2>1. ReportFinished
    <3>1. ASSUME NEW signer \in Signers, Mine(signer) PROVE finished' = finished
        BY <3>1 DEF Mine
    <3>2. ASSUME NEW on, NEW task, Start(on, task) PROVE finished' = finished
        BY <3>2 DEF Start
    <3>3. ASSUME NEW name, FactoryCreate(name) PROVE finished' = finished
        BY <3>3 DEF FactoryCreate
    <3> QED
        BY <1>4, <3>1, <3>2, <3>3
        DEF Next, Stop, ScriptStep, SendCreation, SendCall, SendTransaction, Throw,
            RegisterAddress, WriteCallData, RegisterPrediction, PrintAddressAndSalt
  <2>2. /\ f = [hadCode |-> script.hadCode,
                token   |-> Entry("PlmyToken"),    logic |-> Entry("PlmyTokenV2"),
                vesting |-> Entry("TokenVesting"), vault |-> Entry("PalmyRewardsVaultProxy")]
        /\ UNCHANGED <<proxies, vestings, distribution>>
      BY <1>4, <2>1 DEF ReportFinished, chain
  <2>3. Initializing
      BY <1>1, <1>2, <2>1, <2>2, AtDoes DEF ReportFinished, Initializing
  <2>4. PICK p \in 1 .. 8 : p = Position
      BY <2>3, AtPosition DEF Initializing
  <2>5. Step.do = "finish"
      BY <2>1 DEF ReportFinished, At, Step
  <2>6. p = 8
    <3>1. p \in 1 .. 7 => Step.do = "send"
        BY <2>3, <2>4, CallAt DEF Initializing
    <3> QED BY <2>4, <2>5, <3>1
  <2>7. Reached(8, f.token, f.logic, f.vesting, f.vault)
      BY <2>2, <2>3, <2>4, <2>6 DEF Inv, Progress
  <2>8. /\ TokenUpgraded(f.token, f.logic) /\ VaultInitialized(f.vault)
        /\ distribution[f.token] = Treasury
        /\ f.vesting \in Vestings
        /\ vestings[f.vesting].token = f.token /\ vestings[f.vesting].owner = VestingOwner
      BY <2>7 DEF Reached
  <2> QED BY <1>2, <2>2, <2>8 DEF TokenUpgraded, VaultInitialized, VestingStates
<1> QED BY <1>3, <1>4

-----------------------------------------------------------------------------
(***************************************************************************)
(* The invariant holds, and what follows.                                  *)
(***************************************************************************)

\* At first no task runs, nothing is registered and nothing is sent.
LEMMA Initially ==
    ASSUME Init
    PROVE  Inv /\ OasysPredicted /\ TestnetDeployed
<1>1. /\ \A s \in Signers : pending[s] = <<>>
      /\ script.todo = <<>> /\ script.waitsFor = NoAddress /\ script.created = NoAddress
      /\ \A on \in BothNetworks : \A name \in Names : db[on][name] = NoAddress
      /\ deployed = {} /\ finished = {} /\ Deployer \in Signers /\ VestingOwner \in Signers
    BY DEF Init, Idle, BothNetworks, Signers
<1>2. Len(<<>>) = 0
    OBVIOUS
<1>3. StatesTyped
  <2>1. <<>> \in Seq(Txs)
      BY EmptySeq
  <2>2. EmptyProxy \in ProxyStates
      BY DEF EmptyProxy, ProxyStates
  <2>3. NewVesting \in VestingStates
      BY DEF NewVesting, VestingStates, People
  <2>4. 0 \in 0 .. MaxStops /\ 0 \in 0 .. MaxSwitches
      BY BoundsAssumption
  <2>5. network \in BothNetworks
      BY NetworksAssumption DEF Init, BothNetworks
  <2>6. db \in [BothNetworks -> [Names -> Contracts \cup {NoAddress}]]
      BY DEF Init, BothNetworks
  <2>7. script \in Scripts
      BY IdleTyped DEF Init
  <2> QED BY <1>1, <1>2, <2>1, <2>2, <2>3, <2>4, <2>5, <2>6, <2>7 DEF Init, StatesTyped
<1>4. RegistryKnown
    BY <1>1 DEF RegistryKnown
<1>5. TargetsKnown /\ TargetsApart
  <2>1. TokenTargets \subseteq {NoAddress}
      BY <1>1, <1>2 DEF TokenTargets, UpgradeTargets, Names, TokenEntry
  <2>2. VaultTargets \subseteq {NoAddress}
      BY <1>1 DEF VaultTargets, Names, VaultEntry
  <2> QED BY <2>1, <2>2 DEF TargetsKnown, TargetsApart
<1>6. CreationsApart /\ CreationsCounted
    BY <1>1, <1>2 DEF CreationsApart, CreationsCounted
<1>7. ScriptOrdered /\ ScriptWaits
    BY <1>1, <1>2 DEF ScriptOrdered, ScriptWaits
<1>8. ScriptKnown
    BY <1>1, <1>2 DEF ScriptKnown, OneUnawaited, Does, Init
<1>9. PendingBounded
  <2>1. Unawaited(script.todo) = 0
      BY <1>1, <1>2 DEF Unawaited
  <2>2. runs = 0 /\ stops = 0
      BY DEF Init
  <2>3. \A s \in Signers : Len(pending[s]) = 0 /\ WaitedOf(s) = 0
      BY <1>1, <1>2, WaitedFacts
  <2> QED BY <2>1, <2>2, <2>3 DEF PendingBounded
<1>10. Progress /\ FinishedOnes
    BY <1>1, <1>2 DEF Progress, FinishedOnes, Initializing, Does
<1>11. OasysPredicted
    BY <1>1 DEF OasysPredicted, BothNetworks
<1>12. TestnetDeployed
    BY <1>1, <1>2 DEF TestnetDeployed, RegisteredAreDeployed, BothNetworks, Does
<1> QED BY <1>3, <1>4, <1>5, <1>6, <1>7, <1>8, <1>9, <1>10, <1>11, <1>12 DEF Inv

\* It is about the variables alone.
LEMMA Stuttering ==
    ASSUME UNCHANGED vars
    PROVE  /\ Inv => Inv'
           /\ OasysPredicted => OasysPredicted'
           /\ TestnetDeployed => TestnetDeployed'
<1> USE DEF vars, disk, chain, counters
<1>1. StatesTyped => StatesTyped'
    BY DEF StatesTyped
<1>2. /\ RegistryKnown => RegistryKnown'
      /\ TokenTargets' = TokenTargets /\ VaultTargets' = VaultTargets
      /\ \A name : Known(name)' = Known(name)
    BY DEF RegistryKnown, Known, TokenTargets, VaultTargets, UpgradeTargets
<1>3. TargetsKnown /\ TargetsApart => TargetsKnown' /\ TargetsApart'
    BY <1>2 DEF TargetsKnown, TargetsApart
<1>4. Creations => Creations'
  <2>1. ASSUME NEW code PROVE CountOf(code)' = CountOf(code)
    <3>1. CreatedOf(code)' = CreatedOf(code) /\ SentOf(code)' = SentOf(code)
        BY DEF CreatedOf, SentOf, IsCreation
    <3> QED BY <3>1 DEF CountOf, Cardinality
  <2>2. \A code : CountOf(code)' = CountOf(code)
      BY <2>1
  <2> QED BY <2>2 DEF Creations, CreationsApart, CreationsCounted, IsCreation
<1>5. /\ ScriptOrdered => ScriptOrdered'
      /\ ScriptKnown => ScriptKnown'
    BY <1>2 DEF ScriptOrdered, ScriptKnown, Registrable, Saved
<1>6. ScriptWaits => ScriptWaits'
  <2>1. \A call : Transaction(call)' = Transaction(call)
      BY TransactionSame
  <2> QED BY <2>1 DEF ScriptWaits, LastPending
<1>7. PendingBounded => PendingBounded'
    BY DEF PendingBounded, WaitedOf
<1>8. /\ \A token : TokenFresh(token) => TokenFresh(token)'
      /\ \A token, logic : TokenUpgraded(token, logic) => TokenUpgraded(token, logic)'
      /\ \A vault : VaultInitialized(vault) => VaultInitialized(vault)'
      /\ \A token, logic : UpgradePending(token, logic) => UpgradePending(token, logic)'
      /\ \A n : PendingAre(n) => PendingAre(n)'
      /\ \A name : Entry(name)' = Entry(name)
      /\ RegisteredHaveCode => RegisteredHaveCode'
    BY DEF TokenFresh, IsEmpty, TokenUpgraded, VaultInitialized, UpgradePending, WithCode,
           PendingAre, WaitedOf, Entry, RegisteredHaveCode
<1>9. Progress => Progress'
    BY <1>8 DEF Progress, Initializing, Position, Reached
<1>10. FinishedOnes => FinishedOnes'
    BY <1>8 DEF FinishedOnes
<1>11. OasysPredicted => OasysPredicted'
    BY DEF OasysPredicted
<1>12. TestnetDeployed => TestnetDeployed'
    BY DEF TestnetDeployed, RegisteredAreDeployed
<1>13. Inv => Inv'
    BY <1>1, <1>2, <1>3, <1>4, <1>5, <1>6, <1>7, <1>9, <1>10 DEF Inv, Creations
<1> QED BY <1>11, <1>12, <1>13

\* Every step of the tasks, of the operator and of the network keeps it.
LEMMA InvStep ==
    ASSUME Inv, Next
    PROVE  Inv'
BY StatesTypedStep, RegistryKnownStep, TargetsStep, CreationsStep, ScriptOrderedStep,
   ScriptWaitsStep, ScriptKnownStep, PendingBoundedStep, ProgressStep, FinishedOnesStep
DEF Inv, Creations

\* The inductive invariant holds in every reachable state: all that is proved
\* here of the tasks follows from it.
THEOREM InvIsInvariant == Spec => []Inv
<1>1. Inv /\ [Next]_vars => Inv'
    BY InvStep, Stuttering
<1> QED BY Initially, <1>1, PTL DEF Spec

\* Whatever the operator runs and stops, and in whatever order transactions are
\* mined, the registry, the contracts and the queues stay well formed, and the
\* queues of transactions short.
THEOREM TypeCorrect == Spec => []TypeOK
<1>1. Inv => TypeOK
  <2> SUFFICES ASSUME Inv PROVE TypeOK
      OBVIOUS
  <2>1. StatesTyped /\ PendingBounded /\ ScriptWaits
      BY DEF Inv
  <2>2. \A s \in Signers : Len(pending[s]) <= runs + stops + 1
    <3>1. ASSUME NEW s \in Signers PROVE Len(pending[s]) <= runs + stops + 1
      <4>1. PICK l, u, r, t, w : /\ l = Len(pending[s]) /\ u = Unawaited(script.todo)
                                 /\ r = runs /\ t = stops /\ w = WaitedOf(s)
          OBVIOUS
      <4>2. l \in Nat /\ u \in {0, 1} /\ r \in Nat /\ t \in Nat /\ w \in {0, 1}
          BY <2>1, <4>1, WaitedFacts, BoundsAssumption DEF StatesTyped, Unawaited
      <4>3. l + u <= r + t + w
          BY <2>1, <4>1 DEF PendingBounded
      <4>4. l <= r + t + 1
          BY <4>2, <4>3
      <4> QED BY <4>1, <4>4
    <3> QED BY <3>1
  <2>3. proxies \in [Proxies ->
           [implementation : Contracts \cup {NoAddress},
            admin : People \cup Vestings \cup {NoAddress}, revision : 0 .. 2,
            token : {WOAS, NoAddress},
            incentivesController : {IncentivesController, NoAddress}]]
      BY <2>1 DEF StatesTyped, ProxyStates
  <2>4. vestings \in [Vestings -> [token : Contracts \cup {NoAddress}, owner : People]]
      BY <2>1 DEF StatesTyped, VestingStates
  <2>5. /\ script.waitsFor \in Signers \cup {NoAddress}
        /\ script.created \in Contracts \cup {NoAddress}
        /\ script.hadCode \in BOOLEAN
      BY <2>1 DEF StatesTyped, Scripts
  <2>6. script.waitsFor # NoAddress => pending[script.waitsFor] # <<>>
      BY <2>1 DEF ScriptWaits
  <2>7. /\ network \in {"testnet", "oasys"}
        /\ db \in [{"testnet", "oasys"} -> [Names -> Contracts \cup {NoAddress}]]
        /\ exported \subseteq Exports /\ deployed \subseteq Contracts
        /\ distribution \in [Proxies -> Vestings \cup People \cup {NoAddress}]
        /\ runs \in Nat /\ stops \in 0 .. MaxStops /\ switches \in 0 .. MaxSwitches
      BY <2>1 DEF StatesTyped, BothNetworks
  <2> QED BY <2>2, <2>3, <2>4, <2>5, <2>6, <2>7 DEF TypeOK
<1> QED BY <1>1, InvIsInvariant, PTL

\* An initialization that says it finished, having begun with everything that
\* is registered created, had set up the token, its distribution, the vesting
\* contract and the vault, and nothing the operator runs later undoes it.
THEOREM FinishedStaysInitialized == Spec => []FinishedMeansInitialized
<1>1. Inv => FinishedMeansInitialized
  <2>1. FinishedOnes => FinishedMeansInitialized
      BY DEF FinishedOnes, FinishedMeansInitialized, TokenUpgraded, VaultInitialized
  <2> QED BY <2>1 DEF Inv
<1> QED BY <1>1, InvIsInvariant, PTL

\* Wherever an export is stopped, what the registry has for oasys was exported
\* before, and each name has an address of its own.
THEOREM PredictionsAreExported == Spec => []RegisteredArePredicted
<1>1. Inv /\ OasysPredicted /\ [Next]_vars => OasysPredicted'
    BY OasysPredictedStep, Stuttering
<1>2. Inv /\ OasysPredicted => RegisteredArePredicted
    BY PredictedApart DEF Inv, StatesTyped
<1> QED BY <1>1, <1>2, InvIsInvariant, Initially, PTL DEF Spec

\* Wherever a deployment is stopped, the registry of testnet names contracts
\* that are deployed, unless print-address-and-salt finds addresses of oasys in
\* the registry of both networks, which it copies to testnet.
THEOREM RegistrationsAreDeployed == NetworksKeptApart => (Spec => []RegisteredAreDeployed)
<1> SUFFICES ASSUME NetworksKeptApart PROVE Spec => []RegisteredAreDeployed
    OBVIOUS
<1>1. Inv /\ TestnetDeployed /\ [Next]_vars => TestnetDeployed'
    BY TestnetDeployedStep, Stuttering
<1>2. TestnetDeployed => RegisteredAreDeployed
    BY DEF TestnetDeployed
<1> QED BY <1>1, <1>2, InvIsInvariant, Initially, PTL DEF Spec
=============================================================================

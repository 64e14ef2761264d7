---------------------------- MODULE MCDeployment ----------------------------
(***************************************************************************)
(* The tasks for TLC.  The first signer is the configured admin of the     *)
(* token and the configured owner of the vesting contract: the tasks send  *)
(* the upgrade and the hand-over from it.                                  *)
(***************************************************************************)
EXTENDS Deployment

\* On testnet the tasks of both migrations, their parts, and --onlyProxy; but the
\* deployment of the vault, which goes as that of the token.  On oasys, where the
\* deployer may not create contracts, those that deploy nothing: of the exports
\* oasys-deployment runs all and one is there alone, and of the parts of
\* token-initialization, the same on both networks, none is there alone.
AllTasks ==
    [testnet |->
         {"oasys-deployment", "deploy-PlmyToken", "deploy-PlmyTokenV2",
          "export-deploy-calldata-TokenVesting",
          "token-initialization", "initialize-PlmyToken",
          "initialize-PlmyToken --onlyProxy", "upgrade-PlmyToken",
          "initialize-PalmyRewardsVault", "initialize-TokenVesting",
          "transfer-vesting-owner"},
     oasys   |->
         {"oasys-deployment", "export-deploy-calldata-TokenVesting",
          "print-address-and-salt", "token-initialization"}]

\* Two tasks that are stopped, one that completes what they left, and one more:
\* an initialization of deployments that two stops left in pieces.
FourRuns == [on \in {"testnet", "oasys"} |-> 4]

\* The token's proxy initialized alone.
OnlyProxyTasks ==
    [testnet |-> {"oasys-deployment", "initialize-PlmyToken --onlyProxy"}, oasys |-> {}]

\* Both networks deployed to, and the salts printed.
SaltTasks ==
    [on \in {"testnet", "oasys"} |-> {"oasys-deployment", "print-address-and-salt"}]

FewRuns == [on \in {"testnet", "oasys"} |-> 3]

=============================================================================

--------------------------- MODULE MCVerification ---------------------------
(***************************************************************************)
(* Instances of the verification for TLC.                                  *)
(***************************************************************************)
EXTENDS Verification

\* What oasys-deployment leaves: two proxies and four implementations.
Deployed ==
    [entry \in Entries |->
        CASE entry = "PlmyTokenImpl" -> "PlmyToken"
          [] entry \in {"PlmyToken", "PalmyRewardsVaultProxy"} -> "Proxy"
          [] OTHER -> entry]

\* deploy-PlmyTokenV2 took the entry of the first implementation over.
Replaced == [Deployed EXCEPT !["PlmyTokenImpl"] = "PlmyTokenV2"]

\* On oasys: the vault is not created yet.
Predicted == [Deployed EXCEPT !["PalmyRewardsVault"] = NoCode]

\* The deployment was stopped before its last contract.
Stopped == [Deployed EXCEPT !["TokenVesting"] = NoEntry]

AllRegistries == {Deployed, Replaced, Predicted, Stopped}

\* The files under src/contracts whose path includes a name.
SourceFiles ==
    [name \in Names |->
        CASE name = "PlmyToken"    -> {"PlmyToken", "PlmyTokenV2"}
          [] name = "TokenVesting" -> {"TokenVesting", "MockTokenVesting"}
          [] OTHER -> {name}]

=============================================================================

------------------------------- MODULE ERC20 -------------------------------
(***************************************************************************)
(* The ledger both token implementations inherit: balances, allowances and *)
(* the calls that change them.  A call that reverts is a step that cannot  *)
(* be taken.  The hook _beforeTokenTransfer runs inside _transfer and      *)
(* belongs to the derived contract: a derived module conjoins its hook,    *)
(* which reads the balances before they move, to Transfer and TransferFrom.*)
(***************************************************************************)
EXTENDS Integers, FiniteSets

CONSTANTS
    Accounts,       \* the addresses that hold or spend tokens
    ZeroAddress,    \* address(0)
    Uint256Max      \* type(uint256).max

ASSUME AccountsAssumption == IsFiniteSet(Accounts) /\ ZeroAddress \notin Accounts
ASSUME Uint256MaxAssumption == Uint256Max \in Nat

VARIABLES
    balances,       \* _balances
    allowances,     \* _allowances
    totalSupply     \* _totalSupply

ledgerVars == <<balances, allowances, totalSupply>>

Addresses == Accounts \cup {ZeroAddress}
Uint256   == 0 .. Uint256Max

ERC20TypeOK ==
    /\ balances \in [Accounts -> Uint256]
    /\ allowances \in [Accounts -> [Accounts -> Uint256]]
    /\ totalSupply \in Uint256

-----------------------------------------------------------------------------
\* _transfer that credits the recipient from the balance it had before the
\* debit: tokens appear when an account sends to itself.
MoveTokensStale(sender, recipient, amount) ==
    /\ sender # ZeroAddress
    /\ recipient # ZeroAddress
    /\ amount <= balances[sender]
    /\ balances[recipient] + amount <= Uint256Max
    /\ balances' = [balances EXCEPT ![sender] = @ - amount,
                                    ![recipient] = balances[recipient] + amount]

\* _transfer that subtracts without looking at the balance.
MoveTokensUnchecked(sender, recipient, amount) ==
    /\ sender # ZeroAddress
    /\ recipient # ZeroAddress
    /\ LET debited == [balances EXCEPT ![sender] = @ - amount]
       IN  balances' = [debited EXCEPT ![recipient] = @ + amount]

\* _transfer, the hook aside: the debit is done before the credit is computed.
MoveTokens(sender, recipient, amount) ==
    /\ sender # ZeroAddress
    /\ recipient # ZeroAddress
    /\ amount <= balances[sender]
    /\ LET debited == [balances EXCEPT ![sender] = @ - amount]
       IN  /\ debited[recipient] + amount <= Uint256Max
           /\ balances' = [debited EXCEPT ![recipient] = @ + amount]

\* _approve
SetAllowance(owner, spender, amount) ==
    /\ owner # ZeroAddress
    /\ spender # ZeroAddress
    /\ allowances' = [allowances EXCEPT ![owner][spender] = amount]

-----------------------------------------------------------------------------
Transfer(caller, recipient, amount) ==
    /\ MoveTokens(caller, recipient, amount)
    /\ UNCHANGED <<allowances, totalSupply>>

Approve(caller, spender, amount) ==
    /\ SetAllowance(caller, spender, amount)
    /\ UNCHANGED <<balances, totalSupply>>

\* An allowance of the largest uint256 taken as unlimited, and not spent.
TransferFromUnlimited(caller, sender, recipient, amount) ==
    /\ MoveTokens(sender, recipient, amount)
    /\ amount <= allowances[sender][caller]
    /\ IF allowances[sender][caller] = Uint256Max
       THEN UNCHANGED allowances
       ELSE SetAllowance(sender, caller, allowances[sender][caller] - amount)
    /\ UNCHANGED totalSupply

\* The tokens move first; the allowance is then checked and reduced, whatever
\* its value is.
TransferFrom(caller, sender, recipient, amount) ==
    /\ MoveTokens(sender, recipient, amount)
    /\ amount <= allowances[sender][caller]
    /\ SetAllowance(sender, caller, allowances[sender][caller] - amount)
    /\ UNCHANGED totalSupply

\* An increase that adds without looking for an overflow.
IncreaseAllowanceUnchecked(caller, spender, addedValue) ==
    /\ spender # ZeroAddress
    /\ SetAllowance(caller, spender, allowances[caller][spender] + addedValue)
    /\ UNCHANGED <<balances, totalSupply>>

IncreaseAllowance(caller, spender, addedValue) ==
    /\ spender # ZeroAddress
    /\ allowances[caller][spender] + addedValue <= Uint256Max
    /\ SetAllowance(caller, spender, allowances[caller][spender] + addedValue)
    /\ UNCHANGED <<balances, totalSupply>>

DecreaseAllowance(caller, spender, subtractedValue) ==
    /\ spender # ZeroAddress
    /\ subtractedValue <= allowances[caller][spender]
    /\ SetAllowance(caller, spender, allowances[caller][spender] - subtractedValue)
    /\ UNCHANGED <<balances, totalSupply>>

=============================================================================

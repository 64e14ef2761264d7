---------------------------- MODULE Verification ----------------------------
(***************************************************************************)
(* The verification of deployed contracts at a block explorer: the tasks   *)
(* verification and verify-sc, and verifyContract with its retries.  The   *)
(* explorer learns of new contracts late, takes a limited number of        *)
(* submissions a day, and answers may be lost; the hardhat task verify     *)
(* either succeeds or throws.  A contract is named by the registry entry   *)
(* that holds its address.                                                 *)
(***************************************************************************)
EXTENDS Naturals, Sequences, FiniteSets

CONSTANTS
    Registries,     \* the code behind each entry of deployed-contracts.json
    NoEntry,        \* what an entry that is missing holds
    NoCode,         \* what an address without a contract holds
    PathsIncluding, \* for each name the contract files whose path includes it
    Times,          \* times of verifyContract, 15
    DailyLimit,     \* the submissions the explorer takes, 100
    MaxDiskFaults   \* bound on the parameter files that cannot be written

Entries == {"PlmyToken", "PlmyTokenImpl", "PlmyTokenV2", "PalmyRewardsVaultProxy",
            "PalmyRewardsVault", "TokenVesting"}
Names   == {"PlmyToken", "PlmyTokenV2", "PalmyRewardsVault", "TokenVesting"}

ASSUME BoundsAssumption == Times \in Nat /\ DailyLimit \in Nat /\ MaxDiskFaults \in Nat
ASSUME SourcesAssumption ==
    /\ \A registry \in Registries : DOMAIN registry = Entries
    /\ DOMAIN PathsIncluding = Names

\* One call of verifyContract: the name it is given, and the entry whose
\* address it is given.
Job(contractName, entry) == [name |-> contractName, entry |-> entry]

\* The calls of the task verification, in order.
VerificationJobs ==
    <<Job("PlmyToken", "PlmyToken"),         Job("PlmyToken", "PlmyTokenImpl"),
      Job("PlmyTokenV2", "PlmyToken"),       Job("PlmyTokenV2", "PlmyTokenV2"),
      Job("PalmyRewardsVault", "PalmyRewardsVaultProxy"),
      Job("PalmyRewardsVault", "PalmyRewardsVault"),
      Job("TokenVesting", "TokenVesting")>>

Jobs == {VerificationJobs[i] : i \in DOMAIN VerificationJobs}

-----------------------------------------------------------------------------
VARIABLES
    ready,          \* the key is set and the network supported
    registry,
    checked,        \* checkVerification has still to be called, or not
    todo,           \* the calls still to be made, the present one first
    phase,          \* of the present call, or how the task ended
    path,           \* etherscanPath of the present call
    counter,        \* the tries runTaskWithRetry has left
    tries,          \* history: the tries it has made, counted to Times + 1
    files,          \* the parameter files on disk, by the call they are for
    results,        \* how each call ended
    found,          \* the explorer has found the contract of the present call
    verified,       \* what the explorer shows the source of
    submissions     \* how many the explorer was sent today

task     == <<ready, registry, checked>>
explorer == <<found, verified, submissions>>
vars     == <<task, todo, phase, path, counter, tries, files, results, explorer>>

\* verification makes all calls; verify-sc checks, then makes any one of them.
Init ==
    /\ ready \in BOOLEAN
    /\ registry \in Registries
    /\ \/ checked = TRUE /\ todo = VerificationJobs
       \/ checked = FALSE /\ todo \in {<<job>> : job \in Jobs}
    /\ phase = "next"
    /\ path = "none"
    /\ counter = 0
    /\ tries = 0
    /\ files = {}
    /\ results = [job \in Jobs |-> "pending"]
    /\ found = FALSE
    /\ verified = {}
    /\ submissions = 0

-----------------------------------------------------------------------------
\* The task stops here, with an exit code or an exception.
EndTask(how) ==
    /\ phase' = how
    /\ UNCHANGED <<task, todo, path, counter, tries, files, results, explorer>>

\* checkVerification exits the process unless everything is set.
CheckVerification ==
    /\ phase = "next"
    /\ ~checked
    /\ IF ready
       THEN /\ checked' = TRUE
            /\ UNCHANGED <<ready, registry, todo, phase, path, counter, tries, files,
                           results, explorer>>
       ELSE EndTask("exited")

\* The next call of verifyContract.
AtCall == phase = "next" /\ checked /\ todo # <<>>
Present == Head(todo)

\* Reading the address, the environment and the path may throw, outside the
\* try of verifyContract.
HasEntry == registry[Present.entry] # NoEntry
CanCall ==
    /\ HasEntry
    /\ ready
    /\ PathsIncluding[Present.name] # {}

ThrowBeforeTry == AtCall /\ ~CanCall /\ EndTask("thrown")

\* getEtherscanPath takes the first path that includes the name; globby does
\* not order the paths.
BeginCall ==
    /\ AtCall
    /\ CanCall
    /\ path' \in PathsIncluding[Present.name]
    /\ files' = files \cup {Present}
    /\ counter' = Times
    /\ tries' = 0
    /\ phase' = "delay"
    /\ UNCHANGED <<task, todo, results, explorer>>

\* The present call ends; verifyContract swallows what went wrong.
Return(how) ==
    /\ results' = [results EXCEPT ![Present] = how]
    /\ todo' = Tail(todo)
    /\ phase' = "next"
    /\ path' = "none"
    /\ counter' = 0
    /\ tries' = 0
    /\ found' = FALSE

\* The file cannot be created or written.
DiskFails ==
    /\ AtCall
    /\ CanCall
    /\ Cardinality({job \in Jobs : results[job] = "noFile"}) < MaxDiskFaults
    /\ files' \in {files, files \cup {Present}}
    /\ Return("noFile")
    /\ UNCHANGED <<task, verified, submissions>>

-----------------------------------------------------------------------------
\* What the task verify finds, in this order: the path holds another contract;
\* there is no code at the address; the code is of another contract; the
\* explorer has shown the source already, has not found the contract yet, or
\* has had enough submissions.
Refused ==
    \/ path # Present.name
    \/ registry[Present.entry] = NoCode
Mismatch == ~Refused /\ registry[Present.entry] # Present.name
Submits  == ~Refused /\ ~Mismatch /\ Present \notin verified
Limited  == Submits /\ submissions = DailyLimit

Submission ==
    /\ submissions' = IF Submits /\ ~Limited THEN submissions + 1 ELSE submissions
    /\ UNCHANGED task

\* After the delay, and with tries left.
Trying == phase = "delay" /\ counter > 0

Succeed ==
    /\ Trying
    /\ ~Refused /\ ~Mismatch /\ ~Limited
    /\ Submits => found
    /\ Submission
    /\ verified' = verified \cup {Present}
    /\ files' = files \ {Present}
    /\ Return("verified")

\* One of fatalErrors: no retry, and no cleanup.
FatalError ==
    /\ Trying
    /\ Mismatch \/ Limited
    /\ Submission
    /\ Return("fatal")
    /\ UNCHANGED <<files, verified>>

\* The tries that are left after one that failed, kept.
SameTries == counter

\* The tries that are left after one that failed.
FewerTries == counter - 1

\* A retry without the file: it is cleaned up after every try.
ErrorThenCleanup(known) ==
    /\ Trying
    /\ ~Mismatch /\ ~Limited
    /\ Submission
    /\ verified' \in known
    /\ counter' = FewerTries
    /\ tries' = IF tries > Times THEN tries ELSE tries + 1
    /\ files' = files \ {Present}
    /\ UNCHANGED <<todo, phase, path, results, found>>

\* Any other error, also when the submission was taken and its answer lost.
RetriableError(known) ==
    /\ Trying
    /\ ~Mismatch /\ ~Limited
    /\ Submission
    /\ verified' \in known
    /\ counter' = FewerTries
    /\ tries' = IF tries > Times THEN tries ELSE tries + 1
    /\ UNCHANGED <<todo, phase, path, files, results, found>>

TryFails ==
    RetriableError({verified} \cup
        IF Submits /\ found THEN {verified \cup {Present}} ELSE {})

\* Giving up with a try left.
NoTriesButOne == counter <= 1

\* The condition under which no try is made.
NoTries == counter = 0

GiveUp ==
    /\ phase = "delay"
    /\ NoTries
    /\ files' = files \ {Present}
    /\ Return("exhausted")
    /\ UNCHANGED <<task, verified, submissions>>

FinishTask == phase = "next" /\ checked /\ todo = <<>> /\ EndTask("finished")

\* The explorer finds the contract: only the present call asks for it, and one
\* found earlier is found here before the first try.
Index ==
    /\ phase = "delay"
    /\ registry[Present.entry] # NoCode
    /\ ~found
    /\ found' = TRUE
    /\ UNCHANGED <<task, todo, phase, path, counter, tries, files, results, verified, submissions>>

Try == Succeed \/ FatalError \/ TryFails \/ GiveUp

Proceed == CheckVerification \/ ThrowBeforeTry \/ BeginCall \/ DiskFails \/ Try \/ FinishTask

Next == Proceed \/ Index

Spec == Init /\ [][Next]_vars

\* The process goes on; the explorer need not find anything.
FairSpec == Spec /\ WF_vars(Proceed)

-----------------------------------------------------------------------------
Ends == {"pending", "verified", "fatal", "exhausted", "noFile"}

TypeOK ==
    /\ ready \in BOOLEAN
    /\ registry \in Registries
    /\ checked \in BOOLEAN
    /\ todo \in Seq(Jobs)
    /\ phase \in {"next", "delay", "exited", "thrown", "finished"}
    /\ counter \in 0 .. Times
    /\ tries \in 0 .. Times
    /\ files \subseteq Jobs
    /\ results \in [Jobs -> Ends]
    /\ found \in BOOLEAN
    /\ verified \subseteq Jobs
    /\ submissions \in 0 .. DailyLimit

\* Every try finds its parameter file; the file is gone once the call was
\* verified or gave up, and stays on disk after a fatal error, which returns
\* without cleanup (etherscan-verification.ts:99), and only then or when it
\* could not be written.
FilesAccounted ==
    /\ phase = "delay" => Present \in files
    /\ \A job \in Jobs :
          /\ results[job] \in {"verified", "exhausted"} => job \notin files
          /\ results[job] = "fatal" => job \in files
          /\ job \in files => \/ phase = "delay" /\ job = Present
                              \/ results[job] \in {"fatal", "noFile"}

\* A call ends without success only after every try it is given, or for a
\* reason no retry helps: other code at the address, or the day's limit.
NoCallGivenUpEarly ==
    [][\A job \in Jobs : results[job] # results'[job] =>
          /\ results'[job] = "exhausted" => tries = Times
          /\ results'[job] = "fatal" =>
                \/ registry[job.entry] \notin {job.name, NoCode}
                \/ submissions = DailyLimit]_vars

\* The task comes to its end, whatever the explorer answers, and every call
\* was made: no call that fails keeps a later one from being made, unless the
\* environment is not set or the entry of a call is missing, when the task
\* ends there.
VerificationEnds ==
    <>(\/ phase = "finished"
       \/ phase = "exited" /\ ~ready
       \/ phase = "thrown" /\ (~ready \/ registry[Present.entry] = NoEntry))

=============================================================================

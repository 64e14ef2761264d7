------------------------- MODULE VerificationProofs -------------------------
(***************************************************************************)
(* Proofs about the verification of contracts, for every number of tries,  *)
(* limit and registry.                                                     *)
(***************************************************************************)
EXTENDS Verification, TLAPS

\* What is left to do has not been done, and no call is left twice.
TodoPending ==
    /\ \A i \in DOMAIN todo : results[todo[i]] = "pending"
    /\ \A i, j \in DOMAIN todo : todo[i] = todo[j] => i = j

\* In a call, the tries that were made and those that are left add up.
TriesAddUp ==
    phase = "delay" => /\ todo # <<>>
                       /\ tries + counter = Times

IInv == TypeOK /\ TodoPending /\ TriesAddUp /\ FilesAccounted

-----------------------------------------------------------------------------
\* The task verifies each contract once.
LEMMA JobsAreDistinct ==
    \A i, j \in DOMAIN VerificationJobs :
        VerificationJobs[i] = VerificationJobs[j] => i = j
BY DEF VerificationJobs, Job

\* The present call is the first of what is left, and the rest is still pending
\* and other than it.
LEMMA PresentAndRest ==
    ASSUME TypeOK, TodoPending, todo # <<>>
    PROVE  /\ Present \in Jobs
           /\ results[Present] = "pending"
           /\ Tail(todo) \in Seq(Jobs)
           /\ \A i \in DOMAIN Tail(todo) :
                 /\ i + 1 \in DOMAIN todo
                 /\ Tail(todo)[i] = todo[i + 1]
                 /\ Tail(todo)[i] # Present
<1>1. todo \in Seq(Jobs) /\ Len(todo) \in Nat /\ Len(todo) > 0
  BY DEF TypeOK
<1>2. Present = todo[1] /\ 1 \in DOMAIN todo
  BY <1>1 DEF Present
<1>3. Tail(todo) \in Seq(Jobs)
  BY <1>1
<1>4. \A i \in DOMAIN Tail(todo) : i + 1 \in DOMAIN todo /\ Tail(todo)[i] = todo[i + 1]
  BY <1>1
<1>5. \A i \in DOMAIN Tail(todo) : i \in Nat /\ i > 0
  BY <1>1, <1>3
<1>6. \A i \in DOMAIN Tail(todo) : Tail(todo)[i] # Present
  BY <1>1, <1>2, <1>4, <1>5 DEF TodoPending
<1>. QED
  BY <1>1, <1>2, <1>3, <1>4, <1>6 DEF TodoPending

\* The two lists of calls that a task starts with.
LEMMA FirstCalls ==
    ASSUME Init
    PROVE  /\ todo \in Seq(Jobs)
           /\ \A i, j \in DOMAIN todo : todo[i] = todo[j] => i = j
<1>1. CASE todo = VerificationJobs
  <2>1. VerificationJobs \in Seq(Jobs)
    BY DEF Jobs, VerificationJobs
  <2>. QED
    BY <1>1, <2>1, JobsAreDistinct
<1>2. ASSUME NEW job \in Jobs, todo = <<job>> PROVE
        /\ todo \in Seq(Jobs)
        /\ \A i, j \in DOMAIN todo : todo[i] = todo[j] => i = j
  <2>1. DOMAIN <<job>> = {1}
    OBVIOUS
  <2>. QED
    BY <1>2, <2>1
<1>. QED
  BY <1>1, <1>2 DEF Init

\* The registries and lists a task starts with satisfy the invariant.
LEMMA InitHolds == Init => IInv
<1>. SUFFICES ASSUME Init PROVE IInv
  OBVIOUS
<1>1. todo \in Seq(Jobs) /\ checked \in BOOLEAN
  BY FirstCalls DEF Init
<1>2. TypeOK
  <2>1. results \in [Jobs -> Ends]
    BY DEF Init, Ends
  <2>2. counter \in 0 .. Times /\ tries \in 0 .. Times /\ submissions \in 0 .. DailyLimit
    BY BoundsAssumption DEF Init
  <2>. QED
    BY <1>1, <2>1, <2>2, Zenon DEF Init, TypeOK
<1>3. \A i \in DOMAIN todo : todo[i] \in Jobs
  BY <1>1
<1>4. \A i \in DOMAIN todo : results[todo[i]] = "pending"
  BY <1>3 DEF Init
<1>5. TodoPending
  BY <1>4, FirstCalls DEF TodoPending
<1>6. TriesAddUp /\ FilesAccounted
  BY DEF Init, TriesAddUp, FilesAccounted
<1>. QED
  BY <1>2, <1>5, <1>6 DEF IInv
-----------------------------------------------------------------------------
\* A call that ends: its result is written, and the rest stays as it was.
LEMMA ReturnKeepsRest ==
    ASSUME TypeOK, TodoPending, todo # <<>>,
           NEW how \in Ends, how # "pending", Return(how)
    PROVE  /\ results' \in [Jobs -> Ends]
           /\ results'[Present] = how
           /\ \A job \in Jobs \ {Present} : results'[job] = results[job]
           /\ todo' \in Seq(Jobs)
           /\ TodoPending'
<1>1. todo' = Tail(todo) /\ results' = [results EXCEPT ![Present] = how]
  BY DEF Return
<1>2. /\ results' \in [Jobs -> Ends]
      /\ results'[Present] = how
      /\ \A job \in Jobs \ {Present} : results'[job] = results[job]
  BY <1>1, PresentAndRest DEF TypeOK
<1>3. todo' \in Seq(Jobs)
  BY <1>1, PresentAndRest
<1>4. \A i \in DOMAIN todo' : results'[todo'[i]] = "pending"
  <2>. TAKE i \in DOMAIN todo'
  <2>1. i + 1 \in DOMAIN todo /\ todo'[i] = todo[i + 1] /\ todo'[i] # Present
    BY <1>1, PresentAndRest
  <2>2. todo'[i] \in Jobs
    BY <2>1 DEF TypeOK
  <2>. QED
    BY <1>2, <2>1, <2>2 DEF TodoPending
<1>5. \A i, j \in DOMAIN todo' : todo'[i] = todo'[j] => i = j
  <2>. SUFFICES ASSUME NEW i \in DOMAIN todo', NEW j \in DOMAIN todo', todo'[i] = todo'[j]
                PROVE  i = j
    OBVIOUS
  <2>1. /\ i + 1 \in DOMAIN todo /\ todo'[i] = todo[i + 1]
        /\ j + 1 \in DOMAIN todo /\ todo'[j] = todo[j + 1]
    BY <1>1, PresentAndRest
  <2>2. i \in Nat /\ j \in Nat
    BY <1>3
  <2>3. i + 1 = j + 1
    BY <2>1 DEF TodoPending
  <2>. QED
    BY <2>2, <2>3
<1>. QED
  BY <1>2, <1>3, <1>4, <1>5 DEF TodoPending

\* The parameter file of a call that ends, whatever is left of it.
LEMMA ReturnAccountsFiles ==
    ASSUME IInv, todo # <<>>,
           NEW how \in Ends, how # "pending", Return(how),
           \A job \in Jobs \ {Present} : job \in files' <=> job \in files,
           how \in {"verified", "exhausted"} => Present \notin files',
           how = "fatal" => Present \in files'
    PROVE  FilesAccounted' /\ TriesAddUp'
<1>1. /\ results'[Present] = how
      /\ \A job \in Jobs \ {Present} : results'[job] = results[job]
  BY ReturnKeepsRest DEF IInv
<1>2. phase' = "next"
  BY DEF Return
<1>3. ASSUME NEW job \in Jobs
      PROVE  /\ results'[job] \in {"verified", "exhausted"} => job \notin files'
             /\ results'[job] = "fatal" => job \in files'
             /\ job \in files' => results'[job] \in {"fatal", "noFile"}
  <2>1. CASE job = Present
    BY <1>1, <2>1 DEF Ends
  <2>2. CASE job # Present
    BY <1>1, <2>2 DEF IInv, FilesAccounted
  <2>. QED
    BY <2>1, <2>2
<1>. QED
  BY <1>2, <1>3 DEF FilesAccounted, TriesAddUp

-----------------------------------------------------------------------------
(* Every step keeps the invariant, one lemma for each kind of step. *)

\* A step that ends a call, with the file and the explorer as they are then.
LEMMA ReturnKeepsInvariant ==
    ASSUME IInv, todo # <<>>,
           NEW how \in Ends, how # "pending", Return(how),
           UNCHANGED task,
           \A job \in Jobs \ {Present} : job \in files' <=> job \in files,
           how \in {"verified", "exhausted"} => Present \notin files',
           how = "fatal" => Present \in files',
           files' \subseteq Jobs, verified' \subseteq Jobs,
           submissions' \in 0 .. DailyLimit
    PROVE  IInv'
<1>1. /\ results' \in [Jobs -> Ends]
      /\ todo' \in Seq(Jobs)
      /\ TodoPending'
  BY ReturnKeepsRest DEF IInv
<1>2. counter' \in 0 .. Times /\ tries' \in 0 .. Times
  BY BoundsAssumption DEF Return
<1>3. TypeOK'
  BY <1>1, <1>2, Zenon DEF IInv, TypeOK, Return, task
<1>. QED
  BY <1>1, <1>3, ReturnAccountsFiles DEF IInv

\* Checks before a call, and the ends of the task, change no call and no file.
LEMMA BetweenCalls ==
    ASSUME IInv, CheckVerification \/ ThrowBeforeTry \/ FinishTask
    PROVE  IInv'
<1>1. /\ phase = "next" /\ phase' \in {"next", "exited", "thrown", "finished"}
      /\ UNCHANGED <<ready, registry, todo, path, counter, tries, files, results, explorer>>
      /\ checked' \in BOOLEAN
  BY Zenon DEF IInv, TypeOK, CheckVerification, ThrowBeforeTry, FinishTask, EndTask, AtCall, task
<1>2. TypeOK'
  BY <1>1, Zenon DEF IInv, TypeOK, explorer
<1>3. TodoPending' /\ TriesAddUp'
  BY <1>1 DEF IInv, TodoPending, TriesAddUp
<1>4. FilesAccounted'
  BY <1>1 DEF IInv, FilesAccounted
<1>. QED
  BY <1>2, <1>3, <1>4 DEF IInv

\* Beginning a call writes its file and sets its tries.
LEMMA Beginning == ASSUME IInv, BeginCall PROVE IInv'
<1>1. /\ todo # <<>> /\ phase = "next" /\ phase' = "delay" /\ counter' = Times /\ tries' = 0
      /\ files' = files \cup {Present}
      /\ UNCHANGED <<ready, registry, checked, todo, results, found, verified, submissions>>
  BY DEF BeginCall, AtCall, task, explorer
<1>2. Present \in Jobs /\ results[Present] = "pending" /\ Present' = Present
  BY <1>1, PresentAndRest DEF IInv, Present
<1>3. files' \subseteq Jobs /\ counter' \in 0 .. Times /\ tries' \in 0 .. Times
  BY <1>1, <1>2, BoundsAssumption DEF IInv, TypeOK
<1>4. TypeOK'
  BY <1>1, <1>3, Zenon DEF IInv, TypeOK
<1>5. TodoPending' /\ TriesAddUp'
  BY <1>1, BoundsAssumption DEF IInv, TodoPending, TriesAddUp
<1>6. FilesAccounted'
  BY <1>1, <1>2 DEF IInv, FilesAccounted
<1>. QED
  BY <1>4, <1>5, <1>6 DEF IInv

\* A try that may be repeated uses one up.
LEMMA Trial == ASSUME IInv, TryFails PROVE IInv'
<1>1. /\ phase = "delay" /\ counter > 0 /\ counter' = counter - 1
      /\ tries' = IF tries > Times THEN tries ELSE tries + 1
      /\ UNCHANGED <<ready, registry, checked, todo, phase, files, results, found>>
  BY DEF TryFails, RetriableError, Trying, Submission, FewerTries, task
<1>2. todo # <<>> /\ tries + counter = Times
  BY <1>1 DEF IInv, TriesAddUp
<1>3. counter' \in 0 .. Times /\ tries' \in 0 .. Times /\ tries' + counter' = Times
  BY <1>1, <1>2, BoundsAssumption DEF IInv, TypeOK
<1>4. verified' \subseteq Jobs
  <2>1. verified' = verified \/ verified' = verified \cup {Present}
    BY DEF TryFails, RetriableError
  <2>. QED
    BY <1>2, <2>1, PresentAndRest DEF IInv, TypeOK
<1>5. submissions' \in 0 .. DailyLimit
  BY BoundsAssumption DEF TryFails, RetriableError, Submission, Limited, IInv, TypeOK
<1>6. TypeOK'
  BY <1>1, <1>3, <1>4, <1>5, Zenon DEF IInv, TypeOK
<1>7. TodoPending' /\ TriesAddUp'
  BY <1>1, <1>2, <1>3 DEF IInv, TodoPending, TriesAddUp
<1>8. FilesAccounted'
  BY <1>1 DEF IInv, FilesAccounted, Present
<1>. QED
  BY <1>6, <1>7, <1>8 DEF IInv

\* A call ends with its result, and with the file that result leaves.
LEMMA Ending == ASSUME IInv, DiskFails \/ Succeed \/ FatalError \/ GiveUp PROVE IInv'
<1>1. CASE DiskFails
  <2>1. todo # <<>> /\ UNCHANGED <<task, verified, submissions>> /\ Return("noFile")
        /\ (files' = files \/ files' = files \cup {Present})
    BY <1>1 DEF DiskFails, AtCall
  <2>2. files' \subseteq Jobs
    BY <2>1, PresentAndRest DEF IInv, TypeOK
  <2>. QED
    BY <2>1, <2>2, ReturnKeepsInvariant DEF IInv, TypeOK, Ends
<1>2. CASE Succeed
  <2>1. /\ todo # <<>> /\ UNCHANGED task /\ Return("verified")
        /\ files' = files \ {Present} /\ verified' = verified \cup {Present}
    BY <1>2 DEF Succeed, Trying, Submission, IInv, TriesAddUp
  <2>2. submissions' \in 0 .. DailyLimit
    BY <1>2, BoundsAssumption DEF Succeed, Submission, Limited, IInv, TypeOK
  <2>3. files' \subseteq Jobs /\ verified' \subseteq Jobs
    BY <2>1, PresentAndRest DEF IInv, TypeOK
  <2>. QED
    BY <2>1, <2>2, <2>3, ReturnKeepsInvariant DEF Ends
<1>3. CASE FatalError
  <2>1. /\ todo # <<>> /\ UNCHANGED <<task, files, verified>> /\ Return("fatal")
        /\ Present \in files
    BY <1>3 DEF FatalError, Trying, Submission, IInv, TriesAddUp, FilesAccounted
  <2>2. submissions' \in 0 .. DailyLimit
    BY <1>3, BoundsAssumption DEF FatalError, Submission, Limited, IInv, TypeOK
  <2>. QED
    BY <2>1, <2>2, ReturnKeepsInvariant DEF IInv, TypeOK, Ends
<1>4. CASE GiveUp
  <2>1. /\ todo # <<>> /\ UNCHANGED <<task, verified, submissions>> /\ Return("exhausted")
        /\ files' = files \ {Present}
    BY <1>4 DEF GiveUp, IInv, TriesAddUp
  <2>. QED
    BY <2>1, ReturnKeepsInvariant DEF IInv, TypeOK, Ends
<1>. QED
  BY <1>1, <1>2, <1>3, <1>4

\* The explorer's own step changes nothing the invariant speaks of.
LEMMA Indexing == ASSUME IInv, Index \/ UNCHANGED vars PROVE IInv'
<1>1. /\ UNCHANGED <<ready, registry, checked, todo, phase, counter, tries, files, results,
                     verified, submissions>>
      /\ found' \in BOOLEAN
  BY Zenon DEF Index, vars, task, explorer, IInv, TypeOK
<1>2. TypeOK'
  BY <1>1, Zenon DEF IInv, TypeOK
<1>. QED
  BY <1>1, <1>2 DEF IInv, TodoPending, TriesAddUp, FilesAccounted, Present

\* Every step keeps the invariant.
LEMMA StepHolds == IInv /\ [Next]_vars => IInv'
BY BetweenCalls, Beginning, Trial, Ending, Indexing DEF Next, Proceed, Try

\* The invariant of a verification holds in every state.
THEOREM VerificationInvariance == Spec => []IInv
BY InitHolds, StepHolds, PTL DEF Spec

-----------------------------------------------------------------------------
\* The tries stay within the times that verifyContract gives, the submissions
\* within the limit of the explorer, and results, calls and files in their
\* types.
THEOREM VerificationTypeCorrect == Spec => []TypeOK
BY VerificationInvariance, PTL DEF IInv

\* Each try of verifyContract finds its parameter file, and exactly the files
\* of fatal errors, or of failures to write them, are left behind.
THEOREM FilesAlwaysAccounted == Spec => []FilesAccounted
BY VerificationInvariance, PTL DEF IInv

\* No call is given up before its last try, but after a fatal error, for code
\* of another contract or the day's limit.
THEOREM NoCallIsGivenUpEarly == Spec => NoCallGivenUpEarly
<1> DEFINE Step(job) ==
        results[job] # results'[job] =>
          /\ results'[job] = "exhausted" => tries = Times
          /\ results'[job] = "fatal" =>
                \/ registry[job.entry] \notin {job.name, NoCode}
                \/ submissions = DailyLimit
<1>1. ASSUME IInv, [Next]_vars, NEW job \in Jobs PROVE Step(job)
  <2>1. ASSUME todo # <<>>, NEW how \in Ends, how # "pending", Return(how),
               how = "exhausted" => tries = Times,
               how = "fatal" => Mismatch \/ Limited
        PROVE  Step(job)
    <3>1. CASE job = Present
      <4>1. results'[job] = how
        BY <1>1, <2>1, <3>1, ReturnKeepsRest DEF IInv
      <4>. QED
        BY <2>1, <3>1, <4>1 DEF Mismatch, Limited, Refused
    <3>2. CASE job # Present
      BY <1>1, <2>1, <3>2, ReturnKeepsRest DEF IInv
    <3>. QED
      BY <3>1, <3>2
  <2>2. CASE DiskFails
    BY <2>1, <2>2 DEF DiskFails, AtCall, Ends
  <2>3. CASE Succeed
    BY <1>1, <2>1, <2>3 DEF Succeed, Trying, Ends, IInv, TriesAddUp
  <2>4. CASE FatalError
    BY <1>1, <2>1, <2>4 DEF FatalError, Trying, Ends, IInv, TriesAddUp
  <2>5. CASE GiveUp
    <3>1. todo # <<>> /\ tries = Times /\ Return("exhausted")
      BY <1>1, <2>5, BoundsAssumption DEF GiveUp, NoTries, IInv, TriesAddUp, TypeOK
    <3>. QED
      BY <2>1, <3>1 DEF Ends
  <2>6. CASE \/ CheckVerification \/ ThrowBeforeTry \/ FinishTask \/ BeginCall
             \/ TryFails \/ Index \/ UNCHANGED vars
    <3>1. results' = results
      BY <2>6, Zenon DEF CheckVerification, ThrowBeforeTry, FinishTask, EndTask, BeginCall,
         TryFails, RetriableError, Index, vars
    <3>. QED
      BY <3>1
  <2>. QED
    BY <1>1, <2>2, <2>3, <2>4, <2>5, <2>6 DEF Next, Proceed, Try
<1>2. IInv /\ [Next]_vars => [\A job \in Jobs : Step(job)]_vars
  BY <1>1
<1>. QED
  BY <1>2, VerificationInvariance, PTL DEF Spec, NoCallGivenUpEarly

=============================================================================

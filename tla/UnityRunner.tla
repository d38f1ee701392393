---------------------------- MODULE UnityRunner -----------------------------
(***************************************************************************)
(* How the C client's unit tests are run (test-framework/unity.c):         *)
(* UnityBegin, RUN_TEST for each test, UnityEnd.  setUp, the test and      *)
(* tearDown are any sequence of up to MaxCalls calls of the framework; an  *)
(* assertion that fails leaves them by longjmp.  An assertion of the test  *)
(* itself is called with arguments and decides by UnityAssert; in setUp    *)
(* and tearDown assertions hold or fail.                                   *)
(***************************************************************************)
EXTENDS UnityVerdicts

CONSTANTS
    MaxTests,       \* bound: tests of the suite
    MaxCalls,       \* bound: framework calls in setUp, in a test, in tearDown
    CounterSize     \* 2 to the width of UNITY_COUNTER_TYPE

ASSUME CounterAssumption == CounterSize \in Nat \ {0} /\ MaxTests \in Nat

VARIABLES
    pc,         \* "main", "setUp", "Func", "protect", "tearDown", "conclude", "ended", "exited"
    Unity,      \* struct UNITY_STORAGE_T
    calls,      \* calls made by the running function
    verdicts,   \* the verdicts printed so far: PASS, FAIL or IGNORE, with their test
    teardowns,  \* how often the current test has entered tearDown, 2 for more
    status      \* what UnityEnd returned

vars == <<pc, Unity, calls, verdicts, teardowns, status, call, result>>

NoStatus == -1
Stale == "stale"

(* UnityBegin *)
Init ==
    /\ pc = "main"
    /\ Unity = [NumberOfTests |-> 0, TestFailures |-> 0, TestIgnores |-> 0,
                CurrentTestFailed |-> FALSE, CurrentTestIgnored |-> FALSE, AbortFrame |-> Stale]
    /\ calls = 0
    /\ verdicts = <<>>
    /\ teardowns = 0
    /\ status = NoStatus
    /\ NoCall

Report(word) == verdicts' = Append(verdicts, <<Unity.NumberOfTests, word>>)

(* TEST_ABORT: longjmp to the last TEST_PROTECT, which then is false. *)
TEST_ABORT ==
    /\ pc' = CASE Unity.AbortFrame = "first" -> "protect"
               [] Unity.AbortFrame = "second" -> "conclude"
               [] OTHER -> "undefined"
    /\ calls' = 0

FailedOrIgnored == Unity.CurrentTestFailed \/ Unity.CurrentTestIgnored

(* UnityDefaultTestRun, up to the call of setUp *)
RUN_TEST ==
    /\ pc = "main"
    /\ Len(verdicts) < MaxTests
    /\ Unity' = [Unity EXCEPT !.NumberOfTests = (@ + 1) % CounterSize, !.AbortFrame = "first"]
    /\ pc' = "setUp"
    /\ teardowns' = 0
    /\ UNCHANGED <<calls, verdicts, status>>

(* setUp, Func or tearDown returns. *)
FunctionReturns ==
    /\ \/ pc = "setUp" /\ pc' = "Func"
       \/ pc = "Func" /\ pc' = "protect"
       \/ pc = "tearDown" /\ pc' = "conclude"
    /\ calls' = 0
    /\ UNCHANGED <<Unity, verdicts, teardowns, status>>

\* Mutant of ProtectTearDown: tearDown runs under the first TEST_PROTECT.
ProtectTearDownOnce ==
    /\ pc = "protect"
    /\ pc' = "tearDown"
    /\ teardowns' = IF teardowns = 0 THEN 1 ELSE 2
    /\ UNCHANGED <<Unity, calls, verdicts, status>>

(* The second TEST_PROTECT, and the call of tearDown. *)
ProtectTearDown ==
    /\ pc = "protect"
    /\ Unity' = [Unity EXCEPT !.AbortFrame = "second"]
    /\ pc' = "tearDown"
    /\ teardowns' = IF teardowns = 0 THEN 1 ELSE 2
    /\ UNCHANGED <<calls, verdicts, status>>

\* Mutant of UnityConcludeTest: the flags of the test are kept for the next.
UnityConcludeTestKeepsFlags ==
    /\ pc = "conclude"
    /\ Unity' = [Unity EXCEPT
          !.TestIgnores = IF Unity.CurrentTestIgnored THEN (@ + 1) % CounterSize ELSE @,
          !.TestFailures = IF ~Unity.CurrentTestIgnored /\ Unity.CurrentTestFailed
                           THEN (@ + 1) % CounterSize ELSE @]
    /\ IF FailedOrIgnored THEN UNCHANGED verdicts ELSE Report("PASS")
    /\ pc' = "main"
    /\ UNCHANGED <<calls, teardowns, status>>

UnityConcludeTest ==
    /\ pc = "conclude"
    /\ Unity' = [Unity EXCEPT
          !.TestIgnores = IF Unity.CurrentTestIgnored THEN (@ + 1) % CounterSize ELSE @,
          !.TestFailures = IF ~Unity.CurrentTestIgnored /\ Unity.CurrentTestFailed
                           THEN (@ + 1) % CounterSize ELSE @,
          !.CurrentTestFailed = FALSE,
          !.CurrentTestIgnored = FALSE]
    /\ IF FailedOrIgnored THEN UNCHANGED verdicts ELSE Report("PASS")
    /\ pc' = "main"
    /\ UNCHANGED <<calls, teardowns, status>>

(* The cast to int leaves a number of tests that an int holds as it is.    *)
UnityEnd ==
    /\ pc = "main"
    /\ status' = Unity.TestFailures
    /\ pc' = "ended"
    /\ UNCHANGED <<Unity, calls, verdicts, teardowns>>
-----------------------------------------------------------------------------
(* The calls that setUp, a test and tearDown may make.                     *)

MayCall == pc \in {"setUp", "Func", "tearDown"} /\ calls < MaxCalls

(* TEST_ASSERT of a condition that holds does not look at the flags, and   *)
(* UnityMessage prints INFO whatever they are.                             *)
ConditionHolds ==
    /\ MayCall
    /\ calls' = calls + 1
    /\ UNCHANGED <<pc, Unity, verdicts, teardowns, status>>

(* Any other assertion of setUp or tearDown that holds. *)
AssertionHolds ==
    /\ MayCall /\ pc # "Func"
    /\ IF FailedOrIgnored THEN TEST_ABORT ELSE calls' = calls + 1 /\ UNCHANGED pc
    /\ UNCHANGED <<Unity, verdicts, teardowns, status>>

\* Mutant of UnityFail: it reports although the test has a verdict.
UnityFailAgain ==
    /\ MayCall
    /\ Unity' = [Unity EXCEPT !.CurrentTestFailed = TRUE]
    /\ Report("FAIL")
    /\ TEST_ABORT
    /\ UNCHANGED <<teardowns, status>>

(* An assertion of setUp or tearDown that does not hold, and UnityFail. *)
UnityFail ==
    /\ MayCall
    /\ IF FailedOrIgnored
       THEN UNCHANGED <<Unity, verdicts>>
       ELSE Unity' = [Unity EXCEPT !.CurrentTestFailed = TRUE] /\ Report("FAIL")
    /\ TEST_ABORT
    /\ UNCHANGED <<teardowns, status>>

UnityIgnore ==
    /\ MayCall
    /\ IF FailedOrIgnored
       THEN UNCHANGED <<Unity, verdicts>>
       ELSE Unity' = [Unity EXCEPT !.CurrentTestIgnored = TRUE] /\ Report("IGNORE")
    /\ TEST_ABORT
    /\ UNCHANGED <<teardowns, status>>

TEST_PASS ==
    /\ MayCall
    /\ TEST_ABORT
    /\ UNCHANGED <<Unity, verdicts, teardowns, status>>

(* An assertion of the test. *)
Assertion ==
    /\ MayCall /\ pc = "Func"
    /\ ~FailedOrIgnored
    /\ Asserts
    /\ IF result'.verdict = "pass"
       THEN /\ calls' = calls + 1
            /\ UNCHANGED <<pc, Unity, verdicts>>
       ELSE /\ Unity' = [Unity EXCEPT !.CurrentTestFailed = TRUE]
            /\ Report("FAIL")
            /\ TEST_ABORT
    /\ UNCHANGED <<teardowns, status>>

(* The code under test calls exit(1). *)
CodeExits ==
    /\ MayCall
    /\ pc' = "exited"
    /\ UNCHANGED <<Unity, calls, verdicts, teardowns, status>>

Step ==
    \/ RUN_TEST
    \/ FunctionReturns
    \/ ProtectTearDown
    \/ UnityConcludeTest
    \/ UnityEnd
    \/ ConditionHolds
    \/ AssertionHolds
    \/ UnityFail
    \/ UnityIgnore
    \/ TEST_PASS
    \/ CodeExits

(* The suite is over; nothing else may leave it without a next step. *)
Over == pc \in {"ended", "exited"} /\ UNCHANGED vars

Next ==
    \/ Step /\ call' = None /\ result' = None
    \/ Assertion
    \/ Over

Spec == Init /\ [][Next]_vars
-----------------------------------------------------------------------------
Verdicts(words) == {k \in 1 .. Len(verdicts) : verdicts[k][2] \in words}

(***************************************************************************)
(* The summary agrees with the lines printed: between tests exactly one of *)
(* PASS, FAIL and IGNORE has been printed for each test, the failures and  *)
(* the ignored tests are counted as printed, and the exit status is the    *)
(* number of FAIL lines.  A failure, an ignore or a TEST_PASS in setUp, in *)
(* the test and again in tearDown changes none of it.                      *)
(***************************************************************************)
SummaryIsTheOutput ==
    (pc \in {"main", "ended"} /\ MaxTests < CounterSize) =>
        /\ Unity.NumberOfTests = Len(verdicts)
        /\ \A k \in 1 .. Len(verdicts) : verdicts[k][1] = k
        /\ Unity.TestFailures = Cardinality(Verdicts({"FAIL"}))
        /\ Unity.TestIgnores = Cardinality(Verdicts({"IGNORE"}))
        /\ pc = "ended" => status = Cardinality(Verdicts({"FAIL"}))

(***************************************************************************)
(* Nothing of a test runs after its verdict: while setUp or the test       *)
(* itself is running neither flag is set, not even one left over from the  *)
(* test before, and no line was printed for the test (a counter that wraps *)
(* gives two tests the same number).                                       *)
(***************************************************************************)
VerdictStopsTheTest ==
    pc \in {"setUp", "Func"} =>
        /\ ~FailedOrIgnored
        /\ MaxTests < CounterSize =>
              \A k \in 1 .. Len(verdicts) : verdicts[k][1] # Unity.NumberOfTests

(***************************************************************************)
(* tearDown is entered once per test, however setUp, the test and tearDown *)
(* itself end, and no longjmp goes to a frame that is gone.                *)
(***************************************************************************)
TearDownOnce ==
    /\ teardowns \in {0, 1}
    /\ pc \in {"tearDown", "conclude"} => teardowns = 1
    /\ pc # "undefined"

=============================================================================

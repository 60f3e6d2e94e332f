------------------------------- MODULE MCForward -------------------------------
(***************************************************************************)
(* The value-tilt forward test: the record of the tracker, the routine     *)
(* that schedules it and the demo executor that follows its book.  Each    *)
(* is explored with the other two at rest; "service" names the one that    *)
(* runs.                                                                   *)
(***************************************************************************)
EXTENDS DemoExecution, ForwardRecord, ForwardRoutine

VARIABLE service

Needs == <<0, 1, 1, 2>>
When  == <<3, 4>>
Files == {<<1, Partial>>, <<1, 1>>, <<2, 1>>, <<Absent, 1>>}
Finds == [breach : {2, 3, 4}, t : {<<"above", "between">>}, swap : {<<1, 1, 1, 1>>}]
         \cup [breach : {9}, t : {<<"below", "above">>, <<"above", "below">>},
               swap : {<<-2, 1, 2, 1>>}]

forwardVars == <<service, demoVars, recordVars, routineVars>>

\* A service at rest stays in one of its initial states.
ForwardInit ==
  /\ service \in {"demo", "record", "routine"}
  /\ DemoInit /\ RecordInit /\ RoutineInit
  /\ service # "demo" => equity = Balance
  /\ service # "record" => /\ market = CHOOSE m \in Markets : TRUE
                           /\ supplement = CHOOSE s \in Downloads : TRUE

ForwardNext ==
  \/ service = "demo" /\ DemoNext /\ UNCHANGED <<service, recordVars, routineVars>>
  \/ service = "record" /\ RecordNext /\ UNCHANGED <<service, demoVars, routineVars>>
  \/ service = "routine" /\ RoutineNext /\ UNCHANGED <<service, demoVars, recordVars>>

\* DemoFairness and RoutineFairness, of the one that runs.
ForwardFairness ==
  /\ WF_demoVars(service = "demo" /\ BeginRun) /\ WF_demoVars(service = "demo" /\ RunSteps)
  /\ WF_routineVars(service = "routine" /\ \E p \in Starters : Start(p))
  /\ WF_routineVars(service = "routine" /\ LockAges)
  /\ \A p \in Starters : WF_routineVars(service = "routine" /\ RoutineStep(p))

ForwardSpec == ForwardInit /\ [][ForwardNext]_forwardVars /\ ForwardFairness
=============================================================================

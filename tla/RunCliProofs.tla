---------------------------- MODULE RunCliProofs ----------------------------
(***************************************************************************)
(* Proofs about RunCli, for any set of concurrent calls, with and without  *)
(* helpers, for both behaviours of Process.wait(), and for a driver that   *)
(* exits at any point.                                                     *)
(***************************************************************************)
EXTENDS RunCli, TLAPS

\* The coroutine, the processes and the transport's flags keep their types.
THEOREM TypeCorrect == Spec => []TypeOK
<1>1. Init => TypeOK
  BY DEF Init, TypeOK, Places, Process, Ended
<1>2. TypeOK /\ [Next]_vars => TypeOK'
  <2> SUFFICES ASSUME TypeOK, [Next]_vars
               PROVE  TypeOK'
    OBVIOUS
  <2> USE DEF TypeOK, Places, Process, Ended, Goto, At, processes, transport,
              driver
  <2>1. CASE UNCHANGED vars
    BY <2>1 DEF vars
  <2>2. ASSUME NEW c \in Calls, Call(c)
        PROVE  TypeOK'
    BY <2>2 DEF Call, NotFound, Spawn, SpawnFails
  <2>3. ASSUME NEW c \in Calls, OsStep(c)
        PROVE  TypeOK'
    BY <2>3 DEF OsStep, StartHelper, ChildExits, HelperExits
  <2>4. ASSUME NEW c \in Calls,
               NoticeEof(c) \/ NoticeExit(c) \/ ConnectionLost(c)
        PROVE  TypeOK'
    BY <2>4 DEF NoticeEof, NoticeExit, ConnectionLost
  <2>5. ASSUME NEW c \in Calls,
               Complete(c) \/ TimerFires(c) \/ Kill(c) \/ Reap(c)
        PROVE  TypeOK'
    BY <2>5 DEF Complete, TimerFires, Kill, Reap
  <2>6. CASE DriverExits
    BY <2>6 DEF DriverExits
  <2> QED
    BY <2>1, <2>2, <2>3, <2>4, <2>5, <2>6 DEF Next, LoopStep
<1> QED
  BY <1>1, <1>2, PTL DEF Spec

\* What the loop knows of a call's processes is true of them at every step.
LEMMA InvCorrect == Spec => []RunCliInv
<1>1. Init => RunCliInv
  BY DEF Init, RunCliInv, Ended
<1>2. TypeOK /\ RunCliInv /\ [Next]_vars => RunCliInv'
  <2> SUFFICES ASSUME TypeOK, RunCliInv, [Next]_vars
               PROVE  RunCliInv'
    OBVIOUS
  <2> USE DEF TypeOK, RunCliInv, Places, Process, Ended, Goto, At, processes,
              transport, driver
  <2>1. CASE UNCHANGED vars
    BY <2>1 DEF vars
  <2>2. ASSUME NEW c \in Calls, Call(c)
        PROVE  RunCliInv'
    BY <2>2 DEF Call, NotFound, Spawn, SpawnFails
  <2>3. ASSUME NEW c \in Calls, StartHelper(c)
        PROVE  RunCliInv'
    BY <2>3 DEF StartHelper
  <2>4. ASSUME NEW c \in Calls, ChildExits(c) \/ HelperExits(c)
        PROVE  RunCliInv'
    BY <2>4 DEF ChildExits, HelperExits
  <2>5. ASSUME NEW c \in Calls,
               NoticeEof(c) \/ NoticeExit(c) \/ ConnectionLost(c)
        PROVE  RunCliInv'
    BY <2>5 DEF NoticeEof, NoticeExit, ConnectionLost
  <2>6. ASSUME NEW c \in Calls, Complete(c) \/ TimerFires(c)
        PROVE  RunCliInv'
    BY <2>6 DEF Complete, TimerFires
  <2>7. ASSUME NEW c \in Calls, Kill(c)
        PROVE  RunCliInv'
    BY <2>7 DEF Kill
  <2>8. ASSUME NEW c \in Calls, Reap(c)
        PROVE  RunCliInv'
    BY <2>8 DEF Reap
  <2>9. CASE DriverExits
    BY <2>9 DEF DriverExits
  <2> QED
    BY <2>1, <2>2, <2>3, <2>4, <2>5, <2>6, <2>7, <2>8, <2>9
    DEF Next, OsStep, LoopStep
<1> QED
  BY <1>1, <1>2, TypeCorrect, PTL DEF Spec

\* A call that has answered leaves no CLI process running: run_cli reaps on
\* the good path, kills on timeout, and where kill() raises there is nothing
\* left to kill.
THEOREM NoOrphans == Spec => []NoChildLeftRunning
<1>1. RunCliInv => NoChildLeftRunning
  BY DEF RunCliInv, NoChildLeftRunning
<1> QED
  BY <1>1, InvCorrect, PTL

\* communicate() returns only when nothing is left that could still write.
THEOREM ResultsComplete == Spec => []ResultMeansAllGone
<1>1. RunCliInv => ResultMeansAllGone
  BY DEF RunCliInv, ResultMeansAllGone
<1> QED
  BY <1>1, InvCorrect, PTL

-----------------------------------------------------------------------------
LEMMA StatusBecomes ==
  ASSUME NEW c \in Calls, NEW state, Status(c)' = state,
         \A d \in Calls \ {c} : Status(d)' = Status(d)
  PROVE  Engine!Becomes(c, state)
  BY DEF Engine!Becomes

\* A step that moves the coroutine of one call, and nothing it is told by the
\* exits, changes the status of no other call.
LEMMA OthersStay ==
  ASSUME TypeOK, NEW c \in Calls, NEW place, Goto(c, place), gone' = gone
  PROVE  /\ \A d \in Calls \ {c} : Status(d)' = Status(d)
         /\ task'[c] = place
<1>1. \A d \in Calls \ {c} : task'[d] = task[d] /\ gone'[d] = gone[d]
  BY DEF TypeOK, Goto
<1>2. task'[c] = place
  BY DEF TypeOK, Goto
<1> QED
  BY <1>1, <1>2 DEF Status, InFlight

LEMMA CallIsEngineStep ==
  ASSUME TypeOK, NEW c \in Calls, Call(c)
  PROVE  Engine!Step(c)
<1> USE DEF driver
<1>1. At(c, "new") /\ Status(c) = "idle"
  BY DEF Call, NotFound, Spawn, SpawnFails, At, Status
<1>2. CASE NotFound(c)
  <2>1. Status(c)' = "failed" /\ \A d \in Calls \ {c} : Status(d)' = Status(d)
    BY <1>2, OthersStay DEF NotFound, Status
  <2> QED
    BY <1>1, <2>1, StatusBecomes DEF Engine!Step, Engine!FailAtOnce
<1>3. CASE SpawnFails(c)
  <2>1. Status(c)' = "failed" /\ \A d \in Calls \ {c} : Status(d)' = Status(d)
    BY <1>3, OthersStay DEF SpawnFails, Status
  <2> QED
    BY <1>1, <2>1, StatusBecomes DEF Engine!Step, Engine!FailAtOnce
<1>4. CASE Spawn(c)
  <2>1. task'[c] = "communicating" /\ ~gone'[c]
    BY <1>4, <1>1, OthersStay DEF Spawn, At
  <2>2. \A d \in Calls \ {c} : Status(d)' = Status(d)
    BY <1>4, OthersStay DEF Spawn
  <2>3. Status(c)' = "pending"
    BY <2>1 DEF Status, InFlight, Ended
  <2> QED
    BY <1>1, <2>2, <2>3, StatusBecomes DEF Engine!Step, Engine!Begin
<1> QED
  BY <1>2, <1>3, <1>4 DEF Call

LEMMA CoroutineIsEngineStep ==
  ASSUME TypeOK, NEW c \in Calls,
         Complete(c) \/ TimerFires(c) \/ Kill(c) \/ Reap(c)
  PROVE  Engine!Step(c) \/ UNCHANGED [d \in Calls |-> Status(d)]
<1> USE DEF driver
<1>1. CASE Complete(c)
  <2>1. At(c, "communicating") /\ task'[c] = "result"
    BY <1>1, OthersStay DEF Complete
  <2>2. \A d \in Calls \ {c} : Status(d)' = Status(d)
    BY <1>1, OthersStay DEF Complete
  <2>3. Status(c) = "pending" /\ Status(c)' = "answered"
    BY <2>1 DEF At, Status, InFlight, Ended
  <2> QED
    BY <2>2, <2>3, StatusBecomes DEF Engine!Step, Engine!Answer
<1>2. CASE TimerFires(c)
  <2>1. At(c, "communicating") /\ task'[c] = "cancelled" /\ gone' = gone
    BY <1>2, OthersStay DEF TimerFires
  <2>2. \A d \in Calls \ {c} : Status(d)' = Status(d)
    BY <1>2, OthersStay DEF TimerFires
  <2>3. Status(c) = "pending" /\ Status(c)' = "givenUp"
    BY <2>1 DEF At, Status, InFlight, Ended
  <2> QED
    BY <2>2, <2>3, StatusBecomes DEF Engine!Step, Engine!GiveUp
<1>3. CASE Kill(c)
  <2>1. At(c, "cancelled") /\ gone' = gone /\ Status(c) = "givenUp"
    BY <1>3 DEF Kill, At, Status, InFlight, Ended
  <2>2. CASE forgotten[c]
    <3>1. Goto(c, "escaped")
      BY <1>3, <2>2 DEF Kill
    <3>2. Status(c)' = "failed"
          /\ \A d \in Calls \ {c} : Status(d)' = Status(d)
      BY <2>1, <3>1, OthersStay DEF Status
    <3> QED
      BY <2>1, <3>2, StatusBecomes
      DEF Engine!Step, Engine!Fail, Engine!InFlight
  <2>3. CASE ~forgotten[c] /\ reaped[c]
    <3>1. Goto(c, "cliError")
      BY <1>3, <2>3 DEF Kill
    <3>2. Status(c)' = "failed"
          /\ \A d \in Calls \ {c} : Status(d)' = Status(d)
      BY <2>1, <3>1, OthersStay DEF Status
    <3> QED
      BY <2>1, <3>2, StatusBecomes
      DEF Engine!Step, Engine!Fail, Engine!InFlight
  <2>4. CASE ~forgotten[c] /\ ~reaped[c]
    <3>1. Goto(c, "waiting")
      BY <1>3, <2>4 DEF Kill
    <3>2. task'[c] = "waiting" /\ ~gone'[c]
          /\ \A d \in Calls \ {c} : Status(d)' = Status(d)
      BY <2>1, <3>1, OthersStay DEF At
    <3>3. Status(c)' = "givenUp"
      BY <3>2 DEF Status, InFlight, Ended
    <3> QED
      BY <2>1, <3>2, <3>3
  <2> QED
    BY <2>2, <2>3, <2>4
<1>4. CASE Reap(c)
  <2>1. At(c, "waiting") /\ task'[c] = "cliError"
    BY <1>4, OthersStay DEF Reap
  <2>2. \A d \in Calls \ {c} : Status(d)' = Status(d)
    BY <1>4, OthersStay DEF Reap
  <2>3. Status(c) = "givenUp" /\ Status(c)' = "failed"
    BY <2>1 DEF At, Status, InFlight, Ended
  <2> QED
    BY <2>2, <2>3, StatusBecomes DEF Engine!Step, Engine!Fail, Engine!InFlight
<1> QED
  BY <1>1, <1>2, <1>3, <1>4

LEMMA ExitIsEngineExit == TypeOK /\ DriverExits => Engine!Exit
<1> SUFFICES ASSUME TypeOK, DriverExits
             PROVE  Engine!Exit
  OBVIOUS
<1>1. ASSUME NEW c \in Calls
      PROVE  Status(c)' = IF Engine!InFlight(c) THEN "dropped" ELSE Status(c)
  <2>1. task' = task /\ gone'[c] = (gone[c] \/ task[c] # "new")
    BY DEF DriverExits
  <2>2. task[c] \in Places
    BY DEF TypeOK
  <2>3. Engine!InFlight(c) <=> Status(c) \in {"pending", "givenUp"}
    BY DEF Engine!InFlight
  <2>4. CASE InFlight(c)
    <3>1. Status(c) \in {"pending", "givenUp"}
      BY <2>2, <2>4 DEF Status, InFlight, Places, Ended
    <3>2. Status(c)' = "dropped"
      BY <2>1, <2>4 DEF Status, InFlight, Ended
    <3> QED
      BY <2>3, <3>1, <3>2
  <2>5. CASE ~InFlight(c)
    <3>1. ~InFlight(c)'
      BY <2>1, <2>5 DEF InFlight
    <3>2. Status(c)' = Status(c) /\ Status(c) \notin {"pending", "givenUp"}
      BY <2>1, <2>5, <3>1 DEF Status
    <3> QED
      BY <2>3, <3>2
  <2> QED
    BY <2>4, <2>5
<1> QED
  BY <1>1 DEF Engine!Exit

LEMMA LoopIsEngineStep ==
  ASSUME TypeOK, NEW c \in Calls, LoopStep(c)
  PROVE  Engine!Step(c) \/ UNCHANGED [d \in Calls |-> Status(d)]
<1>1. CASE NoticeEof(c) \/ NoticeExit(c) \/ ConnectionLost(c)
  <2>1. task' = task /\ gone' = gone
    BY <1>1 DEF NoticeEof, NoticeExit, ConnectionLost, driver
  <2> QED
    BY <2>1 DEF Status, InFlight
<1>2. CASE Complete(c) \/ TimerFires(c) \/ Kill(c) \/ Reap(c)
  BY <1>2, CoroutineIsEngineStep
<1> QED
  BY <1>1, <1>2 DEF LoopStep

LEMMA OsChangesNoStatus ==
  ASSUME NEW c \in Calls, OsStep(c)
  PROVE  task' = task /\ gone' = gone
  BY DEF OsStep, StartHelper, ChildExits, HelperExits, driver

LEMMA NextIsEngineStep ==
    TypeOK /\ [Next]_vars => [Engine!Next]_[c \in Calls |-> Status(c)]
<1> SUFFICES ASSUME TypeOK, [Next]_vars
             PROVE  Engine!Next \/ UNCHANGED [c \in Calls |-> Status(c)]
  OBVIOUS
<1>1. CASE task' = task /\ gone' = gone
  BY <1>1 DEF Status, InFlight
<1>2. UNCHANGED vars => task' = task /\ gone' = gone
  BY DEF vars, driver
<1>3. ASSUME NEW c \in Calls, Call(c) \/ LoopStep(c)
      PROVE  Engine!Next \/ UNCHANGED [d \in Calls |-> Status(d)]
  BY <1>3, CallIsEngineStep, LoopIsEngineStep DEF Engine!Next
<1>4. CASE DriverExits
  BY <1>4, ExitIsEngineExit DEF Engine!Next
<1> QED
  BY <1>1, <1>2, <1>3, <1>4, OsChangesNoStatus DEF Next

\* Whatever order end of file, exit status, timer and exits of the driver come
\* in, a call of run_cli is made once and ends once, and gives no result once
\* its timeout has begun to clean up.
THEOREM CliImplementsEngineCall == Spec => ImplementsEngineCall
<1>1. Init => Engine!Init
  BY DEF Init, Engine!Init, Status
<1> QED
  BY <1>1, NextIsEngineStep, TypeCorrect, PTL
  DEF Spec, ImplementsEngineCall, Engine!Spec
=============================================================================

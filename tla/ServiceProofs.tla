---------------------------- MODULE ServiceProofs ---------------------------
(***************************************************************************)
(* Proofs about Service.  The composition takes only steps that Driver and *)
(* RunCli allow, so the theorems about each of them hold of the whole, for *)
(* any number of calls, tokens and boots.                                  *)
(***************************************************************************)
EXTENDS Service, DriverProofs

CliProofs  == INSTANCE RunCliProofs
HttpProofs == INSTANCE HttpCallProofs

LEMMA ServiceStepIsDriverStep ==
    [ServiceNext]_serviceVars => [DriverNext]_driverVars
<1> SUFFICES ASSUME [ServiceNext]_serviceVars
             PROVE  [DriverNext]_driverVars
  OBVIOUS
<1>1. CASE UNCHANGED serviceVars
  BY <1>1 DEF serviceVars
<1>2. CASE TimePasses \/ HttpTick \/ AnswerOnly
  BY <1>2 DEF TimePasses, HttpTick, AnswerOnly
<1>3. CASE Starts \/ Lists
  BY <1>3 DEF Starts, Lists, DriverNext
<1>4. CASE Configure
  BY <1>4 DEF Configure, DriverNext
<1>5. CASE Restart
  BY <1>5 DEF Restart, DriverNext
<1>6. ASSUME NEW c \in Calls, CallStep(c) PROVE UNCHANGED driverVars
  BY <1>6 DEF CallStep, Generate, Test, CliLoop, CliOs, HttpLoop
<1>7. CASE ExitAtTimer \/ Killed
  BY <1>7 DEF ExitAtTimer, Killed, DriverNext
<1>8. ASSUME NEW r \in Requests, NEW audiences, Admit(r, audiences)
      PROVE  UNCHANGED driverVars
  BY <1>8 DEF Admit
<1> QED
  BY <1>1, <1>2, <1>3, <1>4, <1>5, <1>6, <1>7, <1>8 DEF ServiceNext

\* The calls of both kinds stay out of these steps.
LEMMA OtherStepsLeaveCalls ==
    /\ TimePasses \/ Starts \/ Lists \/ Configure \/ Restart \/ AnswerOnly
         => UNCHANGED calls
    /\ \A r \in Requests : \A audiences : Admit(r, audiences) => UNCHANGED calls
<1>1. TimePasses \/ Starts \/ Lists \/ Configure \/ Restart \/ AnswerOnly
        => UNCHANGED calls
  BY DEF TimePasses, Starts, Lists, Configure, Restart, AnswerOnly
<1>2. ASSUME NEW r \in Requests, NEW audiences, Admit(r, audiences)
      PROVE  UNCHANGED calls
  BY <1>2 DEF Admit
<1> QED
  BY <1>1, <1>2

\* What a step of the service is, for the calls.
LEMMA StepKinds ==
  ASSUME [ServiceNext]_serviceVars
  PROVE  \/ UNCHANGED calls
         \/ HttpTick
         \/ \E c \in Calls : CallStep(c)
         \/ ExitAtTimer \/ Killed
<1>1. UNCHANGED serviceVars => UNCHANGED calls
  BY DEF serviceVars
<1> QED
  BY <1>1, OtherStepsLeaveCalls DEF ServiceNext

\* The served driver is the driver: requests, tokens and calls only choose
\* among its steps, so every theorem about Driver and ConfigStore holds here.
THEOREM ServiceImplementsDriver == ServiceSpec => DriverSpec
<1>1. ServiceInit => DriverInit
  BY DEF ServiceInit
<1> QED
  BY <1>1, ServiceStepIsDriverStep, PTL DEF ServiceSpec, DriverSpec

-----------------------------------------------------------------------------
LEMMA InvokeIsCliStep ==
  ASSUME NEW eng, NEW c \in Calls, Invoke(eng, c)
  PROVE  Cli!Call(c) \/ UNCHANGED cliVars
  BY DEF Invoke, Cli!Call

LEMMA ServiceStepIsCliStep == [ServiceNext]_serviceVars => [Cli!Next]_(Cli!vars)
<1> SUFFICES ASSUME [ServiceNext]_serviceVars
             PROVE  Cli!Next \/ UNCHANGED cliVars
  BY DEF cliVars, Cli!vars, Cli!processes, Cli!transport, Cli!driver
<1>1. CASE UNCHANGED calls
  BY <1>1 DEF calls
<1>2. CASE HttpTick
  BY <1>2 DEF HttpTick
<1>3. ASSUME NEW c \in Calls, Generate(c) \/ Test(c)
      PROVE  Cli!Next \/ UNCHANGED cliVars
  BY <1>3, InvokeIsCliStep DEF Generate, Test, Cli!Next
<1>4. ASSUME NEW c \in Calls, CliLoop(c) \/ CliOs(c) \/ HttpLoop(c)
      PROVE  Cli!Next \/ UNCHANGED cliVars
  BY <1>4 DEF CliLoop, CliOs, HttpLoop, Cli!Next
<1>5. CASE ExitAtTimer \/ Killed
  BY <1>5 DEF ExitAtTimer, Killed, CallsAreCut, Cli!Next
<1> QED
  BY <1>1, <1>2, <1>3, <1>4, <1>5, StepKinds DEF CallStep

\* The calls of the served driver are calls of RunCli, the exits of its
\* process included.
THEOREM ServiceImplementsCli == ServiceSpec => Cli!Spec
<1>1. ServiceInit => Cli!Init
  BY DEF ServiceInit
<1> QED
  BY <1>1, ServiceStepIsCliStep, PTL DEF ServiceSpec, Cli!Spec

\* RunCli's theorems reach this module through an instance of their own.
LEMMA SameInit == Cli!Init => CliProofs!Init
  BY DEF Cli!Init, CliProofs!Init

LEMMA SameCliSteps ==
    /\ \A c \in Calls : /\ Cli!Call(c) => CliProofs!Call(c)
                        /\ Cli!OsStep(c) => CliProofs!OsStep(c)
                        /\ Cli!LoopStep(c) => CliProofs!LoopStep(c)
    /\ Cli!DriverExits => CliProofs!DriverExits
<1> USE DEF Cli!At, CliProofs!At, Cli!Goto, CliProofs!Goto, Cli!processes,
            CliProofs!processes, Cli!transport, CliProofs!transport,
            Cli!driver, CliProofs!driver
<1>1. ASSUME NEW c \in Calls PROVE Cli!Call(c) => CliProofs!Call(c)
  BY DEF Cli!Call, Cli!NotFound, Cli!Spawn, Cli!SpawnFails,
         CliProofs!Call, CliProofs!NotFound, CliProofs!Spawn,
         CliProofs!SpawnFails
<1>2. ASSUME NEW c \in Calls PROVE Cli!OsStep(c) => CliProofs!OsStep(c)
  BY DEF Cli!OsStep, Cli!StartHelper, Cli!ChildExits, Cli!HelperExits,
         CliProofs!OsStep, CliProofs!StartHelper, CliProofs!ChildExits,
         CliProofs!HelperExits
<1>3. ASSUME NEW c \in Calls PROVE Cli!LoopStep(c) => CliProofs!LoopStep(c)
  BY DEF Cli!LoopStep, Cli!NoticeEof, Cli!NoticeExit, Cli!ConnectionLost,
         Cli!Complete, Cli!TimerFires, Cli!Kill, Cli!Reap, Cli!WaitReturns,
         CliProofs!LoopStep, CliProofs!NoticeEof, CliProofs!NoticeExit,
         CliProofs!ConnectionLost, CliProofs!Complete, CliProofs!TimerFires,
         CliProofs!Kill, CliProofs!Reap, CliProofs!WaitReturns
<1>4. Cli!DriverExits => CliProofs!DriverExits
  BY DEF Cli!DriverExits, CliProofs!DriverExits
<1> QED
  BY <1>1, <1>2, <1>3, <1>4

LEMMA SameNext == [Cli!Next]_(Cli!vars) => [CliProofs!Next]_(CliProofs!vars)
<1>1. UNCHANGED Cli!vars => UNCHANGED CliProofs!vars
  BY DEF Cli!vars, CliProofs!vars, Cli!processes, CliProofs!processes,
         Cli!transport, CliProofs!transport, Cli!driver, CliProofs!driver
<1>2. Cli!Next => CliProofs!Next
  BY SameCliSteps DEF Cli!Next, CliProofs!Next
<1> QED
  BY <1>1, <1>2

LEMMA SameCliSpec == Cli!Spec => CliProofs!Spec
  BY SameInit, SameNext, PTL DEF Cli!Spec, CliProofs!Spec

\* A CLI that runs without a call waiting for it was left behind by an exit of
\* the driver, for any number of calls.
THEOREM NoOtherOrphans == ServiceSpec => []OrphansOnlyFromExits
<1>1. Cli!Spec => CliProofs!Spec
  BY SameCliSpec
<1>2. CliProofs!Spec => []CliProofs!RunCliInv
  BY CliProofs!InvCorrect, CallsAssumption, PTL
     DEF CliProofs!InvCorrect, CliProofs!HelpersAssumption,
         CliProofs!WaitKindsAssumption
<1>3. CliProofs!Spec => []CliProofs!TypeOK
  BY CliProofs!TypeCorrect, CallsAssumption, PTL
     DEF CliProofs!TypeCorrect, CliProofs!HelpersAssumption,
         CliProofs!WaitKindsAssumption
<1>4. CliProofs!TypeOK /\ CliProofs!RunCliInv => OrphansOnlyFromExits
  BY DEF CliProofs!TypeOK, CliProofs!RunCliInv, CliProofs!Places,
         CliProofs!Ended, OrphansOnlyFromExits, InFlight, Cli!InFlight,
         Cli!Ended
<1> QED
  BY <1>1, <1>2, <1>3, <1>4, ServiceImplementsCli, PTL

-----------------------------------------------------------------------------
LEMMA ServiceStepIsHttpStep ==
    [ServiceNext]_serviceVars => [Http!Next]_(Http!vars)
<1> SUFFICES ASSUME [ServiceNext]_serviceVars
             PROVE  Http!Next \/ UNCHANGED httpVars
  BY DEF httpVars, Http!vars
<1>1. CASE UNCHANGED calls
  BY <1>1 DEF calls
<1>2. ASSUME NEW c \in Calls, NEW eng, Invoke(eng, c)
      PROVE  Http!Next \/ UNCHANGED httpVars
  BY <1>2 DEF Invoke, Http!Next
<1>3. ASSUME NEW c \in Calls, Generate(c) \/ Test(c)
      PROVE  Http!Next \/ UNCHANGED httpVars
  BY <1>2, <1>3 DEF Generate, Test
<1>4. ASSUME NEW c \in Calls, CliLoop(c) \/ CliOs(c) \/ HttpLoop(c)
      PROVE  Http!Next \/ UNCHANGED httpVars
  BY <1>4 DEF CliLoop, CliOs, HttpLoop, Http!Next
<1>5. CASE HttpTick
  BY <1>5 DEF HttpTick, Http!Next
<1>6. CASE ExitAtTimer \/ Killed
  BY <1>6 DEF ExitAtTimer, Killed, CallsAreCut, Http!Next
<1> QED
  BY <1>1, <1>3, <1>4, <1>5, <1>6, StepKinds DEF CallStep

\* The exchanges of the served driver are exchanges of HttpCall: what a token
\* opens, and the exits of the process, only choose among their steps.
THEOREM ServiceImplementsHttp == ServiceSpec => Http!Spec
<1>1. ServiceInit => Http!Init
  BY DEF ServiceInit
<1> QED
  BY <1>1, ServiceStepIsHttpStep, PTL DEF ServiceSpec, Http!Spec

\* HttpCall's theorems reach this module as RunCli's do.
LEMMA SameHttpSteps ==
    /\ \A c \in Calls : /\ Http!Begin(c) => HttpProofs!Begin(c)
                        /\ Http!LoopStep(c) => HttpProofs!LoopStep(c)
    /\ Http!Tick => HttpProofs!Tick
    /\ Http!DriverExits => HttpProofs!DriverExits
<1> USE DEF Http!Goto, HttpProofs!Goto, Http!InFlight, HttpProofs!InFlight,
            Http!Limit, HttpProofs!Limit, Http!Limited, HttpProofs!Limited,
            Http!Timed, HttpProofs!Timed
<1>1. ASSUME NEW c \in Calls PROVE Http!Begin(c) => HttpProofs!Begin(c)
  BY DEF Http!Begin, Http!Post, Http!CannotPost,
         HttpProofs!Begin, HttpProofs!Post, HttpProofs!CannotPost
<1>2. ASSUME NEW c \in Calls PROVE Http!LoopStep(c) => HttpProofs!LoopStep(c)
  BY DEF Http!LoopStep, Http!Connected, Http!Progress, Http!Receive,
         Http!Refused, Http!TimesOut,
         HttpProofs!LoopStep, HttpProofs!Connected, HttpProofs!Progress,
         HttpProofs!Receive, HttpProofs!Refused, HttpProofs!TimesOut
<1>3. Http!Tick => HttpProofs!Tick
  BY DEF Http!Tick, HttpProofs!Tick
<1>4. Http!DriverExits => HttpProofs!DriverExits
  BY DEF Http!DriverExits, HttpProofs!DriverExits
<1> QED
  BY <1>1, <1>2, <1>3, <1>4

LEMMA SameHttpSpec == Http!Spec => HttpProofs!Spec
<1>1. Http!Init => HttpProofs!Init
  BY DEF Http!Init, HttpProofs!Init
<1>2. [Http!Next]_(Http!vars) => [HttpProofs!Next]_(HttpProofs!vars)
  BY SameHttpSteps DEF Http!Next, HttpProofs!Next, Http!vars, HttpProofs!vars
<1> QED
  BY <1>1, <1>2, PTL DEF Http!Spec, HttpProofs!Spec

-----------------------------------------------------------------------------
LEMMA CliTypeCorrect == ServiceSpec => []CliProofs!TypeOK
<1>1. CliProofs!Spec => []CliProofs!TypeOK
  BY CliProofs!TypeCorrect, CallsAssumption, PTL
     DEF CliProofs!TypeCorrect, CliProofs!HelpersAssumption,
         CliProofs!WaitKindsAssumption
<1> QED
  BY <1>1, SameCliSpec, ServiceImplementsCli, PTL

LEMMA HttpTypeCorrect == ServiceSpec => []HttpProofs!TypeOK
<1>1. HttpProofs!Spec => []HttpProofs!TypeOK
  BY HttpProofs!TypeCorrect DEF HttpProofs!TypeCorrect
<1> QED
  BY <1>1, SameHttpSpec, ServiceImplementsHttp, PTL

\* The clock, and what is kept of the requests between their two steps.
TokensTypeOK ==
    /\ now \in Times
    /\ admitted \in [Requests -> Admission \union {NotAdmitted}]

LEMMA NextTokensTypeOK ==
  ASSUME TokensTypeOK, [ServiceNext]_serviceVars
  PROVE  TokensTypeOK'
<1> USE DEF TokensTypeOK
<1>1. CASE TimePasses
  BY <1>1 DEF TimePasses
<1>2. CASE UNCHANGED serviceVars
  BY <1>2 DEF serviceVars
<1>3. ASSUME NEW r \in Requests, NEW audiences \in {OperatorOnly, Authorized},
             Admit(r, audiences)
      PROVE  TokensTypeOK'
  <2>1. now' = now /\ now \in Int
    BY <1>3, TimesAssumption DEF Admit
  <2>2. PICK token \in Tokens \union {NoToken} :
            admitted' = [admitted EXCEPT ![r] =
                [audiences |-> audiences, token |-> token, at |-> now]]
    BY <1>3 DEF Admit
  <2>3. [audiences |-> audiences, token |-> token, at |-> now] \in Admission
    BY <2>1, <2>2 DEF Admission
  <2> QED
    BY <2>1, <2>2, <2>3
<1>4. ASSUME NEW audiences, Handles(audiences)
      PROVE  admitted' \in [Requests -> Admission \union {NotAdmitted}]
  BY <1>4 DEF Handles
<1>5. CASE Configure \/ Restart \/ AnswerOnly
  BY <1>4, <1>5 DEF Configure, Restart, AnswerOnly
<1>6. ASSUME NEW c \in Calls, CallStep(c) PROVE TokensTypeOK'
  BY <1>4, <1>6 DEF CallStep, Generate, Test, CliLoop, CliOs, HttpLoop
<1>7. CASE Starts \/ Lists \/ HttpTick
  BY <1>7 DEF Starts, Lists, HttpTick
<1>8. CASE ExitAtTimer \/ Killed
  BY <1>8 DEF ExitAtTimer, Killed, CallsAreCut
<1> QED
  BY <1>1, <1>2, <1>3, <1>5, <1>6, <1>7, <1>8 DEF ServiceNext

\* Every part of the served driver keeps its type: configuration and engine,
\* the calls of both kinds, and the clock the tokens are judged by.
THEOREM ServiceTypeCorrect == ServiceSpec => []ServiceTypeOK
<1>1. ServiceSpec => []TokensTypeOK
  <2>1. ServiceInit => TokensTypeOK
    BY DEF ServiceInit, TokensTypeOK
  <2> QED
    BY <2>1, NextTokensTypeOK, PTL DEF ServiceSpec
<1>2. CliProofs!TypeOK => Cli!TypeOK
  BY DEF CliProofs!TypeOK, CliProofs!Places, CliProofs!Ended,
         CliProofs!Process, Cli!TypeOK, Cli!Places, Cli!Ended, Cli!Process
<1>3. HttpProofs!TypeOK => Http!TypeOK
  BY DEF HttpProofs!TypeOK, HttpProofs!Places, HttpProofs!Ended,
         Http!TypeOK, Http!Places, Http!Ended
<1> QED
  BY <1>1, <1>2, <1>3, CliTypeCorrect, HttpTypeCorrect, DriverTypeCorrect,
     ServiceImplementsDriver, PTL DEF ServiceTypeOK, TokensTypeOK

-----------------------------------------------------------------------------
\* A call is served by one of the two kinds of engine, whatever PATCHes and
\* restarts replace the engine of the process.
OneEngineEach == \A c \in Calls : exchange[c] # "new" => task[c] = "new"

\* A request only goes to a free call; the callbacks of a CLI that an exit has
\* left behind do not run, and those of a call without a CLI do not move it.
LEMMA NextOneEngineEach ==
    CliProofs!TypeOK /\ HttpProofs!TypeOK /\ OneEngineEach
      /\ [ServiceNext]_serviceVars => OneEngineEach'
<1> SUFFICES ASSUME CliProofs!TypeOK, HttpProofs!TypeOK, OneEngineEach,
                    [ServiceNext]_serviceVars
             PROVE  OneEngineEach'
  OBVIOUS
<1>1. CASE UNCHANGED calls
  BY <1>1 DEF calls, cliVars, httpVars, OneEngineEach
<1>2. ASSUME NEW eng, NEW c \in Calls, Invoke(eng, c) PROVE OneEngineEach'
  <2> USE DEF OneEngineEach
  <2>1. CASE Http!Begin(c) /\ UNCHANGED cliVars
    BY <1>2, <2>1 DEF Invoke, Http!Begin, Http!Post, Http!CannotPost,
                      Http!Goto, HttpProofs!TypeOK, cliVars
  <2>2. CASE (Cli!Spawn(c) \/ Cli!SpawnFails(c) \/ Cli!NotFound(c))
             /\ UNCHANGED httpVars
    BY <1>2, <2>2 DEF Invoke, Cli!Spawn, Cli!SpawnFails, Cli!NotFound,
                      Cli!Goto, CliProofs!TypeOK, httpVars
  <2> QED
    BY <1>2, <2>1, <2>2 DEF Invoke
<1>3. ASSUME NEW c \in Calls, CliLoop(c) PROVE OneEngineEach'
  <2>1. \A d \in Calls : task[d] = "new" => task'[d] = "new"
    BY <1>3 DEF CliLoop, Cli!LoopStep, Cli!NoticeEof, Cli!NoticeExit,
                Cli!ConnectionLost, Cli!Complete, Cli!TimerFires, Cli!Kill,
                Cli!Reap, Cli!At, Cli!Goto, CliProofs!TypeOK
  <2> QED
    BY <1>3, <2>1 DEF CliLoop, httpVars, OneEngineEach
<1>4. ASSUME NEW c \in Calls, CliOs(c) PROVE OneEngineEach'
  BY <1>4 DEF CliOs, Cli!OsStep, Cli!StartHelper, Cli!ChildExits,
              Cli!HelperExits, httpVars, OneEngineEach
<1>5. ASSUME NEW c \in Calls, HttpLoop(c) PROVE OneEngineEach'
  <2>1. \A d \in Calls : exchange[d] = "new" => exchange'[d] = "new"
    BY <1>5 DEF HttpLoop, Http!LoopStep, Http!Connected, Http!Progress,
                Http!Receive, Http!Refused, Http!TimesOut, Http!InFlight,
                Http!Goto, HttpProofs!TypeOK
  <2> QED
    BY <1>5, <2>1 DEF HttpLoop, cliVars, OneEngineEach
<1>6. CASE HttpTick
  BY <1>6 DEF HttpTick, Http!Tick, cliVars, OneEngineEach
<1>7. CASE ExitAtTimer \/ Killed
  BY <1>7 DEF ExitAtTimer, Killed, CallsAreCut, Cli!DriverExits,
              Http!DriverExits, Http!InFlight, OneEngineEach
<1> QED
  BY <1>1, <1>2, <1>3, <1>4, <1>5, <1>6, <1>7, StepKinds
  DEF CallStep, Generate, Test

-----------------------------------------------------------------------------
\* The two instances of each module agree on the status of a call.
LEMMA SameStatus ==
    \A c \in Calls : /\ CliProofs!Status(c) = Cli!Status(c)
                     /\ CliProofs!Status(c)' = Cli!Status(c)'
                     /\ HttpProofs!Status(c) = Http!Status(c)
                     /\ HttpProofs!Status(c)' = Http!Status(c)'
  BY DEF CliProofs!Status, CliProofs!InFlight, CliProofs!Ended,
         Cli!Status, Cli!InFlight, Cli!Ended,
         HttpProofs!Status, HttpProofs!InFlight, Http!Status, Http!InFlight

LEMMA OutcomeBecomes ==
  ASSUME NEW c \in Calls, NEW state, CallStatus(c)' = state,
         \A d \in Calls \ {c} : CallStatus(d)' = CallStatus(d)
  PROVE  Outcomes!Becomes(c, state)
  BY DEF Outcomes!Becomes

\* What a CLI does to its call happens to a call that no HTTP engine serves.
LEMMA CliBecomes ==
  ASSUME NEW c \in Calls, exchange[c] = "new", UNCHANGED exchange, NEW state,
         CliProofs!Engine!Becomes(c, state)
  PROVE  Outcomes!Becomes(c, state)
<1>1. /\ CliProofs!Status(c)' = state
      /\ \A d \in Calls \ {c} : CliProofs!Status(d)' = CliProofs!Status(d)
  BY DEF CliProofs!Engine!Becomes
<1>2. CallStatus(c)' = state
  BY <1>1, SameStatus DEF CallStatus
<1>3. ASSUME NEW d \in Calls \ {c} PROVE CallStatus(d)' = CallStatus(d)
  <2>1. Cli!Status(d)' = Cli!Status(d)
    BY <1>1, SameStatus
  <2>2. Http!Status(d)' = Http!Status(d)
    BY DEF Http!Status, Http!InFlight
  <2> QED
    BY <2>1, <2>2 DEF CallStatus
<1> QED
  BY <1>2, <1>3, OutcomeBecomes

LEMMA CliStepIsOutcome ==
  ASSUME NEW c \in Calls, exchange[c] = "new", UNCHANGED exchange,
         CliProofs!Engine!Step(c)
  PROVE  Outcomes!Step(c)
<1>1. CallStatus(c) = CliProofs!Status(c)
  BY SameStatus DEF CallStatus
<1> QED
  BY <1>1, CliBecomes
  DEF CliProofs!Engine!Step, CliProofs!Engine!Begin,
      CliProofs!Engine!FailAtOnce, CliProofs!Engine!Answer,
      CliProofs!Engine!GiveUp, CliProofs!Engine!Fail,
      CliProofs!Engine!InFlight, Outcomes!Step, Outcomes!Begin,
      Outcomes!FailAtOnce, Outcomes!Answer, Outcomes!GiveUp, Outcomes!Fail,
      Outcomes!InFlight

\* An exchange belongs to a call that no CLI serves.
LEMMA HttpBecomes ==
  ASSUME NEW c \in Calls, exchange'[c] # "new", UNCHANGED cliVars,
         \A d \in Calls \ {c} : exchange'[d] = exchange[d], NEW state,
         HttpProofs!Engine!Becomes(c, state)
  PROVE  Outcomes!Becomes(c, state)
<1>1. HttpProofs!Status(c)' = state
  BY DEF HttpProofs!Engine!Becomes
<1>2. CallStatus(c)' = state
  BY <1>1, SameStatus DEF CallStatus
<1>3. ASSUME NEW d \in Calls \ {c} PROVE CallStatus(d)' = CallStatus(d)
  <2>1. Http!Status(d)' = Http!Status(d)
    BY DEF Http!Status, Http!InFlight
  <2>2. Cli!Status(d)' = Cli!Status(d)
    BY DEF cliVars, Cli!Status, Cli!InFlight
  <2> QED
    BY <2>1, <2>2 DEF CallStatus
<1> QED
  BY <1>2, <1>3, OutcomeBecomes

LEMMA HttpStepIsOutcome ==
  ASSUME NEW c \in Calls, task[c] = "new", exchange'[c] # "new",
         UNCHANGED cliVars, \A d \in Calls \ {c} : exchange'[d] = exchange[d],
         HttpProofs!Engine!Step(c)
  PROVE  Outcomes!Step(c)
<1>1. CallStatus(c) = HttpProofs!Status(c)
  BY SameStatus DEF CallStatus, Cli!Status, Http!Status, Http!InFlight
<1> QED
  BY <1>1, HttpBecomes
  DEF HttpProofs!Engine!Step, HttpProofs!Engine!Begin,
      HttpProofs!Engine!FailAtOnce, HttpProofs!Engine!Answer,
      HttpProofs!Engine!GiveUp, HttpProofs!Engine!Fail,
      HttpProofs!Engine!InFlight, Outcomes!Step, Outcomes!Begin,
      Outcomes!FailAtOnce, Outcomes!Answer, Outcomes!GiveUp, Outcomes!Fail,
      Outcomes!InFlight

\* RunCli's and HttpCall's lemmas about one call, as they reach this module.
LEMMA CliMovesCalls ==
  ASSUME CliProofs!TypeOK
  PROVE  /\ \A c \in Calls :
              /\ CliProofs!Call(c) => CliProofs!Engine!Step(c)
              /\ CliProofs!LoopStep(c) =>
                    \/ CliProofs!Engine!Step(c)
                    \/ UNCHANGED [d \in Calls |-> CliProofs!Status(d)]
              /\ CliProofs!OsStep(c) => task' = task /\ gone' = gone
         /\ CliProofs!DriverExits => CliProofs!Engine!Exit
  BY CliProofs!CallIsEngineStep, CliProofs!LoopIsEngineStep,
     CliProofs!OsChangesNoStatus, CliProofs!ExitIsEngineExit, CallsAssumption
     DEF CliProofs!CallIsEngineStep, CliProofs!LoopIsEngineStep,
         CliProofs!OsChangesNoStatus, CliProofs!ExitIsEngineExit,
         CliProofs!HelpersAssumption, CliProofs!WaitKindsAssumption

LEMMA HttpMovesCalls ==
  ASSUME HttpProofs!TypeOK
  PROVE  /\ \A c \in Calls :
              /\ HttpProofs!Begin(c) => HttpProofs!Engine!Step(c)
              /\ HttpProofs!LoopStep(c) =>
                    \/ HttpProofs!Engine!Step(c)
                    \/ UNCHANGED [d \in Calls |-> HttpProofs!Status(d)]
         /\ HttpProofs!DriverExits => HttpProofs!Engine!Exit
  BY HttpProofs!BeginIsEngineStep, HttpProofs!LoopStepIsEngineStep,
     HttpProofs!ExitIsEngineExit
     DEF HttpProofs!BeginIsEngineStep, HttpProofs!LoopStepIsEngineStep,
         HttpProofs!ExitIsEngineExit

LEMMA StatusesStay ==
  ASSUME exchange' = exchange, task' = task, gone' = gone
  PROVE  UNCHANGED [d \in Calls |-> CallStatus(d)]
  BY DEF CallStatus, Cli!Status, Cli!InFlight, Http!Status, Http!InFlight

LEMMA InvokeIsOutcome ==
  ASSUME CliProofs!TypeOK, HttpProofs!TypeOK, NEW eng, NEW c \in Calls,
         Invoke(eng, c)
  PROVE  Outcomes!Step(c)
<1>1. task[c] = "new" /\ exchange[c] = "new"
  BY DEF Invoke
<1>2. CASE Http!Begin(c) /\ UNCHANGED cliVars
  <2>1. HttpProofs!Engine!Step(c)
    BY <1>2, SameHttpSteps, HttpMovesCalls
  <2>2. exchange'[c] # "new" /\ \A d \in Calls \ {c} : exchange'[d] = exchange[d]
    BY <1>2 DEF Http!Begin, Http!Post, Http!CannotPost, Http!Goto,
                HttpProofs!TypeOK
  <2> QED
    BY <1>1, <1>2, <2>1, <2>2, HttpStepIsOutcome
<1>3. CASE Cli!Call(c) /\ UNCHANGED httpVars
  <2>1. CliProofs!Engine!Step(c)
    BY <1>3, SameCliSteps, CliMovesCalls
  <2> QED
    BY <1>1, <1>3, <2>1, CliStepIsOutcome DEF httpVars
<1> QED
  BY <1>2, <1>3 DEF Invoke, Cli!Call

\* A step of the loop for a call whose CLI runs, or for one that has none.
LEMMA CliLoopIsOutcome ==
  ASSUME CliProofs!TypeOK, OneEngineEach, NEW c \in Calls, CliLoop(c)
  PROVE  Outcomes!Step(c) \/ UNCHANGED [d \in Calls |-> CallStatus(d)]
<1>1. UNCHANGED exchange /\ CliProofs!LoopStep(c)
  BY SameCliSteps DEF CliLoop, httpVars
<1>2. CASE CliProofs!Engine!Step(c)
  <2>1. CASE exchange[c] = "new"
    BY <1>1, <1>2, <2>1, CliStepIsOutcome
  <2>2. CASE task[c] = "new"
    <3>1. task' = task /\ gone' = gone
      BY <2>2 DEF CliLoop, Cli!LoopStep, Cli!NoticeEof, Cli!NoticeExit,
                  Cli!ConnectionLost, Cli!Complete, Cli!TimerFires, Cli!Kill,
                  Cli!Reap, Cli!At, Cli!driver
    <3> QED
      BY <1>1, <3>1, StatusesStay
  <2> QED
    BY <2>1, <2>2 DEF OneEngineEach
<1>3. CASE UNCHANGED [d \in Calls |-> CliProofs!Status(d)]
  <2>1. \A d \in Calls : CliProofs!Status(d)' = CliProofs!Status(d)
    BY <1>3
  <2>2. \A d \in Calls : Http!Status(d)' = Http!Status(d)
    BY <1>1 DEF Http!Status, Http!InFlight
  <2> QED
    BY <1>1, <2>1, <2>2, SameStatus DEF CallStatus
<1> QED
  BY <1>1, <1>2, <1>3, CliMovesCalls

LEMMA HttpLoopIsOutcome ==
  ASSUME HttpProofs!TypeOK, OneEngineEach, NEW c \in Calls, HttpLoop(c)
  PROVE  Outcomes!Step(c) \/ UNCHANGED [d \in Calls |-> CallStatus(d)]
<1>1. UNCHANGED cliVars /\ HttpProofs!LoopStep(c)
  BY SameHttpSteps DEF HttpLoop
<1>2. /\ exchange[c] # "new" /\ exchange'[c] # "new"
      /\ \A d \in Calls \ {c} : exchange'[d] = exchange[d]
  BY <1>1 DEF HttpProofs!LoopStep, HttpProofs!Connected, HttpProofs!Progress,
              HttpProofs!Receive, HttpProofs!Refused, HttpProofs!TimesOut,
              HttpProofs!InFlight, HttpProofs!Goto, HttpProofs!TypeOK
<1>3. CASE HttpProofs!Engine!Step(c)
  BY <1>1, <1>2, <1>3, HttpStepIsOutcome DEF OneEngineEach
<1>4. CASE UNCHANGED [d \in Calls |-> HttpProofs!Status(d)]
  <2>1. \A d \in Calls : HttpProofs!Status(d)' = HttpProofs!Status(d)
    BY <1>4
  <2>2. \A d \in Calls : Cli!Status(d)' = Cli!Status(d)
    BY <1>1 DEF cliVars, Cli!Status, Cli!InFlight
  <2> QED
    BY <1>2, <2>1, <2>2, SameStatus DEF CallStatus
<1> QED
  BY <1>1, <1>3, <1>4, HttpMovesCalls

\* An exit of the process takes the calls of both kinds with it.
LEMMA CutIsOutcome ==
  ASSUME CliProofs!TypeOK, HttpProofs!TypeOK, CallsAreCut
  PROVE  Outcomes!Exit
<1>1. CliProofs!Engine!Exit /\ HttpProofs!Engine!Exit
  BY SameCliSteps, SameHttpSteps, CliMovesCalls, HttpMovesCalls
  DEF CallsAreCut
<1>2. \A c \in Calls : (exchange'[c] = "new") <=> (exchange[c] = "new")
  BY DEF CallsAreCut, Http!DriverExits, Http!InFlight
<1>3. ASSUME NEW c \in Calls
      PROVE  CallStatus(c)' =
               IF Outcomes!InFlight(c) THEN "dropped" ELSE CallStatus(c)
  <2>1. CliProofs!Status(c)' = IF CliProofs!Status(c) \in {"pending", "givenUp"}
                               THEN "dropped" ELSE CliProofs!Status(c)
    BY <1>1 DEF CliProofs!Engine!Exit, CliProofs!Engine!InFlight
  <2>2. HttpProofs!Status(c)' =
          IF HttpProofs!Status(c) \in {"pending", "givenUp"}
          THEN "dropped" ELSE HttpProofs!Status(c)
    BY <1>1 DEF HttpProofs!Engine!Exit, HttpProofs!Engine!InFlight
  <2> QED
    BY <1>2, <2>1, <2>2, SameStatus DEF CallStatus, Outcomes!InFlight
<1> QED
  BY <1>3 DEF Outcomes!Exit

LEMMA ServiceStepIsOutcome ==
  ASSUME CliProofs!TypeOK, HttpProofs!TypeOK, OneEngineEach,
         [ServiceNext]_serviceVars
  PROVE  [Outcomes!Next]_[c \in Calls |-> CallStatus(c)]
<1>1. CASE UNCHANGED calls
  BY <1>1, StatusesStay DEF calls, cliVars, httpVars
<1>2. ASSUME NEW c \in Calls, CallStep(c)
      PROVE  Outcomes!Step(c) \/ UNCHANGED [d \in Calls |-> CallStatus(d)]
  <2>1. CASE Generate(c) \/ Test(c)
    BY <2>1, InvokeIsOutcome DEF Generate, Test
  <2>2. CASE CliLoop(c)
    BY <2>2, CliLoopIsOutcome
  <2>3. CASE CliOs(c)
    BY <2>3, SameCliSteps, CliMovesCalls, StatusesStay DEF CliOs, httpVars
  <2>4. CASE HttpLoop(c)
    BY <2>4, HttpLoopIsOutcome
  <2> QED
    BY <1>2, <2>1, <2>2, <2>3, <2>4 DEF CallStep
<1>3. CASE HttpTick
  BY <1>3, StatusesStay DEF HttpTick, Http!Tick, cliVars
<1>4. CASE ExitAtTimer \/ Killed
  BY <1>4, CutIsOutcome DEF ExitAtTimer, Killed, Outcomes!Next
<1> QED
  BY <1>1, <1>2, <1>3, <1>4, StepKinds DEF Outcomes!Next

\* Whichever engine serves a call, and however often PATCHes, restarts and
\* relaunches replace it, the call is made once and ends once: by an answer
\* that comes before it is given up, by a failure, or with its process.
THEOREM OneOutcomePerCall == ServiceSpec => CallsHaveOneOutcome
<1>1. ServiceInit => Outcomes!Init /\ OneEngineEach
  BY DEF ServiceInit, Cli!Init, Http!Init, Outcomes!Init, CallStatus,
         Cli!Status, OneEngineEach
<1> QED
  BY <1>1, ServiceStepIsOutcome, NextOneEngineEach, CliTypeCorrect,
     HttpTypeCorrect, PTL
  DEF ServiceSpec, CallsHaveOneOutcome, Outcomes!Spec

-----------------------------------------------------------------------------
\* No process is up whose auth variables contradict each other.
ConsistentInv == phase \in {"up", "saving"} => ~Inconsistent(env)

LEMMA NextConsistentInv == ConsistentInv /\ [Next]_vars => ConsistentInv'
<1> SUFFICES ASSUME ConsistentInv, [Next]_vars PROVE ConsistentInv'
  OBVIOUS
<1> USE DEF ConsistentInv, Inconsistent
<1>1. CASE UNCHANGED vars
  BY <1>1 DEF vars
<1>2. ASSUME NEW boot \in Boots, Launch(boot) PROVE ConsistentInv'
  BY <1>2 DEF Launch, LaunchSafe, LaunchReading, LaunchUnreadable,
              LaunchCreating
<1>3. CASE CreateFile \/ CreateFileFails
  BY <1>3 DEF CreateFile, CreateFileFails
<1>4. CASE Lifespan \/ LifespanFails
  BY <1>4 DEF Lifespan, LifespanFails
<1>5. ASSUME NEW patch \in Patches,
             PatchRejected(patch) \/ Patch(patch) \/ PatchCannotOpen(patch)
      PROVE  ConsistentInv'
  BY <1>5 DEF PatchRejected, Patch, PatchCannotOpen
<1>6. CASE Save \/ SaveFails
  BY <1>6 DEF Save, SaveFails
<1>7. CASE Crash
  BY <1>7 DEF Crash
<1> QED
  BY <1>1, <1>2, <1>3, <1>4, <1>5, <1>6, <1>7 DEF Next

\* What is known of a request between its check and its handler: it was
\* admitted by this process, with this token, at an instant that is over.
AdmittedInv ==
    \A r \in Requests : admitted[r] # NotAdmitted =>
        /\ phase \in {"up", "saving"}
        /\ admitted[r].at <= now
        /\ Accepts(admitted[r].token, env, admitted[r].at, admitted[r].audiences)

\* The lifespan is over before a request can be admitted.
LEMMA NoStartWhileServing == Starts => phase \notin {"up", "saving"}
  BY DEF Starts, SupervisedLaunch, WriteFirstFile, StartUp, StartUpFails,
         Launch, LaunchSafe, LaunchReading, LaunchUnreadable, LaunchCreating,
         NotRunning, CreateFile, CreateFileFails, Lifespan, LifespanFails

LEMMA PatchStaysInProcess ==
    HandlePatch => phase' \in {"up", "saving"} /\ env' = env
<1> SUFFICES ASSUME HandlePatch
             PROVE  phase' \in {"up", "saving"} /\ env' = env
  OBVIOUS
<1>1. CASE Save \/ SaveFails
  BY <1>1 DEF Save, SaveFails
<1>2. ASSUME NEW patch \in Patches,
             PatchRejected(patch) \/ Patch(patch) \/ PatchCannotOpen(patch)
      PROVE  phase' \in {"up", "saving"} /\ env' = env
  BY <1>2 DEF PatchRejected, Patch, PatchCannotOpen
<1> QED
  BY <1>1, <1>2 DEF HandlePatch

\* What holds of a request that stays admitted in a process that goes on.
LEMMA StaysAdmitted ==
  ASSUME TokensTypeOK, AdmittedInv, NEW r \in Requests,
         admitted[r] # NotAdmitted, admitted'[r] = admitted[r],
         phase' \in {"up", "saving"}, env' = env, now' \in Int, now <= now'
  PROVE  /\ admitted'[r].at <= now'
         /\ Accepts(admitted'[r].token, env', admitted'[r].at,
                    admitted'[r].audiences)
<1>1. admitted[r].at \in Int /\ now \in Int
  BY TimesAssumption DEF TokensTypeOK, Admission
<1>2. admitted[r].at <= now
  BY DEF AdmittedInv
<1>3. admitted'[r].at <= now'
  BY <1>1, <1>2
<1>4. Accepts(admitted[r].token, env, admitted[r].at, admitted[r].audiences)
  BY DEF AdmittedInv
<1> QED
  BY <1>3, <1>4

LEMMA NextAdmittedInv ==
  ASSUME TokensTypeOK, TokensTypeOK', AdmittedInv, [ServiceNext]_serviceVars
  PROVE  AdmittedInv'
<1> SUFFICES ASSUME NEW r \in Requests, admitted'[r] # NotAdmitted
             PROVE  /\ phase' \in {"up", "saving"}
                    /\ admitted'[r].at <= now'
                    /\ Accepts(admitted'[r].token, env', admitted'[r].at,
                               admitted'[r].audiences)
  BY DEF AdmittedInv
<1>1. now \in Int /\ now' \in Int
  BY TimesAssumption DEF TokensTypeOK
<1> DEFINE Kept == /\ admitted[r] # NotAdmitted /\ admitted'[r] = admitted[r]
                   /\ phase' \in {"up", "saving"} /\ env' = env /\ now <= now'
<1>2. CASE Kept
  BY <1>1, <1>2, StaysAdmitted
<1>3. ASSUME admitted'[r] = admitted[r] PROVE phase \in {"up", "saving"}
  BY <1>3 DEF AdmittedInv
<1>4. ASSUME NEW audiences, Handles(audiences)
      PROVE  admitted'[r] = admitted[r]
  BY <1>4 DEF Handles, TokensTypeOK
<1>5. ASSUME UNCHANGED <<driverVars, now>>, admitted'[r] = admitted[r]
      PROVE  Kept
  BY <1>1, <1>3, <1>5 DEF driverVars, vars
<1>6. CASE UNCHANGED serviceVars \/ HttpTick
  BY <1>2, <1>5, <1>6 DEF serviceVars, HttpTick
<1>7. CASE TimePasses
  BY <1>1, <1>2, <1>3, <1>7 DEF TimePasses, driverVars, vars
<1>8. CASE Starts \/ Lists
  <2>1. admitted'[r] = admitted[r] /\ now' = now
    BY <1>8 DEF Starts, Lists
  <2>2. UNCHANGED vars
    BY <1>3, <1>8, <2>1, NoStartWhileServing
    DEF Lists, ModelsListed, ListingWaits, ListingProgresses, ListingTimesOut
  <2> QED
    BY <1>1, <1>2, <1>3, <2>1, <2>2 DEF vars
<1>9. CASE Configure
  <2>1. admitted'[r] = admitted[r] /\ now' = now
    BY <1>4, <1>9 DEF Configure
  <2> QED
    BY <1>1, <1>2, <1>9, <2>1, PatchStaysInProcess DEF Configure
<1>10. CASE Restart
  <2>1. admitted'[r] = admitted[r] /\ now' = now
    BY <1>4, <1>10 DEF Restart
  <2> QED
    BY <1>1, <1>2, <1>3, <1>10, <2>1 DEF Restart, RequestRestart, vars
<1>11. CASE AnswerOnly
  BY <1>2, <1>4, <1>5, <1>11 DEF AnswerOnly
<1>12. ASSUME NEW c \in Calls, CallStep(c) PROVE Kept
  <2>1. UNCHANGED <<driverVars, now>>
    BY <1>12 DEF CallStep, Generate, Test, CliLoop, CliOs, HttpLoop
  <2>2. admitted'[r] = admitted[r]
    BY <1>4, <1>12 DEF CallStep, Generate, Test, CliLoop, CliOs, HttpLoop
  <2> QED
    BY <1>5, <2>1, <2>2
<1>13. CASE ExitAtTimer \/ Killed
  BY <1>13 DEF ExitAtTimer, Killed, CallsAreCut
<1>14. ASSUME NEW q \in Requests, NEW audiences, Admit(q, audiences)
       PROVE  /\ phase' \in {"up", "saving"}
              /\ admitted'[r].at <= now'
              /\ Accepts(admitted'[r].token, env', admitted'[r].at,
                         admitted'[r].audiences)
  <2>1. /\ UNCHANGED <<phase, env, now>>
        /\ phase \in {"up", "saving"}
    BY <1>14 DEF Admit, driverVars, vars
  <2>2. CASE r # q
    <3>1. admitted'[r] = admitted[r]
      BY <1>14, <2>2 DEF Admit, TokensTypeOK
    <3> QED
      BY <1>1, <1>2, <2>1, <3>1
  <2>3. CASE r = q
    <3>1. PICK token \in Tokens \union {NoToken} :
              /\ Accepts(token, env, now, audiences)
              /\ admitted' = [admitted EXCEPT ![q] =
                    [audiences |-> audiences, token |-> token, at |-> now]]
      BY <1>14 DEF Admit
    <3>2. admitted'[r] = [audiences |-> audiences, token |-> token, at |-> now]
      BY <2>3, <3>1 DEF TokensTypeOK
    <3> QED
      BY <1>1, <2>1, <3>1, <3>2
  <2> QED
    BY <2>2, <2>3
<1> QED
  BY <1>2, <1>6, <1>7, <1>8, <1>9, <1>10, <1>11, <1>12, <1>13, <1>14
  DEF ServiceNext

\* A process with a master key has a signing key, so a request that reaches an
\* operator's handler was admitted with an operator's token of it.
LEMMA HandledIsOperators ==
  ASSUME TypeOK, TokensTypeOK, ConsistentInv, AdmittedInv, masterKey # NoKey,
         phase = "up", Handles(OperatorOnly)
  PROVE  \E r \in Requests :
             LET token == admitted[r].token
             IN  /\ token \in Tokens /\ token.aud = "operator"
                 /\ token.key = env.signing
                 /\ token.iat <= admitted[r].at /\ admitted[r].at < token.exp
                 /\ admitted[r].at <= now
                 /\ admitted'[r] = NotAdmitted
<1>1. env.master \in MasterKeys /\ env.master # NoKey
  BY NoKeyAssumption DEF masterKey
<1>2. env.signing # NoKey
  BY <1>1 DEF ConsistentInv, Inconsistent
<1>3. PICK r \in Requests : /\ admitted[r].audiences = OperatorOnly
                            /\ admitted' = [admitted EXCEPT ![r] = NotAdmitted]
  BY DEF Handles
<1>4. admitted[r] # NotAdmitted
  BY <1>3 DEF OperatorOnly, NotAdmitted
<1>5. admitted[r].at <= now /\ admitted[r].token \in Tokens \union {NoToken}
  BY <1>4 DEF AdmittedInv, TokensTypeOK, Admission
<1>6. Accepts(admitted[r].token, env, admitted[r].at, OperatorOnly)
  BY <1>3, <1>4 DEF AdmittedInv
<1>7. Genuine(admitted[r].token, env, admitted[r].at)
      /\ admitted[r].token.aud = "operator"
  BY <1>2, <1>6 DEF Accepts, AuthDisabled, OperatorOnly
<1>8. admitted[r].token # NoToken
  BY <1>2, <1>7 DEF Genuine, NoToken
<1>9. admitted'[r] = NotAdmitted
  BY <1>3 DEF TokensTypeOK
<1> QED
  BY <1>5, <1>7, <1>8, <1>9 DEF Genuine

\* Where there are sealed secrets, configuration and restarts only change by
\* requests that this process has admitted with an operator's token of its own
\* key, valid when it was looked at, one request for each change.
THEOREM OnlyOperatorsDecide == ServiceSpec => OperatorsDecide
<1> DEFINE Authorised ==
             \E r \in Requests :
               LET token == admitted[r].token
               IN  /\ token \in Tokens /\ token.aud = "operator"
                   /\ token.key = env.signing
                   /\ token.iat <= admitted[r].at /\ admitted[r].at < token.exp
                   /\ admitted[r].at <= now
                   /\ admitted'[r] = NotAdmitted
           Changes == /\ masterKey # NoKey /\ phase = "up" /\ phase' # "down"
                      /\ values' # values \/ restarting' # restarting
           Inv == TypeOK /\ TokensTypeOK /\ ConsistentInv /\ AdmittedInv
<1>1. Inv /\ [ServiceNext]_serviceVars => [Changes => Authorised]_serviceVars
  <2> SUFFICES ASSUME Inv, ServiceNext, Changes
               PROVE  Authorised
    BY DEF serviceVars
  <2>1. CASE Configure \/ Restart
    <3>1. Handles(OperatorOnly)
      BY <2>1 DEF Configure, Restart
    <3> QED
      BY <3>1, HandledIsOperators
  <2>2. CASE TimePasses \/ HttpTick \/ AnswerOnly
    BY <2>2 DEF TimePasses, HttpTick, AnswerOnly, driverVars, vars
  <2>3. CASE Starts
    BY <2>3, NoStartWhileServing
  <2>4. CASE Lists
    BY <2>4 DEF Lists, ModelsListed, ListingWaits, ListingProgresses,
                ListingTimesOut, vars
  <2>5. ASSUME NEW c \in Calls, CallStep(c) PROVE FALSE
    BY <2>5 DEF CallStep, Generate, Test, CliLoop, CliOs, HttpLoop,
                driverVars, vars
  <2>6. CASE ExitAtTimer \/ Killed
    BY <2>6 DEF ExitAtTimer, Killed, TimerExit, KillProcess, Crash
  <2>7. ASSUME NEW r \in Requests, NEW audiences, Admit(r, audiences)
        PROVE  FALSE
    BY <2>7 DEF Admit, driverVars, vars
  <2> QED
    BY <2>1, <2>2, <2>3, <2>4, <2>5, <2>6, <2>7 DEF ServiceNext
<1>2. ServiceSpec => []Inv
  <2>1. DriverSpec => Spec
    BY DriverImplementsStore
  <2>2. Init => ConsistentInv
    BY DEF Init, ConsistentInv
  <2>3. ServiceInit => TokensTypeOK /\ AdmittedInv
    BY DEF ServiceInit, TokensTypeOK, AdmittedInv
  <2>4. ServiceSpec => []TokensTypeOK
    BY <2>3, NextTokensTypeOK, PTL DEF ServiceSpec
  <2>5. TokensTypeOK /\ TokensTypeOK' /\ AdmittedInv
          /\ [ServiceNext]_serviceVars => AdmittedInv'
    BY NextAdmittedInv
  <2> QED
    BY <2>1, <2>2, <2>3, <2>4, <2>5, NextConsistentInv, TypeCorrect,
       ServiceImplementsDriver, PTL DEF Spec, ServiceSpec
<1> QED
  BY <1>1, <1>2, PTL DEF ServiceSpec, OperatorsDecide
=============================================================================

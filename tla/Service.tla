-------------------------------- MODULE Service -----------------------------
(***************************************************************************)
(* The driver as its clients see it: the process of Driver, the calls of   *)
(* /v1/generate and /v1/config/test in flight in it (RunCli, HttpCall) and *)
(* the bearer tokens that open its endpoints (Auth).                       *)
(*                                                                         *)
(* All of it runs on one event loop, so nothing happens to a call while    *)
(* the process starts or a PATCH is being saved; the CLIs and their        *)
(* helpers run at any time.  When the process exits the calls are gone,    *)
(* the CLIs are not.                                                       *)
(*                                                                         *)
(* A request is served in two steps: its token is looked at, by a          *)
(* dependency that FastAPI runs in a thread of its own, and its handler     *)
(* runs when the loop gets to it; meanwhile everything else may happen.     *)
(* One whose token is refused (401) changes nothing and is no step here.    *)
(***************************************************************************)
EXTENDS Driver

CONSTANTS
    Tokens,          \* the tokens that clients hold
    Times,           \* instants
    Requests,        \* bound: requests between their check and their handler
    Calls, Helpers, WaitKinds,      \* see RunCli
    ConnectTimeout, Timeout         \* see HttpCall

ASSUME TokensAssumption == Tokens \subseteq Token
ASSUME TimesAssumption == Times \subseteq Int
ASSUME CallsAssumption ==
    /\ Helpers \in BOOLEAN
    /\ WaitKinds \subseteq BOOLEAN
    /\ ConnectTimeout \in Nat \ {0}
    /\ Timeout \in Nat \ {0}

VARIABLES
    now,        \* the time, for the tokens
    admitted,   \* the requests whose token has passed, see Admission
    \* RunCli's
    task, child, helper, pipesLost, reaped, forgotten, timedOut, gone,
    waitNeedsPipes,
    \* HttpCall's
    exchange, quiet,
    \* and of both
    endless

Cli  == INSTANCE RunCli
Http == INSTANCE HttpCall

cliVars == <<task, child, helper, pipesLost, reaped, forgotten, timedOut, gone,
             endless, waitNeedsPipes>>
httpVars == <<exchange, quiet, endless>>
calls == <<cliVars, httpVars>>

serviceVars == <<driverVars, now, admitted, calls>>

\* A request in its two steps: the audiences its route takes, the token that
\* was shown and when it was looked at.
Admission == [audiences : {OperatorOnly, Authorized},
              token : Tokens \union {NoToken}, at : Int]

NotAdmitted == [audiences |-> {}, token |-> NoToken, at |-> 0]

ServiceTypeOK ==
    /\ DriverTypeOK
    /\ Cli!TypeOK
    /\ Http!TypeOK
    /\ now \in Times
    /\ admitted \in [Requests -> Admission \union {NotAdmitted}]

ServiceInit ==
    /\ DriverInit
    /\ Cli!Init
    /\ Http!Init
    /\ now \in Times
    /\ \A t \in Times : now <= t
    /\ admitted = [r \in Requests |-> NotAdmitted]

-----------------------------------------------------------------------------
\* require_operator or require_authorized, in a thread: also while the loop
\* is inside apply_patch.
Admit(r, audiences) ==
    /\ phase \in {"up", "saving"} /\ listing = "no"
    /\ admitted[r] = NotAdmitted
    /\ \E token \in Tokens \union {NoToken} :
          /\ Accepts(token, env, now, audiences)
          /\ admitted' = [admitted EXCEPT ![r] =
                [audiences |-> audiences, token |-> token, at |-> now]]
    /\ UNCHANGED <<driverVars, now, calls>>

\* The handler of an admitted request for these audiences runs.
Handles(audiences) ==
    \E r \in Requests :
        /\ admitted[r].audiences = audiences
        /\ admitted' = [admitted EXCEPT ![r] = NotAdmitted]

TimePasses ==
    /\ now' \in Times
    /\ now' > now
    /\ UNCHANGED <<driverVars, admitted, calls>>

Starts ==
    /\ SupervisedLaunch \/ WriteFirstFile \/ StartUp \/ StartUpFails
    /\ UNCHANGED <<now, admitted, calls>>

Lists ==
    /\ ModelsListed \/ ListingWaits \/ ListingProgresses \/ ListingTimesOut
    /\ UNCHANGED <<now, admitted, calls>>

\* Save and SaveFails go on with a PATCH that apply_patch has begun.
Configure ==
    /\ IF phase = "up" THEN Handles(OperatorOnly) ELSE UNCHANGED admitted
    /\ HandlePatch
    /\ UNCHANGED <<now, calls>>

Restart ==
    /\ Handles(OperatorOnly)
    /\ RequestRestart
    /\ UNCHANGED <<now, calls>>

\* An admitted request that changes nothing: a GET, a body that is not valid
\* (422), no engine to generate with (503) or to test.
AnswerOnly ==
    /\ Serving
    /\ Handles(OperatorOnly) \/ Handles(Authorized)
    /\ UNCHANGED <<driverVars, now, calls>>

\* engine.generate() up to its first await: the CLI engines look for their
\* binary and start it, the HTTP engine begins to post.
Invoke(eng, c) ==
    /\ task[c] = "new" /\ exchange[c] = "new"
    /\ c \in endless <=> Endless(eng.timeout)
    /\ \/ /\ eng.class = "openai_compat_http"
          /\ Http!Begin(c)
          /\ UNCHANGED cliVars
       \/ /\ eng.class # "openai_compat_http"
          /\ IF eng.binary.str \in Binaries
             THEN Cli!Spawn(c) \/ Cli!SpawnFails(c)
             ELSE Cli!NotFound(c)
          /\ UNCHANGED httpVars

\* POST /v1/generate, with the engine of this process.
Generate(c) ==
    /\ Serving
    /\ Handles(Authorized)
    /\ adapter.ok
    /\ Invoke(adapter, c)
    /\ UNCHANGED <<driverVars, now>>

\* POST /v1/config/test, with an engine of its own, also in safe mode.
Test(c) ==
    /\ Serving
    /\ Handles(OperatorOnly)
    /\ \E overrides \in Patches :
          LET eng == BuildEngine(TestConfig(values, overrides))
          IN  eng.ok /\ Invoke(eng, c)
    /\ UNCHANGED <<driverVars, now>>

\* The event loop is not inside a handler.
LoopRuns == phase = "up"

CliLoop(c) ==
    /\ LoopRuns
    /\ Cli!LoopStep(c)
    /\ UNCHANGED <<driverVars, now, admitted, httpVars>>

CliOs(c) ==
    /\ Cli!OsStep(c)
    /\ UNCHANGED <<driverVars, now, admitted, httpVars>>

HttpLoop(c) ==
    /\ LoopRuns
    /\ Http!LoopStep(c)
    /\ UNCHANGED <<driverVars, now, admitted, cliVars>>

HttpTick ==
    /\ Http!Tick
    /\ UNCHANGED <<driverVars, now, admitted, cliVars>>

\* What the process had in hand goes with it.
CallsAreCut ==
    /\ Cli!DriverExits
    /\ Http!DriverExits
    /\ admitted' = [r \in Requests |-> NotAdmitted]

\* A fault: the exit waits until no call is in flight (a graceful shutdown).
ExitAfterCalls ==
    /\ \A c \in Calls : ~Cli!InFlight(c) /\ ~Http!InFlight(c)
    /\ TimerExit
    /\ CallsAreCut
    /\ UNCHANGED now

\* os._exit waits for nothing.
ExitAtTimer ==
    /\ TimerExit
    /\ CallsAreCut
    /\ UNCHANGED now

Killed ==
    /\ KillProcess
    /\ CallsAreCut
    /\ UNCHANGED now

CallStep(c) ==
    Generate(c) \/ Test(c) \/ CliLoop(c) \/ CliOs(c) \/ HttpLoop(c)

ServiceNext ==
    \/ TimePasses
    \/ Starts
    \/ Lists
    \/ \E r \in Requests : Admit(r, OperatorOnly) \/ Admit(r, Authorized)
    \/ Configure
    \/ Restart
    \/ AnswerOnly
    \/ \E c \in Calls : CallStep(c)
    \/ HttpTick
    \/ ExitAtTimer
    \/ Killed

ServiceSpec == ServiceInit /\ [][ServiceNext]_serviceVars

InFlight(c) == Cli!InFlight(c) \/ Http!InFlight(c)

\* As in Driver, RunCli and HttpCall.  Strong for what the loop has ready or
\* due: a client that PATCHes without end makes it wait, between two requests
\* it gets its turn.  Every step of CliLoop brings the call nearer its end;
\* the timer of an endless call is not owed.
ServiceFairness ==
    /\ WF_serviceVars(Starts)
    /\ WF_serviceVars(Lists /\ ListingWaits)
    /\ WF_serviceVars(Lists /\ ListingTimesOut)
    /\ WF_serviceVars(Configure /\ phase = "saving")
    /\ SF_serviceVars(ExitAtTimer)
    /\ WF_serviceVars(HttpTick)
    /\ \A c \in Calls : /\ SF_serviceVars(CliLoop(c) /\ (c \in endless => timedOut' = timedOut))
                       /\ SF_serviceVars(HttpLoop(c) /\ Http!TimesOut(c))

FairServiceSpec == ServiceSpec /\ ServiceFairness

-----------------------------------------------------------------------------
(***************************************************************************)
(* Properties.                                                             *)
(***************************************************************************)

\* app.py:163-165: config edits and restarts "ride on the UI's session token".
\* Wherever there are sealed secrets to protect, each takes a request of its
\* own that this process has admitted: with an operator token of this boot's
\* signing key, which was valid when it was looked at (it may have expired
\* since), whatever boot with whatever auth variables came before.
OperatorsDecide ==
    [][masterKey # NoKey /\ phase = "up" /\ phase' # "down"
       /\ (values' # values \/ restarting' # restarting)
       => \E r \in Requests :
             LET token == admitted[r].token
             IN  /\ token \in Tokens /\ token.aud = "operator"
                 /\ token.key = env.signing
                 /\ token.iat <= admitted[r].at /\ admitted[r].at < token.exp
                 /\ admitted[r].at <= now
                 /\ admitted'[r] = NotAdmitted]_serviceVars

\* A CLI that runs without a call that waits for it has been left behind by
\* an exit of the driver: no other order of requests, restarts, timeouts and
\* relaunches leaves one.
OrphansOnlyFromExits ==
    \A c \in Calls : child[c] = "running" /\ ~InFlight(c) => gone[c]

\* A call is one of a CLI or of an HTTP backend, and looks the same to the
\* routes.
CallStatus(c) == IF exchange[c] = "new" THEN Cli!Status(c) ELSE Http!Status(c)

Outcomes == INSTANCE EngineCall WITH status <- [c \in Calls |-> CallStatus(c)]

\* engines/base.py:17-18: whichever engine serves it, a call is made once, has
\* one outcome, no answer once it is given up, and does not outlive its
\* process, across PATCHes, restarts and relaunches with another engine.
CallsHaveOneOutcome == Outcomes!Spec

\* A call made with a timeout that no clock reaches (config.py:264-267 takes
\* NaN for a number in range), whose backend is silent or whose CLI runs on.
Unlimited(c) ==
    /\ c \in endless
    /\ exchange[c] = "open" \/ "running" \in {child[c], helper[c]}

\* A call of either kind ends, by an answer or with its process, unless it is
\* one of the three that nothing limits: held up by a helper's pipes, fed
\* again and again by its backend, or made without a limit.
CallsAreAnswered ==
    \A c \in Calls :
        \/ []<>~InFlight(c)
        \/ []<>Cli!HeldUp(c)
        \/ []<><<HttpLoop(c) /\ Http!Progress(c)>>_serviceVars
        \/ <>[]Unlimited(c)

\* A restart that was asked for happens, and the driver serves again, however
\* long the calls in flight hang, unless the listing of a new boot is fed for
\* ever.
RestartIsNotHeldUp ==
    (restarting ~> Serving /\ ~restarting) \/ ListingIsFed
=============================================================================

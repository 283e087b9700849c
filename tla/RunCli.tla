-------------------------------- MODULE RunCli ------------------------------
(***************************************************************************)
(* run_cli (engines/_subprocess.py) for several concurrent /v1/generate     *)
(* calls, each with a child process of its own, on one event loop.         *)
(*                                                                         *)
(* The call waits for communicate() under wait_for.  What it waits for      *)
(* reaches it in several callbacks whose order the loop does not fix: the   *)
(* end of file on the pipes, the exit status, and, after both, the callback *)
(* that makes the asyncio transport forget the process.  The timeout may    *)
(* fire between any two of them; the handler then kills and waits.          *)
(*                                                                         *)
(* A CLI may start helper processes that inherit its pipes and outlive it   *)
(* (the npm launchers of claude and codex do); the pipes then stay open.    *)
(* stdin, stdout and stderr are one `pipes` flag: communicate() needs the   *)
(* end of all of them.                                                      *)
(*                                                                         *)
(* The driver may exit in the middle (restart timer, kill).  No callback    *)
(* and no coroutine of that process runs again; its CLIs run on.           *)
(***************************************************************************)
EXTENDS Integers

CONSTANTS
    Calls,     \* calls of run_cli
    Helpers,   \* whether a CLI may start a helper process
    WaitKinds  \* the behaviours of asyncio to consider, see waitNeedsPipes

ASSUME HelpersAssumption == Helpers \in BOOLEAN
ASSUME WaitKindsAssumption == WaitKinds \subseteq BOOLEAN

VARIABLES
    task,       \* where the coroutine of a call is
    child,      \* the operating system's view of the CLI process
    helper,     \* the same for a helper it started
    pipesLost,  \* the loop has seen the end of every pipe
    reaped,     \* the transport has the return code
    forgotten,  \* _call_connection_lost has run: transport._proc is None
    timedOut,   \* the timeout of this call has fired
    gone,       \* the driver process of this call has exited
    endless,    \* the calls made with a timeout that no clock reaches, .inf or
                \* NaN; a property of a call that never changes
    waitNeedsPipes  \* whether Process.wait() of the installed CPython is woken
                    \* only when the pipes are closed too, or by the exit
                    \* status alone; releases differ, a process never changes

processes == <<child, helper>>
transport == <<pipesLost, reaped, forgotten>>
driver == <<gone, endless, waitNeedsPipes>>

vars == <<task, processes, transport, timedOut, driver>>

\* "communicating": in wait_for(communicate()).  "cancelled": the timeout has
\* cancelled the task, the except clause has not run.  "waiting": in the
\* except clause's proc.wait().  The last three are how the call ended.
Ended == {"result", "cliError", "escaped"}
Places == {"new", "communicating", "cancelled", "waiting"} \union Ended
Process == {"none", "running", "exited"}

TypeOK ==
    /\ task \in [Calls -> Places]
    /\ child \in [Calls -> Process]
    /\ helper \in [Calls -> Process]
    /\ pipesLost \in [Calls -> BOOLEAN]
    /\ reaped \in [Calls -> BOOLEAN]
    /\ forgotten \in [Calls -> BOOLEAN]
    /\ timedOut \in [Calls -> BOOLEAN]
    /\ gone \in [Calls -> BOOLEAN]
    /\ endless \subseteq Calls
    /\ waitNeedsPipes \in WaitKinds

Init ==
    /\ task = [c \in Calls |-> "new"]
    /\ child = [c \in Calls |-> "none"]
    /\ helper = [c \in Calls |-> "none"]
    /\ pipesLost = [c \in Calls |-> FALSE]
    /\ reaped = [c \in Calls |-> FALSE]
    /\ forgotten = [c \in Calls |-> FALSE]
    /\ timedOut = [c \in Calls |-> FALSE]
    /\ gone = [c \in Calls |-> FALSE]
    /\ endless \in SUBSET Calls
    /\ waitNeedsPipes \in WaitKinds

\* The coroutine is at this place of its code, in a process that runs.
At(c, place) == task[c] = place /\ ~gone[c]

Goto(c, place) == task' = [task EXCEPT ![c] = place]

-----------------------------------------------------------------------------
\* shutil.which finds nothing: CliError.
NotFound(c) ==
    /\ At(c, "new")
    /\ Goto(c, "cliError")
    /\ UNCHANGED <<processes, transport, timedOut, driver>>

\* create_subprocess_exec starts the child, or raises OSError (a script
\* without interpreter, an argument list too long), which nobody converts.
Spawn(c) ==
    /\ At(c, "new")
    /\ Goto(c, "communicating")
    /\ child' = [child EXCEPT ![c] = "running"]
    /\ UNCHANGED <<helper, transport, timedOut, driver>>

SpawnFails(c) ==
    /\ At(c, "new")
    /\ Goto(c, "escaped")
    /\ UNCHANGED <<processes, transport, timedOut, driver>>

-----------------------------------------------------------------------------
(***************************************************************************)
(* The child and its helper, which may run for ever.                       *)
(***************************************************************************)
StartHelper(c) ==
    /\ Helpers
    /\ child[c] = "running"
    /\ helper[c] = "none"
    /\ helper' = [helper EXCEPT ![c] = "running"]
    /\ UNCHANGED <<task, child, transport, timedOut, driver>>

ChildExits(c) ==
    /\ child[c] = "running"
    /\ child' = [child EXCEPT ![c] = "exited"]
    /\ UNCHANGED <<task, helper, transport, timedOut, driver>>

HelperExits(c) ==
    /\ helper[c] = "running"
    /\ helper' = [helper EXCEPT ![c] = "exited"]
    /\ UNCHANGED <<task, child, transport, timedOut, driver>>

-----------------------------------------------------------------------------
(***************************************************************************)
(* Event loop callbacks of the subprocess transport.                       *)
(***************************************************************************)
NoticeEof(c) ==
    /\ ~gone[c]
    /\ child[c] = "exited"
    /\ helper[c] # "running"
    /\ ~pipesLost[c]
    /\ pipesLost' = [pipesLost EXCEPT ![c] = TRUE]
    /\ UNCHANGED <<task, processes, reaped, forgotten, timedOut, driver>>

NoticeExit(c) ==
    /\ ~gone[c]
    /\ child[c] = "exited"
    /\ ~reaped[c]
    /\ reaped' = [reaped EXCEPT ![c] = TRUE]
    /\ UNCHANGED <<task, processes, pipesLost, forgotten, timedOut, driver>>

ConnectionLost(c) ==
    /\ ~gone[c]
    /\ pipesLost[c]
    /\ reaped[c]
    /\ ~forgotten[c]
    /\ forgotten' = [forgotten EXCEPT ![c] = TRUE]
    /\ UNCHANGED <<task, processes, pipesLost, reaped, timedOut, driver>>

-----------------------------------------------------------------------------
(***************************************************************************)
(* The coroutine.                                                          *)
(***************************************************************************)
\* A fault: the exit status is awaited without reading the output to its end.
CompleteOnExit(c) ==
    /\ At(c, "communicating")
    /\ reaped[c]
    /\ Goto(c, "result")
    /\ UNCHANGED <<processes, transport, timedOut, driver>>

\* A fault: output that has come in full is taken, also when the time is over.
CompleteLate(c) ==
    /\ At(c, "communicating") \/ At(c, "cancelled")
    /\ pipesLost[c]
    /\ reaped[c]
    /\ Goto(c, "result")
    /\ UNCHANGED <<processes, transport, timedOut, driver>>

\* communicate() returns in time; the caller looks at the return code.
Complete(c) ==
    /\ At(c, "communicating")
    /\ pipesLost[c]
    /\ reaped[c]
    /\ Goto(c, "result")
    /\ UNCHANGED <<processes, transport, timedOut, driver>>

\* The timer's callback cancels the task, also one that is about to wake up.
\* It is not owed to an endless call: with .inf it never comes, with NaN, which
\* compares with nothing, as soon as the loop gets to the timer.
TimerFires(c) ==
    /\ At(c, "communicating")
    /\ timedOut' = [timedOut EXCEPT ![c] = TRUE]
    /\ Goto(c, "cancelled")
    /\ UNCHANGED <<processes, transport, driver>>

\* A fault: the timeout is reported at once, the child left to itself.
KillNothing(c) ==
    /\ At(c, "cancelled")
    /\ Goto(c, "cliError")
    /\ UNCHANGED <<processes, transport, timedOut, driver>>

\* A fault: the child is waited for without being killed.
KillForgotten(c) ==
    /\ At(c, "cancelled")
    /\ Goto(c, CASE forgotten[c] -> "escaped"
                 [] ~forgotten[c] /\ reaped[c] -> "cliError"
                 [] OTHER -> "waiting")
    /\ UNCHANGED <<processes, transport, timedOut, driver>>

\* proc.kill(): ProcessLookupError once the transport has forgotten the
\* process, nothing if it is only dead.  await proc.wait() returns at once, to
\* the CliError, if the transport has the return code already.
Kill(c) ==
    /\ At(c, "cancelled")
    /\ Goto(c, CASE forgotten[c] -> "escaped"
                 [] ~forgotten[c] /\ reaped[c] -> "cliError"
                 [] OTHER -> "waiting")
    /\ child' = [child EXCEPT ![c] = IF forgotten[c] THEN @ ELSE "exited"]
    /\ UNCHANGED <<helper, transport, timedOut, driver>>

\* What wakes a coroutine that waits for a process not reaped yet.
WaitReturns(c) == reaped[c] /\ (waitNeedsPipes => forgotten[c])

\* A fault: the TimeoutError is raised again instead of a CliError.
ReapReraises(c) ==
    /\ At(c, "waiting")
    /\ WaitReturns(c)
    /\ Goto(c, "timeoutError")
    /\ UNCHANGED <<processes, transport, timedOut, driver>>

\* proc.wait() has been woken; the CliError "did not respond within".
Reap(c) ==
    /\ At(c, "waiting")
    /\ WaitReturns(c)
    /\ Goto(c, "cliError")
    /\ UNCHANGED <<processes, transport, timedOut, driver>>

LoopStep(c) ==
    \/ NoticeEof(c) \/ NoticeExit(c) \/ ConnectionLost(c)
    \/ Complete(c) \/ TimerFires(c) \/ Kill(c) \/ Reap(c)

OsStep(c) == StartHelper(c) \/ ChildExits(c) \/ HelperExits(c)

Call(c) == NotFound(c) \/ Spawn(c) \/ SpawnFails(c)

\* os._exit or a kill, between any two steps of any call.
DriverExits ==
    /\ gone' = [c \in Calls |-> gone[c] \/ task[c] # "new"]
    /\ UNCHANGED <<task, processes, transport, timedOut, endless,
                   waitNeedsPipes>>

Next ==
    \/ \E c \in Calls : Call(c) \/ OsStep(c) \/ LoopStep(c)
    \/ DriverExits

\* The loop runs what is ready and a timer that has a time goes off; nothing
\* obliges a CLI or its helper ever to end.
Fairness ==
    \A c \in Calls :
        /\ WF_vars(NoticeEof(c))
        /\ WF_vars(NoticeExit(c))
        /\ WF_vars(ConnectionLost(c))
        /\ WF_vars(Complete(c) \/ (c \notin endless /\ TimerFires(c)))
        /\ WF_vars(Kill(c))
        /\ WF_vars(Reap(c))

Spec == Init /\ [][Next]_vars

FairSpec == Spec /\ Fairness

-----------------------------------------------------------------------------
(***************************************************************************)
(* Properties.                                                             *)
(***************************************************************************)

\* A call that has answered leaves no CLI process running, whichever way it
\* ended and whatever raced with the timeout.
NoChildLeftRunning ==
    \A c \in Calls : task[c] \in Ended => child[c] # "running"

\* A result means that nothing is left that could still write output: the
\* CLI and any helper holding its pipes are gone.
ResultMeansAllGone ==
    \A c \in Calls : task[c] = "result" =>
        child[c] = "exited" /\ helper[c] # "running"

\* What makes both inductive: what the loop has been told is true of the
\* processes, and a call that has killed its CLI waits for a dead one.
RunCliInv ==
    \A c \in Calls :
        /\ task[c] = "new" => child[c] = "none"
        /\ task[c] \in {"communicating", "cancelled", "waiting", "result"} =>
              child[c] # "none"
        /\ task[c] = "waiting" => child[c] = "exited"
        /\ task[c] \in Ended => child[c] # "running"
        /\ reaped[c] => child[c] = "exited"
        /\ pipesLost[c] => child[c] = "exited" /\ helper[c] # "running"
        /\ forgotten[c] => pipesLost[c] /\ reaped[c]
        /\ task[c] = "result" => pipesLost[c] /\ reaped[c]

InFlight(c) == task[c] \notin {"new"} \union Ended /\ ~gone[c]

\* The one thing that can hold up a call that has timed out.
HeldUp(c) == waitNeedsPipes /\ task[c] = "waiting" /\ helper[c] = "running"

\* How a call stands for the routes.
Status(c) ==
    CASE task[c] = "new" -> "idle"
      [] task[c] = "result" -> "answered"
      [] task[c] \in {"cliError", "escaped"} -> "failed"
      [] InFlight(c) /\ task[c] = "communicating" -> "pending"
      [] InFlight(c) /\ task[c] \in {"cancelled", "waiting"} -> "givenUp"
      [] OTHER -> "dropped"

Engine == INSTANCE EngineCall WITH status <- [c \in Calls |-> Status(c)]

\* Each call has one outcome, and never an answer once the timeout has begun
\* to clean up, in whatever order end of file, exit status, timer and exits
\* of the driver come.
ImplementsEngineCall == Engine!Spec

\* No call stays in flight for ever, even if its CLI and its helper never end,
\* unless wait() is of the kind that a helper's open pipes hold up, or no clock
\* reaches its timeout and its CLI, or a helper with its pipes, runs on.
CallsEnd ==
    \A c \in Calls :
        []<>(\/ ~InFlight(c)
             \/ HeldUp(c)
             \/ c \in endless /\ "running" \in {child[c], helper[c]})

\* _subprocess.py:63-64 "Raises `CliError` on timeout".
TimeoutRaisesCliError ==
    \A c \in Calls :
        timedOut[c] /\ task[c] \in Ended => task[c] = "cliError"
=============================================================================

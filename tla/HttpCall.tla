------------------------------- MODULE HttpCall -----------------------------
(***************************************************************************)
(* The exchange of the HTTP engine with its backend                        *)
(* (engines/openai_compat_http.py, generate) for several concurrent calls  *)
(* on one event loop.                                                      *)
(*                                                                         *)
(* httpx.Timeout limits each operation on the connection, not the call:    *)
(* connecting has a limit of its own, and every piece that is sent or      *)
(* received starts the other one again.  `quiet` counts the ticks since.   *)
(* requestTimeoutSeconds may be NaN or infinite (the store takes either for *)
(* a number): then no clock reaches the other one, and only the connect     *)
(* limit is left.                                                          *)
(*                                                                         *)
(* What an answer means is Generate's subject; here it only arrives.       *)
(***************************************************************************)
EXTENDS Integers

\* The two limits are positive; Service states it.
CONSTANTS
    Calls,           \* calls of generate
    ConnectTimeout,  \* 10 s, in ticks
    Timeout          \* requestTimeoutSeconds, in ticks

VARIABLES
    exchange,   \* where the exchange of a call is
    quiet,      \* ticks since the last piece of it
    endless     \* the calls made with a timeout that no clock reaches, which
                \* is a property of a call and never changes

vars == <<exchange, quiet, endless>>

\* "open": connected, the request on its way out or the answer on its way in.
\* "dropped": the driver has exited, the operating system closed the socket.
Ended == {"received", "cliError", "escaped", "dropped"}
Places == {"new", "connecting", "open"} \union Ended

TypeOK ==
    /\ exchange \in [Calls -> Places]
    /\ quiet \in [Calls -> Nat]
    /\ endless \subseteq Calls

Init ==
    /\ exchange = [c \in Calls |-> "new"]
    /\ quiet = [c \in Calls |-> 0]
    /\ endless \in SUBSET Calls

InFlight(c) == exchange[c] \in {"connecting", "open"}

Limit(c) == IF exchange[c] = "connecting" THEN ConnectTimeout ELSE Timeout

\* The operation under way has a limit that a clock can reach.
Limited(c) == exchange[c] = "connecting" \/ c \notin endless

\* Every change of place starts the clock again.
Goto(c, place) ==
    /\ exchange' = [exchange EXCEPT ![c] = place]
    /\ quiet' = [quiet EXCEPT ![c] = 0]
    /\ UNCHANGED endless

-----------------------------------------------------------------------------
Post(c) ==
    /\ exchange[c] = "new"
    /\ Goto(c, "connecting")

\* A base URL httpx does not parse, a key that no header can carry: raised
\* before anything is sent, and no httpx.HTTPError.
CannotPost(c) ==
    /\ exchange[c] = "new"
    /\ Goto(c, "escaped")

Connected(c) ==
    /\ exchange[c] = "connecting"
    /\ Goto(c, "open")

\* A piece of the request was taken, or a piece of the answer came.
Progress(c) ==
    /\ exchange[c] = "open"
    /\ quiet' = [quiet EXCEPT ![c] = 0]
    /\ UNCHANGED <<exchange, endless>>

Receive(c) ==
    /\ exchange[c] = "open"
    /\ Goto(c, "received")

\* A fault: a call that breaks is made again.
RefusedRetries(c) ==
    /\ InFlight(c)
    /\ Goto(c, "new")

\* No connection, or one that breaks: httpx.HTTPError, made a CliError.
Refused(c) ==
    /\ InFlight(c)
    /\ Goto(c, "cliError")

\* A fault: no timeout is given for the operations on an open connection.
TimesOutConnecting(c) ==
    /\ exchange[c] = "connecting"
    /\ quiet[c] = Limit(c)
    /\ Goto(c, "cliError")

\* httpx.TimeoutException, made a CliError.
TimesOut(c) ==
    /\ InFlight(c) /\ Limited(c)
    /\ quiet[c] = Limit(c)
    /\ Goto(c, "cliError")

\* A timer of this call is running.
Timed(c) == InFlight(c) /\ Limited(c)

\* Time passes for all calls, and not past a timeout that is due.
Tick ==
    /\ \E c \in Calls : Timed(c)
    /\ \A c \in Calls : Timed(c) => quiet[c] < Limit(c)
    /\ quiet' = [c \in Calls |-> IF Timed(c) THEN quiet[c] + 1 ELSE quiet[c]]
    /\ UNCHANGED <<exchange, endless>>

DriverExits ==
    /\ exchange' = [c \in Calls |-> IF InFlight(c) THEN "dropped"
                                    ELSE exchange[c]]
    /\ UNCHANGED <<quiet, endless>>

Begin(c) == Post(c) \/ CannotPost(c)

LoopStep(c) ==
    Connected(c) \/ Progress(c) \/ Receive(c) \/ Refused(c) \/ TimesOut(c)

Next ==
    \/ \E c \in Calls : Begin(c) \/ LoopStep(c)
    \/ Tick
    \/ DriverExits

\* Time passes and due timers go off; the backend owes nothing.
Fairness == WF_vars(Tick) /\ \A c \in Calls : WF_vars(TimesOut(c))

Spec == Init /\ [][Next]_vars

FairSpec == Spec /\ Fairness

-----------------------------------------------------------------------------
(***************************************************************************)
(* Properties.                                                             *)
(***************************************************************************)

\* How a call stands for the routes; its exchange has nothing to clean up when
\* it is given up.
Status(c) ==
    CASE exchange[c] = "new" -> "idle"
      [] InFlight(c) -> "pending"
      [] exchange[c] = "received" -> "answered"
      [] exchange[c] \in {"cliError", "escaped"} -> "failed"
      [] OTHER -> "dropped"

Engine == INSTANCE EngineCall WITH status <- [c \in Calls |-> Status(c)]

\* Each exchange has one outcome, whatever the backend, the clock and the
\* exits of the driver do.
ImplementsEngineCall == Engine!Spec

\* config.py:132-134, of requestTimeoutSeconds: "How long the driver will wait
\* on a single LLM call before giving up and returning an error".  A call
\* whose timeout is no time at all is left out.
HttpCallsEnd == \A c \in Calls : c \notin endless => []<>~InFlight(c)
=============================================================================

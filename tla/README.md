# The hemisphere driver in TLA+

This directory is a formal model of the Eugene Plexus *hemisphere driver*: the
service that wraps one LLM backend (a subscription CLI or an OpenAI-compatible
HTTP API) behind `/v1/generate`, together with its file-backed configuration.
Paths below are relative to `src/src/eugene_plexus_hemisphere_driver/` unless
they start with `README.md`, which is the driver's own.

Contents: [components](#components) · [modules](#modules-and-the-code) ·
[runs](#what-is-model-checked) · [fairness](#fairness) ·
[proofs](#what-is-proved) · [divergences](#where-code-and-documents-disagree) ·
[limits](#abstractions-and-limits) · [not modelled](#not-modelled)

## Components

The driver is one process with one asyncio event loop. A supervisor (the
"watchdog", another repository) launches it, passes secrets and the safe-mode
setting in environment variables, and relaunches it when it exits. An operator's
UI reads and PATCHes the configuration and asks for a restart; an orchestrator
calls generate.

| Component | State | Operations | Talks to |
|---|---|---|---|
| Settings, `settings.py` | environment variables, frozen at start | `load_settings` | read by `main` and the lifespan |
| Schema and validation, `config.py:53-283`, `providers.py` | none (tables) | `_build_fields`, `_validate_value` | the store, the engines |
| Config store, `config.py:286-428` | `_values`, `_pending_restart`, the YAML file | `load`, `apply_patch`, `as_document`, `as_schema`, `_write_locked` | the file; the routes; the engine factory |
| Startup, `__main__.py`, `app.py` | `app.state.adapter`, `adapter_error`, `available_models`, `auth_state` | `main`, `_lifespan` | builds everything else, once per process |
| Restart, `routes/admin.py` | a timer on the loop | `restart`, then `os._exit(0)` | the supervisor, by the exit |
| Engines, `engines/*.py` | frozen constructor arguments | `from_config`, `list_models`, `generate` | the HTTP backend or the subprocess runner |
| Subprocess runner, `engines/_subprocess.py` | one child process per call | `run_cli` | the CLI, asyncio's subprocess transport |
| Generate route, `routes/generate.py` | none | `generate` | the engine |
| Config routes, `routes/config.py` | none | GET, PATCH, schema, test | the store; a temporary engine |
| Info and health, `routes/info.py`, `routes/health.py` | none | GET | the store and the engine |
| Authentication, `auth_state.py`, `dependencies.py`, `security.py` | keys, frozen at start | `load_auth_state`, `decode_token`, `seal`, `open_envelope` | every route; the store |
| Wire models, `_generated/` | none | generated classes | every route |
| `scripts/codegen.py` | none | build tool | not part of the running system |

### Which behaviours are hard, and what correct means

**Config store.** Memory, the file and the running engine are three copies of
one configuration that differ most of the time: memory is ahead of the engine
until a restart, the file is behind memory inside a PATCH and after a failed
write, and it may hold secrets that this process cannot open. `open("w")`
truncates the file before the new text reaches it, so a crash between the two
leaves it empty. The store is correct when a restart restores exactly what
memory holds (`ReloadRestores`), when every value the engine does not use yet is
announced (`DriftIsPending`), when the redacted document a client got can be sent
back without harm (`RedactedRoundTrip`), when no secret reaches the disk in the
clear in a process that has a key (`NoNewPlaintext`), when what the file says is
changed by nothing but PATCHes, though each boot opens it twice with different
keys (`OnlyPatchesChangeTheFile`), and when the file, seen over all boots and
crashes, only ever moves by whole PATCHes (`ImplementsDurableConfig`).

**Startup and restart.** The file is read twice in each boot, first by `main()`
without the master key and then by the lifespan with it. The first reading is
not guarded: a file that is no mapping ends the process, and only the
supervisor's safe mode gives the operator a way back. In between the lifespan
decodes the auth variables and fails if they contradict each other, in safe mode
too. Before it serves anything it asks the HTTP engine's backend for its models,
under timeouts that limit each operation on the connection and not the whole.
Correct means that the way back exists and that the repair takes effect
(`FailedBootRecovers`, `RepairTakesEffect`), and that what the process says of
itself fits what it runs (`NothingPendingMeansCurrent`, `InfoFitsProvider`).
What holds of the repair has one exception, a backend that feeds the listing for
ever (`ListingIsFed`).

**Engines.** The reasons for which an engine is not built depend on each other
and on the environment; values from a hand-edited file reach the constructors
unvalidated. What the UI is offered as a model must be something the next boot
accepts, as long as the connection it was listed for is still the configured one
(`ListedModelsBuild`), and a configuration that was tested must be the
one that a restart runs (`TestPredictsRestart`).

**Subprocess runner.** The end of file on the pipes, the exit status, the
transport forgetting the process, and the timeout reach the coroutine in any
order, and a helper of the CLI may hold its pipes open. Correct means that no
answered call leaves its CLI running (`NoChildLeftRunning`), that a result is
not taken while output can still come (`ResultMeansAllGone`), that a call which
has been given up is never answered after all (`ImplementsEngineCall`), and that
each call with a limit ends (`CallsEnd`).

**Calls to an HTTP backend.** One number from the configuration limits each
operation on the connection, and never the call. Correct would be that a call ends
within it; what holds is less (see
[divergences](#where-code-and-documents-disagree)).

**Generate.** A conversation of messages by four kinds of speaker is put into three
different forms, and answers come from programs and services that are not part of
this repository, so that every part of an answer may be missing or of another type.
Correct means that every message arrives once, under the speaker that the engine's
form has for it, and in its place among those it is sent with: all of them for codex
and HTTP, for Claude Code the system's apart from the others (`ConversationArrives`,
which states exactly what is left of "ordered conversation"; see
[divergences](#where-code-and-documents-disagree)), that what the backend calls a
failure is told as one (`FailuresAreReported`), that missing parts end in content or
in a 502 (`GapsDoNotEscape`), and that codex's stream yields all of its text and the
last usage whatever is printed in between (`CodexAnswerIsWhole`).

**Authentication.** Which tokens are good depends on the variables of the boot
and on the time, and a token is looked at before the handler runs, in a thread
of its own (`dependencies.py:76-81` is no coroutine). Correct means that wherever
there are sealed secrets, each change of the configuration and each restart takes
a request of its own, which this very process has admitted with an operator's
token that was good when it was looked at (`OperatorsDecide`). That it is still
good when the handler runs is not promised: it may have expired in between.

**The whole service.** An exit waits for nothing, and calls may hang. Correct
means that an exit is the only thing that leaves a CLI behind
(`OrphansOnlyFromExits`), that every call has one outcome and looks the same to
the routes whichever engine serves it, while PATCHes and restarts replace the
engine (`CallsHaveOneOutcome`), that calls end by an answer or with the process
(`CallsAreAnswered`, with the three ways to hang that the code leaves open named
in it), and that they do not hold up a restart (`RestartIsNotHeldUp`).

## Modules and the code

| Module | Extends | |
|---|---|---|
| `ConfigSchema` | | values, registry, field table, validation |
| `Auth` | | auth variables of a boot, tokens |
| `ConfigStore` | `ConfigSchema`, `Auth`; instance of `DurableConfig` | the store over the life of a process |
| `DurableConfig` | | abstract specification of the store |
| `Engines` | `ConfigSchema` | building engines and what they report |
| `Driver` | `ConfigStore`, `Engines` | composition with restart and supervisor |
| `EngineCall` | | abstract specification of a call to a backend |
| `RunCli` | instance of `EngineCall` | the subprocess runner |
| `HttpCall` | instance of `EngineCall` | the HTTP exchange and its timeouts |
| `Service` | `Driver`; instances of `RunCli`, `HttpCall`, `EngineCall` | the driver with its calls and its clients' tokens |
| `Generate` | | conversation in, answer out |
| `ConfigStoreProofs`, `DriverProofs`, `RunCliProofs`, `HttpCallProofs`, `ServiceProofs`, `GenerateProofs` | the module of that name | theorems |
| `MCConfigStore`, `MCDriver`, `MCRunCli`, `MCHttpCall`, `MCService`, `MCGenerate` | the module of that name | instances for TLC |

**ConfigSchema** (constant level) holds the values a key can have, the provider
registry, the field table, `Valid` (`_validate_value`), `Patched` (what
`apply_patch` does to the dict) and `AsDocument`. A value is a record with its
dynamic type, because a YAML file and a JSON body can put any scalar under any
key; `NaN` is a value of its own since no comparison rejects it, and `Inf` one
that only a file can hold. The absence of a
key from the dict and `None` under it are one thing, as they are to every reader
(`get` returns `None` for both).

**ConfigStore** is the life of one driver process as the configuration sees it.

| Variable | Code |
|---|---|
| `phase` | how far the process is: `creating` (in `main()`, writing a first file), `lifespan` (between `main()`'s load and the lifespan's), `up`, `saving` (inside `_write_locked`), `failed` (died of an exception at startup), `down` |
| `disk` | the file: absent, unreadable (no YAML or no mapping), or a map whose entries are plain or sealed under a key |
| `safe`, `env` | `settings.safe_mode`, the auth variables of the boot; `masterKey` (an operator) is `auth_state.master_key` |
| `values`, `pending` | `ConfigStore._values`, `._pending_restart` |
| `request`, `response` | the PATCH in flight, and the last reply |
| `booted`, `before`, `lastWrite` | history for the properties: what the lifespan loaded, what the file said when the PATCH came, how the last write ended |

| Action | Code |
|---|---|
| `LaunchSafe`, `LaunchReading`, `LaunchUnreadable`, `LaunchCreating` | `main()` up to `uvicorn.run`, by what it finds |
| `CreateFile`, `CreateFileFails` | the flush of the defaults a first `load()` writes |
| `LifespanFails` | `load_auth_state` raises, before the file is opened |
| `Lifespan` | the second store: defaults in safe mode, else `load()` with the key |
| `PatchRejected` | `apply_patch` when no key is accepted: the file is not touched |
| `Patch`, `Save` | `apply_patch` up to the truncation; the flush and the reply |
| `PatchCannotOpen`, `SaveFails` | `open` or the flush raises: a 500, with memory changed |
| `Crash` | the process ends at any point |

The PATCH handler has no `await`, so requests do not interleave with it; it is
two actions because the process can die between them. `main()`'s store is
discarded when `main()` has the log level, so it has no variables of its own.

**DurableConfig** is the abstract promise to the operator: one map that changes
by whole PATCHes. The single weakness that the code has is in it by name
(`Lose`): a crash inside a PATCH resets the map to the defaults. What it excludes
is everything else: a mixture of old and new values, a partially applied PATCH,
a change by a restart, an acknowledged PATCH that is not there.

**Engines** (constant level) is `build_engine_with` with the checks of
`from_config` and the constructors in the order the code makes them, the list of
models an engine offers, and what `/v1/info` and `/v1/config/test` compute.

**Driver** composes the store with the engine record of `app.state`, the model
list, the restart timer and the supervisor. Each of its actions conjoins a store
action with what the handler does to the rest; the store's definitions are used
as they are.

| Variable | Code |
|---|---|
| `adapter` | `app.state.adapter` and `adapter_error` as one record |
| `models` | `app.state.available_models` |
| `listing` | how the `list_models()` that the lifespan awaits stands: not asked or over (`no`), an operation under way (`asked`), its time limit reached (`late`) |
| `restarting` | a timer armed by `POST /v1/admin/restart` |
| `crashes` | bound on kills from outside |

`StartUp` is the lifespan up to its `await`; `ModelsListed`, `ListingWaits`,
`ListingProgresses` and `ListingTimesOut` are the wait for the catalogue, after
which requests are let in (`Serving`). A CLI engine's list is a constant of the
code and is there at once, and a driver without an engine asks nobody.

**EngineCall** is what the adapters promise the routes, which is "uniform across
engines so the route handlers don't have to care which backend is wired in"
(`engines/base.py:17-18`). A call is idle, pending, given up (its time is over and
it is being cleaned up after), answered, failed, or dropped with its process, and
moves only forward: it is not made again, not answered once it is given up, and
not finished by a process that did not begin it. `Status` in `RunCli` and
`HttpCall`, and `CallStatus` in `Service`, map the places of a call to these.

**RunCli** models `run_cli` for several concurrent calls. `task` is the place of the
coroutine, `child` and `helper` the operating system's view of the processes,
`pipesLost`, `reaped` and `forgotten` the three things asyncio's subprocess
transport learns, `gone` says that the process the call lived in has exited (after
which none of its callbacks runs and its CLI runs on), `timedOut` is history.
`endless` is the set of calls whose timeout no clock reaches (`.inf` or NaN), chosen
initially and for good. The transport is not part of the repository; its three
callbacks are modelled as the code relies on them. `waitNeedsPipes` tells two
behaviours of CPython apart and is chosen initially: in 3.11.6, and other releases
of that time, `Process.wait()` is woken by `_call_connection_lost`, which also needs
the pipes closed; later ones wake it by the exit status. Either returns at once when
the return code is there before it is called, so that `Kill` goes straight to the
`CliError` then.

**HttpCall** is the other kind of call: `exchange` is where it stands, `quiet`
the ticks since its last piece. `TimesOut` is due when `quiet` reaches the limit
of what is being done, connecting or reading; `Progress` sets it back to 0.
`endless` is as in `RunCli`: such a call has only the limit on connecting. What
an answer says is not looked at here.

**Auth** (constant level) is `Inconsistent` (`load_auth_state` raises) and
`Accepts` (`_validate` with `decode_token`). A token is the key that signed it,
its audience and its two instants; the signature is taken as perfect.

**Service** adds the clients to `Driver`: each of its actions is one of
`Driver`, `RunCli` or `HttpCall` with the condition under which the endpoint lets
it happen.

| Action | Code |
|---|---|
| `Starts`, `Lists` | supervisor, `main()`, lifespan; its wait for the models |
| `Admit` | `require_operator` or `require_authorized` passes a token, in a thread: also while a PATCH is being saved |
| `Configure`, `Restart` | the handlers of PATCH and `POST /v1/admin/restart` |
| `AnswerOnly` | the handler of an admitted request that changes nothing: a GET, a 422, a 503 |
| `Generate`, `Test` | `POST /v1/generate` with the live engine, `POST /v1/config/test` with one built of the overrides, up to the first `await` |
| `CliLoop`, `HttpLoop` | what the event loop does for calls; only in phase `up`, as PATCH and startup do not give the loop back |
| `CliOs`, `HttpTick` | processes of the operating system; time |
| `ExitAtTimer`, `Killed` | the process and all calls in it end |
| `TimePasses` | the clock that tokens are compared with |

`admitted` holds the requests between the two steps, with the audiences of their
route, their token and the instant at which it was looked at. Each handler takes
one of its audiences out (`Handles`); an exit drops them all. Anything may happen
in between, the end of the token included. A call is `endless` exactly if the
engine that makes it was built with a timeout of NaN or infinity (`Invoke`).

A config/test builds its engine before its first `await` and keeps it, so a PATCH
handled in between cannot change it; in the model its call, once begun, refers to
nothing of the store.

**Generate** follows one request: `Send` builds what the backend gets (`Prompt`,
with a piece for each message, of which `Chosen` is the list comprehension that
parts the system messages from the others), `ReceiveEnvelope`, `ReceiveCompletion` and
`ReceiveStream` judge what comes back, `ReadLine` is one turn of codex's loop over
its lines, `FinishStream` what follows it; `NoAnswer` stands for the ways in which
`RunCli` and `HttpCall` fail. An answer is a record of which of its parts are
there, absent or of a type the code does not expect. `Judged` is the order of the
checks: the first that hits decides between content, `CliError` and an exception
of another type. `Reply` is the endpoint: 200, 502 or a plain 500 from generate,
always 200 from config/test.

Definitions whose comment begins "A fault:" are plausible bugs, each next to the
definition it deviates from and with the same parameters. They show that the
properties react: with the fault in place of the definition, TLC reports the
property named with it in `PROJECT.json`. Nothing else refers to them.

## What is model-checked

Passing runs, with the distinct states TLC visits.

| Run | States | Checks |
|---|---|---|
| `ConfigStore` | 307,949 | type, `ReloadRestores`, `RedactedRoundTrip`, `DriftIsPending`, `NoNewPlaintext`, `OnlyPatchesChangeTheFile` |
| `ConfigStoreDurable` | 21,258 | `ImplementsDurableConfig` |
| `Driver` | 91,368 | type, `NothingPendingMeansCurrent`, `ListedModelsBuild`, `InfoFitsProvider`, `TestPredictsRestart` |
| `DriverLiveness` | 1,446 | `FailedBootRecovers`, `RepairTakesEffect` |
| `RunCli` | 105,800 | type, `NoChildLeftRunning`, `ResultMeansAllGone`, `ImplementsEngineCall`, `CallsEnd` |
| `Service` | 66,608 | type, `OrphansOnlyFromExits`, `OperatorsDecide`, `CallsHaveOneOutcome`, `CallsAreAnswered`, `RestartIsNotHeldUp` |
| `Generate` | 149,253 | type, `ConversationArrives`, `FailuresAreReported`, `GapsDoNotEscape`, `CodexAnswerIsWhole` |

Violation runs each show one divergence, listed
[below](#where-code-and-documents-disagree).

**Bounds, and why they suffice.** The store's state space needs no bound: there
are finitely many values, and any number of boots, crashes and PATCHes is
explored.

- *Files* (`ConfigStore`): absent, unreadable, a v0.1 file (plaintext secret, a
  key that was retired), a file sealed under the first key, a hand-edited one
  (null where a default exists, a secret that is no string, a timeout that is no
  number), and an unknown log level. These are the cases `load()`, `_decrypt_loaded` and
  `_write_locked` treat differently.
- *PATCH bodies*: set a secret, clear it, one key accepted and one rejected,
  two nulls back to defaults, the timeout's boundary value, and a body of which
  nothing is accepted (unknown key, out of range, out of enum), and a NaN.
- *Boots*: no key, two keys, safe mode, a key that does not decode, a master key
  without the rest. Two keys are what it takes for an envelope to be foreign; a
  third would be another foreign one.
- *Driver*: two kills and any number of requested restarts. One kill makes a lost
  write, the second hits the recovery from it. The catalogue holds a model that is
  denied, one that is allowed and one that is no chat model, or nothing.
- *DriverLiveness*: one kill. Requested restarts are not bounded.
- *DriverLiveness* is about files, so its boots have their auth variables in
  order: with variables that contradict each other every boot fails, in safe mode
  too, and nothing recovers before they are changed.
- *RunCli*: two calls. They share nothing in the model, as in the code, where
  all that they share is the loop, so two are enough to see that one does not
  hold up the other. Both behaviours of `wait()`, and every choice of calls
  without a limit; `CallsEnd` excepts the cases that these leave open.
- *HttpTrickle*: two exchanges, and limits of one and two ticks: all that matters
  is that they differ.
- *Service*: one call, which runs as either kind (the calls are independent, and
  `NoOtherOrphans` is proved for any number), and one request at a time between
  its check and its handler (`OnlyOperatorsDecide` is proved for any number; the
  tests of what may come in between need no second one). Both CLIs are installed.
  The file is for codex, with a NaN timeout that an earlier PATCH has saved, so
  that its calls are without a limit; one PATCH moves on to HTTP. One crash: when
  it truncates the file, the defaults make calls with a limit, to Claude Code and
  to HTTP. Boots with one signing key, without it (they fail) and then in safe mode
  with another; operators' tokens of both keys and a service's, over two
  instants, of which an operator's of the first key expires at the second. The
  limits are one tick each: `HttpTrickle` has different ones. Only the `wait()`
  that needs the pipes, which allows more; `RunCli` has both.
- *Generate*: all conversations of up to two messages over system (blank or not),
  user, assistant and hemispheres, and four of three that mix them, hemispheres of
  two names and of none, and all streams of up to three lines of all eight kinds:
  three are what it takes for something to stand between two others, and the
  theorems hold for any length. Envelopes are not bounded: every combination of
  missing and wrong parts.

Deadlock is checked in all store and driver runs: a driver is always launched
again. The others turn the check off. `RunCli`, `HttpTrickle` and the two runs of
`Generate` stop when their calls have ended. `Service` stops when the one call
has been used up, the time is at its last instant and nobody holds a token that
this process accepts: such a driver waits for requests that are all refused.

`TypeOK` of the store and `DriverTypeOK` also say that the file stays readable
as one of the three kinds, that an engine's parts agree with each other and that
a driver without an engine offers no models.

## Fairness

`FairDriverSpec`: weak fairness on what the process does of itself (writing the
first file, the lifespan up to its `await`, a PATCH that has begun), on the time
that passes while the models are listed and on a timeout of it that is due, and on
the supervisor's relaunch, which is why the environment variable for safe mode
exists (`settings.py:29-35`). Strong fairness on the restart timer: `call_later`
puts it on the loop's heap, and the loop runs what is due in order, so PATCHes
handled in between delay it and cannot prevent it; in the model each of them
disables the timer for its duration (phase `saving`). No fairness on operators'
requests, on kills or on the backend that is asked for its models: it may answer,
stay silent, which a timeout ends, or feed the listing for ever, which nothing does.
The liveness properties of restarts have this last as an alternative
(`ListingIsFed`: from some point on the listing never ends, with a piece again and
again) and hold without it otherwise. The supervisor boots in safe mode exactly
after a boot that failed; this is how the settings' comment describes it, and an
assumption here.

`FairSpec` of RunCli: weak fairness on each loop callback and each step of the
coroutine, with `Complete` and `TimerFires` taken together: of the answer and
the timeout one comes, no promise which; for an endless call only the answer, if
there is one. No fairness on the CLI or its helper, which may hang for ever.

`FairSpec` of HttpCall: weak fairness on time and on timeouts that are due. None
on the backend.

`FairServiceSpec`: the same for what startup, listing, PATCH and time do. No
fairness on requests, also admitted ones: a handler may be as late as it likes.
Strong fairness
for the restart timer, for what the loop has ready for a CLI call and for due
HTTP timeouts, because clients may PATCH without end: each PATCH disables them
while it is being saved, and between two requests the loop runs what is ready.
`CliLoop` is taken as one action per call, which is weaker than fairness for each
of its steps; every one of its steps brings the call nearer its end. The timer of
an endless call is left out of it.

## What is proved

Six modules hold theorems, checked by TLAPS for every value of the constants
that satisfies the assumptions: any keys, files, boots, PATCH bodies, model
catalogues, environments, tokens, number of concurrent calls, conversations and
streams.

`ConfigStoreProofs`:

| Theorem | Says | Argument |
|---|---|---|
| `TypeCorrect` | `Spec => []TypeOK` | Inductive as it is. `Load`, `Patched`, `Encode` have lemmas on their types. |
| `ReloadCorrect` | `Spec => []ReloadRestores` | Strengthened to `ReloadInv`: until the lifespan has run, this process has completed no write of its own; otherwise a lifespan in safe mode could not be told from a synced one. The heart is the lemma that `Load(Encode(v, k), k) = v`. |
| `DriftCorrect` | `Spec => []DriftIsPending` | Inductive with the types: a value that moves is in `Applied`, and every field requires a restart. |
| `SecretsStaySealed` | `Spec => NoNewPlaintext` | One step per action; only `CreateFile` and `Save` write values, the first only defaults, which hold no secret, the second only sealed ones if there is a key. |
| `FileIsLeftAlone` | `Spec => OnlyPatchesChangeTheFile` | `CreatesEmpty`: a file that `main()` is creating says nothing yet. An absent, an empty and a fresh file all say the defaults, so creation, and a crash or a failed write in it, change nothing; every other step but the two of a PATCH leaves the file. Nothing is assumed about keys, safe mode or the disk. |
| `RedactionHarmless` | `Spec => []RedactedRoundTrip` | Needs no induction: it holds for every dict. Sensitive fields are secrets, for which the placeholder is invalid; under any other key the document holds the value itself. |
| `StoreIsDurable` | `Spec => ImplementsDurableConfig`, given `ReliableWith(key)` | Refinement mapping `Stored`: the file's content, where a PATCH in flight counts as not made. `DurableInv` says that every envelope opens with the one key, that no write has failed, that the file is empty while a write is under way, and that memory is then `Patched` of what the file said before. `Save` and a crash while saving are the only steps that move the abstract map. |

Assumptions: `NoKey` is no key; boots, files and PATCH bodies have their types;
the set of texts contains the names the code uses, in `Engines` also the
built-in model lists (`KnownModelsAssumption`). `ReliableWith(key)` is a
hypothesis of the last theorem and not of the model: one master key over all
boots, no safe mode, a disk that works. Without it the code does not keep the
promise: `ConfigStoreSafeClobber` shows it for safe mode, a foreign key loses a
sealed secret in the same way, and a failed write leaves memory ahead of the
file, which the next PATCH then writes along with its own keys.

`DriverProofs`:

| Theorem | Says | Argument |
|---|---|---|
| `DriverTypeCorrect` | `DriverSpec => []DriverTypeOK` | Only an HTTP engine is waited for, and nothing is offered meanwhile. `Coherent`: there is an engine exactly when there is no error, which `BuiltCoherent` shows of everything `BuildEngine` returns, for values of any type that a file may hold. What is offered are texts by `ListedAreTexts`. |
| `DriverImplementsStore` | `DriverSpec => Spec` | Each action of the composition is a store step or leaves the store alone, so the theorems above hold of the driver. |
| `EngineIsCurrent` | `DriverSpec => []NothingPendingMeansCurrent` | `CurrentInv` adds that the live engine was built from `booted`, and that a failed write has left something pending (in turn because a PATCH that is being saved has). Without drift `values = booted`; without a failed write the file restores `values`; both come from the store's theorems. |
| `TestIsFaithful` | `DriverSpec => []TestPredictsRestart` | For such bodies overriding and patching are the same function. |
| `ListedModelsAreSafe` | `DriverSpec => []ListedModelsBuild` | What the next boot with this master key loads after a PATCH of the choice is `NextBoot`, which `Load(Encode(v, k), k) = v` makes the patched memory. With no key of the connection pending it agrees with `booted` on them (drift), and the live engine is the one of `booted` (`EngineInv`), so the list has passed the pattern of the provider that the next boot finds; another model that passes it changes none of the checks of `BuildEngine` (lemma `OtherModelBuilds`). |
| `InfoIsConsistent` | `DriverSpec => []InfoFitsProvider` | By drift: a provider that is not pending is the one of `booted`, and an engine that was built runs on the backend of its provider (lemma `BuiltBackend`). |

`RunCliProofs`, for any set of calls, with or without helpers, and for both
behaviours of `wait()`: `TypeCorrect`, `NoOrphans`
(`Spec => []NoChildLeftRunning`) and `ResultsComplete`
(`Spec => []ResultMeansAllGone`). `RunCliInv` relates what the loop has been told
to what is true of the processes: a return code implies a dead CLI, the end of
the pipes a dead CLI and no living helper, a forgotten process both; `waiting` is
only reached over a kill, and a kill that finds the return code there ends the call
at once. The case that needs it is the timeout after the
transport has forgotten the CLI: `kill()` raises, and there is nothing left to
kill.

`CliImplementsEngineCall` (`Spec => ImplementsEngineCall`) goes action by action:
`Spawn` begins, `Complete` answers, `TimerFires` gives up, `Reap` and a `Kill` that
raises fail, an exit drops what is in flight, and the callbacks and the operating
system leave every status as it is, because the callbacks only prepare what the
coroutine does next. It needs no invariant beyond the types.

`HttpCallProofs`, for any set of calls and any timeouts: `TypeCorrect` and
`HttpImplementsEngineCall`, in the same way; the ticks of the clock and the
pieces of an answer are stuttering steps.

`ServiceProofs`:

| Theorem | Says | Argument |
|---|---|---|
| `ServiceImplementsDriver` | `ServiceSpec => DriverSpec` | Each action is a step of `Driver` or leaves it alone, so all of the theorems above hold of the service. |
| `ServiceImplementsCli` | `ServiceSpec => Cli!Spec` | The same for `RunCli`; the exits of the process are its `DriverExits`. |
| `ServiceImplementsHttp` | `ServiceSpec => Http!Spec` | The same for `HttpCall`. |
| `ServiceTypeCorrect` | `ServiceSpec => []ServiceTypeOK` | From the type theorems of the parts, over the three refinements. |
| `OneOutcomePerCall` | `ServiceSpec => CallsHaveOneOutcome` | `OneEngineEach`: a call that has an exchange has no CLI, so that its status is that of one kind, whatever the engine of the process is by now. The step lemmas of the two refinements above then carry over, call by call (`CliBecomes`, `HttpBecomes`); the one thing that is new is that a callback for a call without a CLI moves nothing. |
| `NoOtherOrphans` | `ServiceSpec => []OrphansOnlyFromExits` | From `RunCliInv`: a running CLI belongs to a call that has not ended. |
| `OnlyOperatorsDecide` | `ServiceSpec => OperatorsDecide` | `ConsistentInv`: no process is up whose variables contradict each other; so one with a master key has a signing key, and who holds a token it accepts holds a genuine one. `AdmittedInv` carries this over the gap between check and handler: an admitted request was admitted by this process, with its variables, at an instant that is not in the future (`StaysAdmitted`: an exit drops what was admitted, and no process that is serving becomes another without one). `HandledIsOperators`: who takes an operator's request out of it leaves the slot empty. |

`GenerateProofs`:

| Theorem | Says | Argument |
|---|---|---|
| `TypeCorrect` | `Spec => []TypeOK` | Inductive; `ReplyTyped` types what is answered. |
| `ConversationCorrect` | `Spec => []ConversationArrives` | `ChosenIsFiltered`: what `Chosen` returns is in order, has exactly the chosen positions, and leaves each piece as it was, under its speaker (`ToldIsKept`). It is an induction over the prefixes of the conversation; `Filtered` says what holds of a prefix, `FilteredStep` adds a message. |
| `FailuresCorrect` | `Spec => []FailuresAreReported` | The lemmas `ClaudeJudged` and `HttpJudged` say what the ordered checks decide; `JudgedHits` that the first hit decides. |
| `GapsCorrect` | `Spec => []GapsDoNotEscape` | As before; for codex `UsageSeen` says that the usage that is kept is that of a line that was read. |
| `WholeCorrect` | `Spec => []CodexAnswerIsWhole` | `CodexInv` is the loop invariant: after `line` lines the parts are the messages among them, in order, and the usage is the last turn's. `LastTurnStep` is its arithmetic. |

The types of `RunCli` are more than bookkeeping: `TypeCorrect` there says that a
call has no other ways to end than the three that `generate` distinguishes.

Induction over data is mostly out of the prover's reach, since the library's
induction theorems take an operator as a parameter. `GenerateProofs` makes do
with first-order induction: lemma `Induction` is about the *set* of the lengths
for which the claim holds, which is shown to hold 0 and each successor. That
works for one recursive function on the natural numbers; it is why `Chosen` is
written as one.

Every invariant and every action property of the passing runs is proved, and so
are the refinements of the two abstract specifications. Only model-checked are
the liveness properties (`FailedBootRecovers`, `RepairTakesEffect`, `CallsEnd`,
`CallsAreAnswered`, `RestartIsNotHeldUp`), which depend on fairness and hence on
ENABLED. The refinements are of safety specifications and say nothing about a
call that hangs; that is what `CallsEnd` and `CallsAreAnswered` are for.

## Where code and documents disagree

Each has a run that ends in a counterexample.

| Run | Property | What happens |
|---|---|---|
| `ConfigStoreSafeClobber` | `AbsentKeysUnchanged` | In safe mode the store holds the defaults; a PATCH of one key writes all of them over the operator's file. |
| `DriverBaseUrl` | `NamedProviderUrl` | A `baseUrl` left from the custom provider is used for a named one. |
| `RunCliRace` | `TimeoutRaisesCliError` | A timeout in the loop iteration in which the transport forgets the CLI makes `kill()` raise `ProcessLookupError`. |
| `HttpTrickle` | `HttpCallsEnd` | A backend that sends a piece now and then is never timed out, though the field is described as the limit of a call. |
| `AnswersEscape` | `ErrorsAreProblems` | An answer with bytes that are no UTF-8 (the trace), or with a part of a wrong type, ends in a plain 500 without a `Problem`. |

Met while modelling and not given a run, because another run shows the same
mechanism or little depends on them:

- a PATCH in a process without the master key overwrites a sealed secret with
  null (the mechanism of `ConfigStoreSafeClobber`, by `config.py:339`);
- a file that is no YAML mapping, or one with a log level uvicorn does not know,
  ends the process in `main()` (`__main__.py:43`, `:52`), where README.md:84
  promises degraded mode (`LaunchUnreadable`, `LaunchReading`);
- `_generated/models.py:428` says of the ordered conversation that "the driver does
  not modify this"; Claude Code is sent the system messages apart from the others,
  so that where they stood is lost, and not at all if they are blank
  (`claude_code_cli.py:124-127`, `:195`), and over HTTP a hemisphere's messages
  become the assistant's, without the name (`_to_openai_messages`).
  `ConversationArrives` states what remains true;
- the lifespan's comments say that the driver "MUST come up anyway" (`app.py:88`)
  and that a failure of the listing "is NEVER fatal — the driver itself is
  otherwise up" (`app.py:118`); but it is not up until the listing ends, and a
  backend that sends a piece of its catalogue now and then keeps it from ending
  (the mechanism of `HttpTrickle`; `ListingIsFed`);
- the model list is not renewed by a PATCH, so that after one of `provider` the
  dropdown offers the old provider's models until the restart, and a choice among
  them may lead to degraded mode (`ListedModelsBuild` excepts it);
- NaN passes the minimum and the maximum of `requestTimeoutSeconds`
  (`config.py:264`; `InRange`), and a file may say `.inf`; with either a call has no
  limit, where the field's description promises one (`Unlimited`, `CallsEnd`);
- `create_subprocess_exec` may raise `OSError` although the binary was found
  (`_subprocess.py:79`; `SpawnFails`), which ends in a plain 500 like an odd answer;
- a missing CLI binary, which README.md:84 counts among the reasons for degraded
  mode, is found by the first call and answered with a 502 (`NotFound`);
- with a `Process.wait()` that needs the pipes, a helper that outlives the killed
  CLI keeps a timed-out call from ever answering (`_subprocess.py:93`; `HeldUp`);
- connecting to an HTTP backend has 10 seconds, also when
  `requestTimeoutSeconds` is 5 (`openai_compat_http.py:232`);
- an `httpx` error about the URL or a header that is no `HTTPError` escapes in the
  same way as an odd answer (`CannotPost`);
- `decode_token`'s docstring (`security.py:61`) lists the GETs of `/v1/config` with
  those open to services, `app.py` mounts all of them for operators only;
- `pendingRestart` in a PATCH reply accumulates over requests, while
  `_generated/models.py:293` calls it a subset of `applied`;
- `DriverInfo.provider` is documented as left out in degraded mode, and
  `routes/info.py` always returns the store's;
- without an engine, `/v1/info` reports `openai_compat_http` for the two CLI
  providers (`routes/info.py:42`), and between a PATCH of `provider` and the
  restart it pairs the new provider with the old backend; `InfoFitsProvider`
  states what remains true;
- `/v1/config/test` drops null overrides, which a PATCH applies
  (`routes/config.py:62`); `TestPredictsRestart` states what remains true.

## Abstractions and limits

- A flush is all or nothing: the document is smaller than a write buffer. A
  crash is of the process, not of the machine.
- Nobody edits the file while the driver runs; what an editor can have done is
  among the initial files.
- Text has no surrounding white space, and texts that `float()` accepts are
  represented by one. Classes of model names are represented by a few members.
- An envelope is a pair of key and value. That `seal` and `open_envelope` are
  inverse under one key and fail under another is taken from libsodium.
- A CLI keeps its pipes open until it exits. A helper that survives a killed CLI
  is modelled, and `NoChildLeftRunning` does not count it.
- Requests whose token is refused (401) change nothing and are no steps. Those that
  are let in and change nothing are one (`AnswerOnly`).
- One clock for tokens, one of ticks for timeouts; they are not related.
- The text of an answer is the place it comes from, the text of a prompt the
  messages it is made of, with their speakers. What quoting, labels and blank
  lines do to a transcript is left out, and so is a message that imitates a label.
- Two names of hemispheres that differ only in case are one in a CLI's transcript,
  which has them in capitals; the model's names differ in more.
- A backend's failure is what the adapters look for: the exit code, `is_error`, the
  HTTP status. That Claude Code documents an envelope with a `subtype` of
  `error_*` (`claude_code_cli.py:11`), and codex an event for a turn that failed, is
  not looked at by the code and not counted by `FailuresAreReported`.
- The loop is CPython's asyncio. `uvicorn[standard]` may install uvloop, whose
  subprocess transport is another; the order of its callbacks and what it makes of
  a NaN timeout are not modelled. In asyncio a timer at NaN compares with nothing
  and may fire at once or never, so `TimerFires` of an endless call is allowed and
  not owed.
- The document that GET returns is taken as the values themselves. What JSON makes
  of a NaN or of a date from a YAML file (`AsDocument`) is left out.
- `listing` has the limit of an operation on its connection as one step of time; that
  connecting has 5 s of it and the rest 15 s (`openai_compat_http.py:304`) makes
  no difference to what ends.
- httpx counts reading, writing and waiting for a pooled connection apart; as
  each of them starts anew with a piece, one count stands for all.
- The stream endpoint and `stream` of the adapters answer 501 or raise; there is
  nothing to model.

### Not modelled

- *Generated wire models* (`_generated/`): pydantic classes without behaviour of
  their own; where a shape matters (`extra = "allow"`, fields of a config field,
  a response) it is a set or a record in the module that uses it.
- *Code generation* (`scripts/codegen.py`): a build tool that downloads a
  specification and rewrites files; nothing of it runs in the driver.
- *Port choice, logging, labels, categories and `showWhen`*: no decision of the
  running system depends on them.
- *Redaction in error texts* (`_redact`): a replacement of text in a message; the
  model has no texts of that kind.

-------------------------------- MODULE Driver ------------------------------
(***************************************************************************)
(* One hemisphere driver under its supervisor: the configuration store     *)
(* (ConfigStore) composed with the engine the lifespan builds from it      *)
(* (Engines), the model list discovered at startup, the restart endpoint   *)
(* whose timer ends the process, and the launches that follow.             *)
(*                                                                         *)
(* The lifespan awaits list_models() before it yields, and uvicorn serves  *)
(* nothing until it has: `listing` says how the HTTP engine's GET of the   *)
(* catalogue stands, whose timeouts limit each operation on the connection *)
(* and not the whole (as in HttpCall).  The CLI engines answer at once.    *)
(*                                                                         *)
(* The GET handlers, /v1/generate and /v1/config/test change no state of   *)
(* the driver; what they answer is an operator over the state.             *)
(***************************************************************************)
EXTENDS ConfigStore, Engines

CONSTANT MaxCrashes    \* bound: crashes per behaviour, so that they do end

ASSUME MaxCrashesAssumption == MaxCrashes \in Nat

VARIABLES
    adapter,    \* app.state.adapter and adapter_error, one engine record
    models,     \* app.state.available_models
    listing,    \* how the list_models() of this boot stands, see Listings
    restarting, \* a restart timer of this process is running
    crashes     \* number of crashes so far

driverVars == <<vars, adapter, models, listing, restarting, crashes>>

Unbuilt == NoEngine("none")

\* "asked": an operation on its connection is under way.  "late": the time
\* limit of that operation has been reached.
Listings == {"no", "asked", "late"}

\* The lifespan has yielded, requests are let in.
Serving == phase = "up" /\ listing = "no"

DriverTypeOK ==
    /\ TypeOK
    /\ adapter.ok \in BOOLEAN
    /\ adapter.ok <=> adapter.error = "none" /\ adapter.class # "none"
    /\ models \subseteq Text
    /\ ~adapter.ok => models = {}
    /\ listing \in Listings
    /\ listing # "no" => /\ phase = "up"
                        /\ adapter.class = "openai_compat_http"
                        /\ models = {}
    /\ restarting \in BOOLEAN
    /\ crashes \in 0..MaxCrashes

DriverInit ==
    /\ Init
    /\ adapter = Unbuilt
    /\ models = {}
    /\ listing = "no"
    /\ restarting = FALSE
    /\ crashes = 0

\* The supervisor boots in safe mode after a boot that failed, and normally
\* after an exit (settings.py: "when a previous boot failed").
SupervisedLaunch ==
    /\ \E boot \in Boots : /\ boot.safe <=> phase = "failed"
                           /\ Launch(boot)
    /\ UNCHANGED <<adapter, models, listing, restarting, crashes>>

WriteFirstFile ==
    /\ CreateFile \/ CreateFileFails
    /\ UNCHANGED <<adapter, models, listing, restarting, crashes>>

\* _lifespan up to its await: load, build the engine if not in safe mode, ask
\* it for its models.  Only an HTTP engine has to wait for them.
StartUp ==
    /\ Lifespan
    /\ adapter' = IF safe THEN NoEngine("safe mode") ELSE BuildEngine(values')
    /\ models' = ListModels(adapter', {})
    /\ listing' = IF adapter'.class = "openai_compat_http" THEN "asked" ELSE "no"
    /\ UNCHANGED <<restarting, crashes>>

\* The catalogue has come, or anything else that list_models makes [] of.
ModelsListed ==
    /\ listing = "asked"
    /\ listing' = "no"
    /\ \E catalogue \in Catalogues : models' = ListModels(adapter, catalogue)
    /\ UNCHANGED <<vars, adapter, restarting, crashes>>

\* Nothing happens on the connection for as long as one operation may take.
ListingWaits ==
    /\ listing = "asked"
    /\ listing' = "late"
    /\ UNCHANGED <<vars, adapter, models, restarting, crashes>>

\* At the last moment a piece comes: the next operation has its own limit.
ListingProgresses ==
    /\ listing = "late"
    /\ listing' = "asked"
    /\ UNCHANGED <<vars, adapter, models, restarting, crashes>>

\* httpx.TimeoutException: list_models returns [], the lifespan yields.
ListingTimesOut ==
    /\ listing = "late"
    /\ listing' = "no"
    /\ UNCHANGED <<vars, adapter, models, restarting, crashes>>

\* The lifespan raises before there is an engine.
StartUpFails ==
    /\ LifespanFails
    /\ UNCHANGED <<adapter, models, listing, restarting, crashes>>

\* No PATCH touches the engine: every field requires a restart.
HandlePatch ==
    /\ listing = "no"
    /\ \/ \E patch \in Patches :
            PatchRejected(patch) \/ Patch(patch) \/ PatchCannotOpen(patch)
       \/ Save
       \/ SaveFails
    /\ UNCHANGED <<adapter, models, listing, restarting, crashes>>

\* POST /v1/admin/restart arms a timer and answers 202.
RequestRestart ==
    /\ Serving
    /\ restarting' = TRUE
    /\ UNCHANGED <<vars, adapter, models, listing, crashes>>

ForgetEngine ==
    /\ adapter' = Unbuilt
    /\ models' = {}
    /\ listing' = "no"
    /\ restarting' = FALSE

\* The timer's callback, os._exit(0), runs on the event loop: never inside
\* apply_patch, which does not await.
TimerExit ==
    /\ restarting
    /\ phase = "up"
    /\ Crash
    /\ ForgetEngine
    /\ UNCHANGED crashes

\* A kill from outside, at any point.
KillProcess ==
    /\ crashes < MaxCrashes
    /\ Crash
    /\ ForgetEngine
    /\ crashes' = crashes + 1

DriverNext ==
    \/ SupervisedLaunch
    \/ WriteFirstFile
    \/ StartUp
    \/ StartUpFails
    \/ ModelsListed
    \/ ListingWaits
    \/ ListingProgresses
    \/ ListingTimesOut
    \/ HandlePatch
    \/ RequestRestart
    \/ TimerExit
    \/ KillProcess

\* A started process runs on to its next await, a handler that has begun ends,
\* an armed timer fires, and a supervisor relaunches what has exited.  Timers
\* compete with requests on the event loop, which runs what is due in order:
\* a PATCH in between delays the exit but does not prevent it.  While the
\* models are listed time passes and a timeout that is due fires, unless a
\* piece of the catalogue comes first; the backend owes nothing.
Fairness ==
    /\ WF_driverVars(SupervisedLaunch)
    /\ WF_driverVars(WriteFirstFile)
    /\ WF_driverVars(StartUp \/ StartUpFails)
    /\ WF_driverVars(ListingWaits)
    /\ WF_driverVars(ListingTimesOut)
    /\ WF_driverVars(HandlePatch /\ phase = "saving")
    /\ SF_driverVars(TimerExit)

DriverSpec == DriverInit /\ [][DriverNext]_driverVars

FairDriverSpec == DriverSpec /\ Fairness

-----------------------------------------------------------------------------
(***************************************************************************)
(* Properties.                                                             *)
(***************************************************************************)

\* When pendingRestart is empty, a restart would change nothing: the engine
\* that serves requests is the one the next boot builds from the file.
NothingPendingMeansCurrent ==
    phase = "up" /\ ~safe /\ pending = {} =>
        adapter = BuildEngine(Load(disk, masterKey))

\* What makes it inductive: the engine is the one the lifespan built from the
\* values it loaded, and a write that failed has left keys pending.
CurrentInv ==
    /\ phase \in {"up", "saving"} /\ ~safe => adapter = BuildEngine(booted)
    /\ lastWrite = "failed" => pending # {}

\* What an engine is built from besides the model.
ConnectionKeys == {"provider", "baseUrl", "apiKey", "requestTimeoutSeconds"}

\* The values that the next boot with this master key loads, if `choice` is
\* PATCHed now.
NextBoot(choice) == Load(Encode(Patched(values, choice), masterKey), masterKey)

\* openai_compat_http.py:296: list_models filters out models the deny pattern
\* "would refuse".  Picking one of the dropdown and restarting does not lead
\* into degraded mode, whatever was patched, as long as no key of the
\* connection is pending; the list is not renewed until the restart, so after
\* a change of provider it is the old provider's and promises nothing.
ListedModelsBuild ==
    phase = "up" /\ pending \cap ConnectionKeys = {} =>
        \A m \in models : BuildEngine(NextBoot([modelId |-> Str(m)])).ok

\* GET /v1/info, put together from the store (provider) and the engine
\* (backend), names a backend its provider runs on, as long as an engine is
\* live and no change of provider is pending, whatever else has been patched.
InfoFitsProvider ==
    LET info == Info(values, adapter)
    IN  phase = "up" /\ adapter.ok /\ "provider" \notin pending =>
            info.backend = RegistryBackend(PROVIDERS[info.provider.str])

\* POST /v1/config/test predicts: a body without nulls that a PATCH would
\* accept in full is tested with the engine that a PATCH with that body and a
\* restart would run, whatever was patched before and not yet restarted.
TestPredictsRestart ==
    phase = "up" => \A patch \in Patches :
        Applied(patch) = DOMAIN patch /\ (\A k \in DOMAIN patch : patch[k] # None)
        => BuildEngine(TestConfig(values, patch)) =
               BuildEngine(Patched(values, patch))

\* A boot that failed does not lock the operator out: the supervisor's safe
\* mode brings the configuration endpoints up, whatever the file holds.
FailedBootRecovers == phase = "failed" ~> Serving

\* A boot that never serves, because its backend feeds the listing for ever
\* with a piece before each timeout.
ListingIsFed ==
    <>[](listing # "no") /\ []<><<ListingProgresses>>_driverVars

Contents ==
    {Patched(content, patch) :
        content \in {Defaults} \union {TrueContent(f) : f \in InitialFiles},
        patch \in Patches}

\* A working configuration that is on disk when a restart is requested is
\* what the driver serves with next, also when the repair was made in safe
\* mode, unless the file is changed again first or the new boot's listing is
\* fed for ever.
RepairTakesEffect ==
    \A v \in {c \in Contents : BuildEngine(c).ok} :
        \/ phase = "up" /\ restarting /\ Synced /\ TrueContent(disk) = v
           ~> \/ Serving /\ ~safe /\ adapter = BuildEngine(v)
              \/ TrueContent(disk) # v
        \/ ListingIsFed

\* providers.py:66-70: the base URL is "Only used by the Custom" provider, for
\* named providers "the URL is built in".
NamedProviderUrl ==
    phase = "up" /\ adapter.ok /\ PROVIDERS[booted["provider"].str].url # None =>
        adapter.url = PROVIDERS[booted["provider"].str].url
=============================================================================

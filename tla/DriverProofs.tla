---------------------------- MODULE DriverProofs ----------------------------
(***************************************************************************)
(* Proofs about Driver.  The composition takes no step of the store that   *)
(* ConfigStore does not allow, so the theorems about the store hold of the *)
(* driver under its supervisor too; the engine's agreement with the file    *)
(* is put together from them.                                              *)
(***************************************************************************)
EXTENDS Driver, ConfigStoreProofs

\* What happens while the models of a boot are listed.
ListingStep ==
    ModelsListed \/ ListingWaits \/ ListingProgresses \/ ListingTimesOut

LEMMA ListingLeavesTheStore == ListingStep => UNCHANGED <<vars, adapter>>
  BY DEF ListingStep, ModelsListed, ListingWaits, ListingProgresses,
         ListingTimesOut

LEMMA DriverStepIsStoreStep == [DriverNext]_driverVars => [Next]_vars
<1> SUFFICES ASSUME [DriverNext]_driverVars
             PROVE  [Next]_vars
  OBVIOUS
<1>1. CASE UNCHANGED driverVars
  BY <1>1 DEF driverVars
<1>2. CASE SupervisedLaunch
  BY <1>2 DEF SupervisedLaunch, Next
<1>3. CASE WriteFirstFile
  BY <1>3 DEF WriteFirstFile, Next
<1>4. CASE StartUp \/ StartUpFails
  BY <1>4 DEF StartUp, StartUpFails, Next
<1>5. CASE HandlePatch
  BY <1>5 DEF HandlePatch, Next
<1>6. CASE RequestRestart
  BY <1>6 DEF RequestRestart
<1>7. CASE TimerExit \/ KillProcess
  BY <1>7 DEF TimerExit, KillProcess, Next
<1>8. CASE ListingStep
  BY <1>8, ListingLeavesTheStore
<1> QED
  BY <1>1, <1>2, <1>3, <1>4, <1>5, <1>6, <1>7, <1>8 DEF DriverNext, ListingStep

\* The driver under its supervisor is a configuration store: restart timer,
\* safe-mode policy and engine only choose among the store's steps.
THEOREM DriverImplementsStore == DriverSpec => Spec
<1>1. DriverInit => Init
  BY DEF DriverInit
<1> QED
  BY <1>1, DriverStepIsStoreStep, PTL DEF DriverSpec, Spec

-----------------------------------------------------------------------------
\* A write that fails is one of a PATCH that was applied, every key of which
\* needs a restart.
LEMMA AppliedIsPending ==
    \A patch : NeedRestart(Applied(patch)) = Applied(patch)
  BY EveryFieldNeedsRestart DEF NeedRestart, Applied

\* While a PATCH is being saved something is pending: CurrentInv needs it for
\* SaveFails.
SavingIsPending == phase = "saving" => pending # {}

LEMMA NextCurrentInv ==
    TypeOK /\ CurrentInv /\ SavingIsPending /\ [DriverNext]_driverVars
        => CurrentInv' /\ SavingIsPending'
<1> SUFFICES ASSUME TypeOK, CurrentInv, SavingIsPending,
                    [DriverNext]_driverVars
             PROVE  CurrentInv' /\ SavingIsPending'
  OBVIOUS
<1> USE DEF CurrentInv, SavingIsPending
<1>1. CASE UNCHANGED driverVars
  BY <1>1 DEF driverVars, vars
<1>2. CASE SupervisedLaunch
  BY <1>2 DEF SupervisedLaunch, Launch, LaunchSafe, LaunchReading,
              LaunchUnreadable, LaunchCreating, FreshMemory
<1>3. CASE WriteFirstFile
  BY <1>3 DEF WriteFirstFile, CreateFile, CreateFileFails
<1>4. CASE StartUp
  BY <1>4 DEF StartUp, Lifespan
<1>5. CASE StartUpFails
  BY <1>5 DEF StartUpFails, LifespanFails
<1>6. CASE HandlePatch
  <2>1. ASSUME NEW patch \in Patches, PatchRejected(patch)
        PROVE  CurrentInv' /\ SavingIsPending'
    BY <1>6, <2>1 DEF HandlePatch, PatchRejected
  <2>2. ASSUME NEW patch \in Patches, Patch(patch)
        PROVE  CurrentInv' /\ SavingIsPending'
    BY <1>6, <2>2, AppliedIsPending DEF HandlePatch, Patch
  <2>3. ASSUME NEW patch \in Patches, PatchCannotOpen(patch)
        PROVE  CurrentInv' /\ SavingIsPending'
    BY <1>6, <2>3, AppliedIsPending DEF HandlePatch, PatchCannotOpen
  <2>4. CASE Save
    BY <1>6, <2>4 DEF HandlePatch, Save
  <2>5. CASE SaveFails
    BY <1>6, <2>5 DEF HandlePatch, SaveFails
  <2> QED
    BY <1>6, <2>1, <2>2, <2>3, <2>4, <2>5 DEF HandlePatch
<1>7. CASE RequestRestart
  BY <1>7 DEF RequestRestart, vars
<1>8. CASE TimerExit \/ KillProcess
  BY <1>8 DEF TimerExit, KillProcess, Crash, FreshMemory
<1>9. CASE ListingStep
  BY <1>9, ListingLeavesTheStore DEF vars
<1> QED
  BY <1>1, <1>2, <1>3, <1>4, <1>5, <1>6, <1>7, <1>8, <1>9
     DEF DriverNext, ListingStep

\* Without drift, memory is what the engine was built from; without a failed
\* write it is also what the file restores.
LEMMA CurrentFollows ==
    TypeOK /\ CurrentInv /\ ReloadRestores /\ DriftIsPending
        => NothingPendingMeansCurrent
<1> SUFFICES ASSUME TypeOK, CurrentInv, ReloadRestores, DriftIsPending,
                    phase = "up", ~safe, pending = {}
             PROVE  adapter = BuildEngine(Load(disk, masterKey))
  BY DEF NothingPendingMeansCurrent
<1>1. values = booted
  BY DEF TypeOK, DriftIsPending
<1>2. Synced
  BY DEF Synced, CurrentInv, TypeOK
<1>3. Load(disk, masterKey) = values
  BY <1>2 DEF ReloadRestores
<1> QED
  BY <1>1, <1>3 DEF CurrentInv

\* An empty pendingRestart means that the engine serving requests is the one
\* the next boot builds from the file, whatever the environment, the
\* catalogues, the PATCHes and the history of crashes.
THEOREM EngineIsCurrent == DriverSpec => []NothingPendingMeansCurrent
<1>1. DriverInit => CurrentInv /\ SavingIsPending
  BY DEF DriverInit, Init, CurrentInv, SavingIsPending
<1>2. DriverSpec => [](TypeOK /\ ReloadRestores /\ DriftIsPending)
  BY DriverImplementsStore, TypeCorrect, ReloadCorrect, DriftCorrect, PTL
<1> QED
  BY <1>1, <1>2, NextCurrentInv, CurrentFollows, PTL DEF DriverSpec

-----------------------------------------------------------------------------
\* A body that a PATCH accepts in full and that has no null means the same to
\* config/test and to a PATCH, so both lead to the same engine.
THEOREM TestIsFaithful == DriverSpec => []TestPredictsRestart
<1>1. ASSUME NEW patch, Applied(patch) = DOMAIN patch,
             \A k \in DOMAIN patch : patch[k] # None
      PROVE  TestConfig(values, patch) = Patched(values, patch)
  BY <1>1 DEF TestConfig, Patched
<1>2. TestPredictsRestart
  BY <1>1 DEF TestPredictsRestart
<1> QED
  BY <1>2, PTL

-----------------------------------------------------------------------------
LEMMA ProviderEngines ==
    \A p \in DOMAIN PROVIDERS :
        PROVIDERS[p].engine \in
            {"claude_code_cli", "codex_cli", "openai_compat_http"}
  BY DEF PROVIDERS, CliProvider, HttpProvider, CompatProvider

LEMMA CliBackend ==
  ASSUME NEW class, NEW get, NEW pathKey, CliEngine(class, get, pathKey).ok
  PROVE  CliEngine(class, get, pathKey).backend = class
  BY DEF CliEngine, NoEngine, Engine

\* An engine that was built runs on the backend its provider names.
LEMMA BuiltBackend ==
  ASSUME NEW get, BuildEngine(get).ok
  PROVE  /\ get["provider"].str \in DOMAIN PROVIDERS
         /\ BuildEngine(get).backend =
               RegistryBackend(PROVIDERS[get["provider"].str])
<1> DEFINE provider == PROVIDERS[get["provider"].str]
<1>1. \A error : ~NoEngine(error).ok
  BY DEF NoEngine, Engine
<1>2. IsProvider(get["provider"])
  BY <1>1 DEF BuildEngine
<1>3. CASE provider.engine = "claude_code_cli"
  <2>1. BuildEngine(get) =
          CliEngine("claude_code_cli", get, "claudeCodeCliPath")
    BY <1>1, <1>2, <1>3 DEF BuildEngine
  <2>2. BuildEngine(get).backend = "claude_code_cli"
    BY <2>1, CliBackend
  <2> QED
    BY <1>2, <1>3, <2>2 DEF RegistryBackend, IsProvider
<1>4. CASE provider.engine = "codex_cli"
  <2>1. BuildEngine(get) = CliEngine("codex_cli", get, "codexCliPath")
    BY <1>1, <1>2, <1>4 DEF BuildEngine
  <2>2. BuildEngine(get).backend = "codex_cli"
    BY <2>1, CliBackend
  <2> QED
    BY <1>2, <1>4, <2>2 DEF RegistryBackend, IsProvider
<1>5. CASE provider.engine = "openai_compat_http"
  <2>1. BuildEngine(get) = HttpEngine(provider, get)
    BY <1>1, <1>2, <1>5 DEF BuildEngine
  <2> HIDE DEF provider
  <2>2. HttpEngine(provider, get).ok =>
          HttpEngine(provider, get).backend = provider.backend_kind
    BY <1>1 DEF HttpEngine, Engine
  <2> QED
    BY <1>2, <1>5, <2>1, <2>2 DEF provider, RegistryBackend, IsProvider
<1> QED
  BY <1>2, <1>3, <1>4, <1>5, ProviderEngines DEF IsProvider

\* Another model does not keep an engine from being built, as long as its
\* connection stays the same and the deny pattern lets the model through.
LEMMA OtherModelBuilds ==
  ASSUME NEW get, NEW other, NEW m, BuildEngine(get).ok,
         \A k \in ConnectionKeys : other[k] = get[k],
         other["modelId"] = Str(m),
         BuildEngine(get).denies => m \notin DeniedModels
  PROVE  BuildEngine(other).ok
<1> DEFINE provider == PROVIDERS[get["provider"].str]
<1>1. /\ other["provider"] = get["provider"]
      /\ other["baseUrl"] = get["baseUrl"]
      /\ other["apiKey"] = get["apiKey"]
      /\ other["requestTimeoutSeconds"] = get["requestTimeoutSeconds"]
      /\ other["modelId"] = Str(m)
  BY DEF ConnectionKeys
<1>3. \A error : ~NoEngine(error).ok
  BY DEF NoEngine, Engine
<1>4. /\ IsProvider(get["provider"]) /\ Truthy(get["provider"])
      /\ other["provider"] = get["provider"]
  BY <1>1, <1>3 DEF BuildEngine
<1>5. ASSUME NEW class, NEW pathKey, CliEngine(class, get, pathKey).ok
      PROVE  CliEngine(class, other, pathKey).ok
  BY <1>1, <1>3, <1>5 DEF CliEngine, Engine
<1>6. CASE provider.engine = "claude_code_cli"
  <2>1. /\ BuildEngine(get) = CliEngine("claude_code_cli", get, "claudeCodeCliPath")
        /\ BuildEngine(other) = CliEngine("claude_code_cli", other, "claudeCodeCliPath")
    BY <1>4, <1>6 DEF BuildEngine
  <2> QED
    BY <1>5, <2>1
<1>7. CASE provider.engine = "codex_cli"
  <2>1. /\ BuildEngine(get) = CliEngine("codex_cli", get, "codexCliPath")
        /\ BuildEngine(other) = CliEngine("codex_cli", other, "codexCliPath")
    BY <1>4, <1>7 DEF BuildEngine
  <2> QED
    BY <1>5, <2>1
<1>8. CASE provider.engine = "openai_compat_http"
  <2>1. BuildEngine(get) = HttpEngine(provider, get)
    BY <1>4, <1>8 DEF BuildEngine
  <2>2. BuildEngine(other) = HttpEngine(provider, other)
    BY <1>4, <1>8 DEF BuildEngine
  <2> HIDE DEF provider
  <2>3. /\ Truthy(BaseUrl(provider, get)) /\ Truthy(ApiKey(get))
        /\ IsFloat(get["requestTimeoutSeconds"])
        /\ HttpEngine(provider, get).denies = provider.denies
    BY <1>3, <2>1 DEF HttpEngine, Engine
  <2>4. /\ BaseUrl(provider, other) = BaseUrl(provider, get)
        /\ ApiKey(other) = ApiKey(get)
        /\ other["requestTimeoutSeconds"] = get["requestTimeoutSeconds"]
    BY <1>1 DEF BaseUrl, ApiKey
  <2>5. ~(provider.denies /\ HttpModel(other).str \in DeniedModels)
    BY <1>1, <2>1, <2>3
       DEF HttpModel, Or, Truthy, Str, DeniedModels
  <2>6. HttpEngine(provider, other) =
          Engine("openai_compat_http", provider.backend_kind, None,
                 BaseUrl(provider, other), ApiKey(other), HttpModel(other),
                 AsFloat(other["requestTimeoutSeconds"]), provider.denies)
    BY <2>3, <2>4, <2>5 DEF HttpEngine
  <2>7. HttpEngine(provider, other).ok
    BY <2>6 DEF Engine
  <2> QED
    BY <2>2, <2>7
<1> QED
  BY <1>4, <1>6, <1>7, <1>8, ProviderEngines DEF IsProvider

-----------------------------------------------------------------------------
\* What makes ListedModelsBuild inductive: there is an engine only in a
\* process that was booted without safe mode, it is the one of `booted`, and
\* the list is the engine's, which only an HTTP engine has to wait for.
EngineInv ==
    /\ adapter.ok => phase \in {"up", "saving"} /\ ~safe
    /\ listing # "no" => /\ phase = "up"
                        /\ adapter.class = "openai_compat_http"
                        /\ models = {}
    /\ \A m \in models : adapter.ok /\ (adapter.denies => m \notin DeniedModels)

LEMMA NoEngineHasNoModels ==
    \A error, catalogue :
        ~NoEngine(error).ok /\ ListModels(NoEngine(error), catalogue) = {}
  BY DEF NoEngine, Engine, ListModels

LEMMA HttpListsNothingYet ==
  ASSUME NEW engine, engine.class = "openai_compat_http"
  PROVE  ListModels(engine, {}) = {}
  BY DEF ListModels

LEMMA CliDeniesNothing ==
  ASSUME NEW class, NEW get, NEW pathKey
  PROVE  ~CliEngine(class, get, pathKey).denies
  BY DEF CliEngine, NoEngine, Engine

LEMMA ListedIsNotDenied ==
  ASSUME NEW engine, NEW catalogue, NEW m \in ListModels(engine, catalogue),
         engine.class \in {"claude_code_cli", "codex_cli"} => ~engine.denies
  PROVE  engine.ok /\ (engine.denies => m \notin DeniedModels)
  BY DEF ListModels

LEMMA BuiltDenies ==
  ASSUME NEW get
  PROVE  BuildEngine(get).class \in {"claude_code_cli", "codex_cli"}
             => ~BuildEngine(get).denies
<1>1. \A error : ~NoEngine(error).denies
  BY DEF NoEngine, Engine
<1>2. ASSUME NEW provider
      PROVE  HttpEngine(provider, get).class
                 \in {"openai_compat_http", "none"}
  BY DEF HttpEngine, NoEngine, Engine
<1> QED
  BY <1>1, <1>2, CliDeniesNothing DEF BuildEngine

LEMMA NextEngineInv == EngineInv /\ [DriverNext]_driverVars => EngineInv'
<1> SUFFICES ASSUME EngineInv, [DriverNext]_driverVars PROVE EngineInv'
  OBVIOUS
<1> USE DEF EngineInv
<1>1. CASE UNCHANGED driverVars
  BY <1>1 DEF driverVars, vars
<1>2. CASE SupervisedLaunch
  <2>1. NotRunning
    BY <1>2 DEF SupervisedLaunch, Launch, LaunchSafe, LaunchReading,
                LaunchUnreadable, LaunchCreating
  <2> QED
    BY <1>2, <2>1 DEF SupervisedLaunch, NotRunning
<1>3. CASE WriteFirstFile \/ StartUpFails
  BY <1>3 DEF WriteFirstFile, CreateFile, CreateFileFails, StartUpFails,
              LifespanFails
<1>4. CASE StartUp
  <2>1. models' = ListModels(adapter', {})
    BY <1>4 DEF StartUp
  <2>2. phase' = "up" /\ safe' = safe
    BY <1>4 DEF StartUp, Lifespan
  <2>3. listing' # "no" => /\ adapter'.class = "openai_compat_http"
                           /\ models' = {}
    BY <1>4, <2>1, HttpListsNothingYet DEF StartUp
  <2>4. CASE safe
    BY <1>4, <2>1, <2>2, <2>3, <2>4, NoEngineHasNoModels DEF StartUp
  <2>5. CASE ~safe
    <3>1. adapter' = BuildEngine(values')
      BY <1>4, <2>5 DEF StartUp
    <3>2. adapter'.class \in {"claude_code_cli", "codex_cli"}
              => ~adapter'.denies
      BY <3>1, BuiltDenies
    <3> QED
      BY <2>1, <2>2, <2>3, <2>5, <3>2, ListedIsNotDenied
  <2> QED
    BY <2>4, <2>5
<1>5. CASE HandlePatch
  BY <1>5 DEF HandlePatch, PatchRejected, Patch, PatchCannotOpen, Save,
              SaveFails
<1>6. CASE RequestRestart
  BY <1>6 DEF RequestRestart, vars
<1>7. CASE TimerExit \/ KillProcess
  <2>1. adapter' = Unbuilt /\ models' = {} /\ listing' = "no"
    BY <1>7 DEF TimerExit, KillProcess, ForgetEngine
  <2> QED
    BY <2>1, NoEngineHasNoModels DEF Unbuilt
<1>8. CASE ModelsListed
  <2>1. PICK catalogue \in Catalogues : models' = ListModels(adapter, catalogue)
    BY <1>8 DEF ModelsListed
  <2>2. /\ adapter.class = "openai_compat_http"
        /\ adapter' = adapter /\ phase' = phase /\ safe' = safe
        /\ listing' = "no"
    BY <1>8 DEF ModelsListed, vars
  <2> QED
    BY <2>1, <2>2, ListedIsNotDenied
<1>9. CASE ListingWaits \/ ListingProgresses \/ ListingTimesOut
  BY <1>9 DEF ListingWaits, ListingProgresses, ListingTimesOut, vars
<1> QED
  BY <1>1, <1>2, <1>3, <1>4, <1>5, <1>6, <1>7, <1>8, <1>9 DEF DriverNext

LEMMA EngineInvCorrect ==
    DriverSpec => [](TypeOK /\ CurrentInv /\ DriftIsPending /\ EngineInv)
<1>1. DriverInit => CurrentInv /\ SavingIsPending /\ EngineInv
  BY NoEngineHasNoModels
     DEF DriverInit, Init, CurrentInv, SavingIsPending, EngineInv, Unbuilt
<1>2. DriverSpec => [](TypeOK /\ DriftIsPending)
  BY DriverImplementsStore, TypeCorrect, DriftCorrect, PTL
<1> QED
  BY <1>1, <1>2, NextCurrentInv, NextEngineInv, PTL DEF DriverSpec

-----------------------------------------------------------------------------
\* The parts of an engine record agree with each other.
Coherent(engine) ==
    /\ engine.ok \in BOOLEAN
    /\ engine.ok <=> engine.error = "none" /\ engine.class # "none"

LEMMA NoEngineCoherent == \A error : Coherent(NoEngine(error))
  BY DEF Coherent, NoEngine, Engine

LEMMA EngineCoherent ==
  ASSUME NEW class, class # "none", NEW backend, NEW binary, NEW url,
         NEW apiKey, NEW model, NEW timeout, NEW denies
  PROVE  Coherent(Engine(class, backend, binary, url, apiKey, model, timeout,
                         denies))
  BY DEF Coherent, Engine

LEMMA BuiltCoherent ==
  ASSUME NEW get
  PROVE  Coherent(BuildEngine(get))
<1>1. ASSUME NEW class, class # "none", NEW pathKey
      PROVE  Coherent(CliEngine(class, get, pathKey))
  BY <1>1, NoEngineCoherent, EngineCoherent DEF CliEngine
<1>2. ASSUME NEW provider
      PROVE  Coherent(HttpEngine(provider, get))
  BY NoEngineCoherent, EngineCoherent DEF HttpEngine
<1>3. /\ Coherent(CliEngine("claude_code_cli", get, "claudeCodeCliPath"))
      /\ Coherent(CliEngine("codex_cli", get, "codexCliPath"))
  BY <1>1
<1> QED
  BY <1>2, <1>3, NoEngineCoherent DEF BuildEngine

\* What a driver offers are names, whatever catalogue it was answered with.
LEMMA ListedAreTexts ==
  ASSUME NEW engine, NEW catalogue \in Catalogues
  PROVE  ListModels(engine, catalogue) \subseteq Text
  BY KnownModelsAssumption, CataloguesAssumption DEF ListModels

\* The driver's own part of its type.
EngineTyped ==
    /\ Coherent(adapter)
    /\ models \subseteq Text
    /\ listing \in Listings
    /\ restarting \in BOOLEAN
    /\ crashes \in 0..MaxCrashes

LEMMA NextEngineTyped == EngineTyped /\ [DriverNext]_driverVars => EngineTyped'
<1> SUFFICES ASSUME EngineTyped, [DriverNext]_driverVars PROVE EngineTyped'
  OBVIOUS
<1> USE DEF EngineTyped
<1>1. CASE UNCHANGED driverVars
  BY <1>1 DEF driverVars, Coherent
<1>2. CASE SupervisedLaunch \/ WriteFirstFile \/ StartUpFails \/ HandlePatch
  BY <1>2 DEF SupervisedLaunch, WriteFirstFile, StartUpFails, HandlePatch,
              Coherent
<1>3. CASE StartUp
  <2>1. Coherent(adapter')
    BY <1>3, NoEngineCoherent, BuiltCoherent DEF StartUp
  <2>2. models' \subseteq Text
    BY <1>3, ListedAreTexts, CataloguesAssumption DEF StartUp
  <2>3. listing' \in Listings
    BY <1>3 DEF StartUp, Listings
  <2> QED
    BY <1>3, <2>1, <2>2, <2>3 DEF StartUp, Coherent
<1>4. CASE RequestRestart
  BY <1>4 DEF RequestRestart, Coherent
<1>5. CASE TimerExit \/ KillProcess
  <2>1. /\ Coherent(adapter') /\ models' = {} /\ restarting' = FALSE
        /\ listing' \in Listings
    BY <1>5, NoEngineCoherent
       DEF TimerExit, KillProcess, ForgetEngine, Unbuilt, Listings
  <2>2. crashes' \in 0..MaxCrashes
    BY <1>5, MaxCrashesAssumption DEF TimerExit, KillProcess
  <2> QED
    BY <2>1, <2>2 DEF Coherent
<1>6. CASE ModelsListed
  BY <1>6, ListedAreTexts DEF ModelsListed, Listings, Coherent
<1>7. CASE ListingWaits \/ ListingProgresses \/ ListingTimesOut
  BY <1>7 DEF ListingWaits, ListingProgresses, ListingTimesOut, Listings,
              Coherent
<1> QED
  BY <1>1, <1>2, <1>3, <1>4, <1>5, <1>6, <1>7 DEF DriverNext

LEMMA EngineTypedCorrect == DriverSpec => []EngineTyped
<1>1. DriverInit => EngineTyped
  <2> SUFFICES ASSUME DriverInit PROVE EngineTyped
    OBVIOUS
  <2>1. Coherent(adapter)
    BY NoEngineCoherent DEF DriverInit, Unbuilt, Coherent
  <2>2. crashes \in 0..MaxCrashes
    BY MaxCrashesAssumption DEF DriverInit
  <2> QED
    BY <2>1, <2>2 DEF DriverInit, EngineTyped, Listings
<1> QED
  BY <1>1, NextEngineTyped, PTL DEF DriverSpec

-----------------------------------------------------------------------------
\* The choice of a model moves nothing but the model, in memory and in what
\* the next boot loads.
LEMMA ChoiceIsLoaded ==
  ASSUME TypeOK, NEW m \in Text
  PROVE  /\ NextBoot([modelId |-> Str(m)])["modelId"] = Str(m)
         /\ \A k \in Key \ {"modelId"} :
                NextBoot([modelId |-> Str(m)])[k] = values[k]
<1> DEFINE choice == [modelId |-> Str(m)]
<1>1. choice = [k \in {"modelId"} |-> Str(m)]
  OBVIOUS
<1>2. Str(m) \in Value /\ Str(m) # None
  BY TextAssumption DEF Str, Value, None
<1>3. IsPartialMap(choice, Value)
  BY <1>1, <1>2 DEF IsPartialMap
<1>4. FIELDS["modelId"].valueType = "string"
  BY DEF FIELDS, Field
<1>5. Valid(FIELDS["modelId"], Str(m))
  BY <1>4 DEF Valid, Str
<1>6. Applied(choice) = {"modelId"}
  BY <1>1, <1>5, KeyNames DEF Applied
<1>7. NextBoot(choice) = Patched(values, choice)
  BY <1>3, PatchedType, MasterKeyType, LoadInvertsEncode DEF NextBoot, TypeOK
<1>8. "modelId" \in Key
  BY KeyNames
<1> QED
  BY <1>1, <1>2, <1>6, <1>7, <1>8 DEF Patched

\* While no key of the connection is pending, every model the driver offers is
\* one that the next boot builds an engine with when it is picked, for every
\* catalogue a backend may answer with and whatever else was patched.
THEOREM ListedModelsAreSafe == DriverSpec => []ListedModelsBuild
<1>1. TypeOK /\ CurrentInv /\ DriftIsPending /\ EngineInv /\ EngineTyped
        => ListedModelsBuild
  <2> SUFFICES ASSUME TypeOK, CurrentInv, DriftIsPending, EngineInv, EngineTyped,
                      phase = "up", pending \cap ConnectionKeys = {},
                      NEW m \in models
               PROVE  BuildEngine(NextBoot([modelId |-> Str(m)])).ok
    BY DEF ListedModelsBuild
  <2> DEFINE next == NextBoot([modelId |-> Str(m)])
  <2>1. /\ BuildEngine(booted).ok
        /\ BuildEngine(booted).denies => m \notin DeniedModels
    BY DEF EngineInv, CurrentInv
  <2>2. ConnectionKeys \subseteq Key \ {"modelId"}
    BY KeyNames DEF ConnectionKeys
  <2>3. \A k \in ConnectionKeys : values[k] = booted[k]
    BY <2>2 DEF DriftIsPending
  <2>4. m \in Text
    BY DEF EngineTyped
  <2>5. /\ next["modelId"] = Str(m)
        /\ \A k \in ConnectionKeys : next[k] = booted[k]
    BY <2>2, <2>3, <2>4, ChoiceIsLoaded
  <2> HIDE DEF next
  <2>6. BuildEngine(next).ok
    BY <2>1, <2>5, OtherModelBuilds
  <2> QED
    BY <2>6 DEF next
<1>2. DriverSpec => []EngineTyped
  BY EngineTypedCorrect
<1> QED
  BY <1>1, <1>2, EngineInvCorrect, PTL

\* /v1/info is consistent as long as no change of provider is pending.
THEOREM InfoIsConsistent == DriverSpec => []InfoFitsProvider
<1>1. CurrentInv /\ EngineInv /\ DriftIsPending => InfoFitsProvider
  <2> SUFFICES ASSUME CurrentInv, EngineInv, DriftIsPending, phase = "up",
                      adapter.ok, "provider" \notin pending
               PROVE  Info(values, adapter).backend = RegistryBackend(
                        PROVIDERS[Info(values, adapter).provider.str])
    BY DEF InfoFitsProvider
  <2>1. adapter = BuildEngine(booted)
    BY DEF EngineInv, CurrentInv
  <2>2. "provider" \in Key
    BY DEF Key, FIELDS
  <2>3. values["provider"] = booted["provider"]
    BY <2>2 DEF DriftIsPending
  <2>4. adapter.backend = RegistryBackend(PROVIDERS[booted["provider"].str])
    BY <2>1, BuiltBackend
  <2> QED
    BY <2>3, <2>4 DEF Info
<1> QED
  BY <1>1, EngineInvCorrect, PTL

\* The driver keeps its types: the file stays one of the three kinds, an
\* engine's parts agree with each other, and a driver that is degraded offers
\* no models.
THEOREM DriverTypeCorrect == DriverSpec => []DriverTypeOK
<1>1. TypeOK /\ EngineInv /\ EngineTyped => DriverTypeOK
  BY DEF EngineInv, EngineTyped, Coherent, DriverTypeOK
<1> QED
  BY <1>1, EngineTypedCorrect, EngineInvCorrect, PTL
=============================================================================

------------------------------- MODULE Engines ------------------------------
(***************************************************************************)
(* Building an engine from a configuration (build_engine_with in app.py,   *)
(* from_config and the constructors of engines/*.py) and what the built     *)
(* engine says of itself.  Constant-level: `get` is a function from config *)
(* keys to values, and everything the environment supplies is a constant.  *)
(*                                                                         *)
(* Text has no surrounding white space (strip() is the identity on it).    *)
(***************************************************************************)
EXTENDS ConfigSchema

CONSTANTS
    EnvApiKey,   \* OPENAI_API_KEY of the process, None when it is not set
    Binaries,    \* the commands shutil.which finds, a set of strings
    Catalogues   \* what GET /v1/models of the backend may answer: sets of
                 \* model names; {} also stands for every failure

ASSUME EnvApiKeyAssumption == EnvApiKey \in Value
ASSUME BinariesAssumption == Binaries \subseteq Text
ASSUME CataloguesAssumption ==
    /\ Catalogues \subseteq SUBSET Text
    /\ {} \in Catalogues

-----------------------------------------------------------------------------
\* Classes of model names, each by a few members.
DeniedModels == {"o1", "gpt-5", "gpt-5.1"}
PlausibleModels == {"gpt-4o", "gpt-5", "gpt-5.1", "grok-3"}

KnownClaudeModels ==
    {"claude-opus-4-7", "claude-sonnet-4-7", "claude-haiku-4-5",
     "claude-opus-4", "claude-sonnet-4", "claude-3-5-sonnet-latest",
     "claude-3-5-haiku-latest"}
KnownCodexModels ==
    {"gpt-4o", "gpt-4o-mini", "gpt-4.1", "gpt-4.1-mini", "gpt-4-turbo"}

ASSUME KnownModelsAssumption ==
    KnownClaudeModels \union KnownCodexModels \subseteq Text

\* Text float() accepts, by one member.
FloatText == {"30"}

\* float(get(...) or 120) does not raise.
IsFloat(v) == v.type = "str" /\ v.str # EmptyText => v.str \in FloatText

AsFloat(v) ==
    IF ~Truthy(v) THEN Num(120) ELSE IF v = Str("30") THEN Num(30) ELSE v

\* As a timeout: no clock reaches it.
Endless(v) == v.type \in {"nan", "inf"}

-----------------------------------------------------------------------------
Engine(class, backend, binary, url, apiKey, model, timeout, denies) ==
    [ok |-> TRUE, error |-> "none", class |-> class, backend |-> backend,
     binary |-> binary, url |-> url, apiKey |-> apiKey, model |-> model,
     timeout |-> timeout, denies |-> denies]

\* adapter = None with the reason that goes into adapter_error.
NoEngine(error) ==
    [Engine("none", "none", None, None, None, None, None, FALSE)
        EXCEPT !.ok = FALSE, !.error = error]

CliEngine(class, get, pathKey) ==
    IF ~IsFloat(get["requestTimeoutSeconds"]) THEN NoEngine("bad timeout")
    ELSE Engine(class, class, Or(get[pathKey], FIELDS[pathKey].default), None,
                None, Or(get["modelId"], None),
                AsFloat(get["requestTimeoutSeconds"]), FALSE)

BaseUrl(provider, get) == Or(get["baseUrl"], provider.url)

ApiKey(get) == Or(get["apiKey"], EnvApiKey)

HttpModel(get) == Or(get["modelId"], Str("gpt-4o"))

\* A fault: the constructor's default backend_kind is never overridden.
HttpEngineOneKind(provider, get) ==
    IF ~Truthy(BaseUrl(provider, get)) THEN NoEngine("no base URL")
    ELSE IF ~IsFloat(get["requestTimeoutSeconds"]) THEN NoEngine("bad timeout")
    ELSE IF ~Truthy(ApiKey(get)) THEN NoEngine("no API key")
    ELSE IF provider.denies /\ HttpModel(get).str \in DeniedModels
         THEN NoEngine("denied model")
    ELSE Engine("openai_compat_http", "openai_compat_http", None,
                BaseUrl(provider, get), ApiKey(get), HttpModel(get),
                AsFloat(get["requestTimeoutSeconds"]), provider.denies)

\* The checks in the order from_config and __init__ make them.
HttpEngine(provider, get) ==
    IF ~Truthy(BaseUrl(provider, get)) THEN NoEngine("no base URL")
    ELSE IF ~IsFloat(get["requestTimeoutSeconds"]) THEN NoEngine("bad timeout")
    ELSE IF ~Truthy(ApiKey(get)) THEN NoEngine("no API key")
    ELSE IF provider.denies /\ HttpModel(get).str \in DeniedModels
         THEN NoEngine("denied model")
    ELSE Engine("openai_compat_http", provider.backend_kind, None,
                BaseUrl(provider, get), ApiKey(get), HttpModel(get),
                AsFloat(get["requestTimeoutSeconds"]), provider.denies)

IsProvider(v) == v.type = "str" /\ v.str \in DOMAIN PROVIDERS

BuildEngine(get) ==
    IF ~Truthy(get["provider"]) THEN NoEngine("no provider")
    ELSE IF ~IsProvider(get["provider"]) THEN NoEngine("unknown provider")
    ELSE LET provider == PROVIDERS[get["provider"].str]
         IN  CASE provider.engine = "claude_code_cli" ->
                    CliEngine("claude_code_cli", get, "claudeCodeCliPath")
               [] provider.engine = "codex_cli" ->
                    CliEngine("codex_cli", get, "codexCliPath")
               [] OTHER -> HttpEngine(provider, get)

\* The backend a provider runs on: that of the class its entry names.
RegistryBackend(provider) ==
    IF provider.engine = "openai_compat_http" THEN provider.backend_kind
    ELSE provider.engine

-----------------------------------------------------------------------------
\* A fault: list_models does not apply the deny pattern.
ListModelsUnfiltered(engine, catalogue) ==
    CASE ~engine.ok -> {}
      [] engine.ok /\ engine.class = "claude_code_cli" -> KnownClaudeModels
      [] engine.ok /\ engine.class = "codex_cli" -> KnownCodexModels
      [] OTHER -> catalogue \cap PlausibleModels

\* A fault: the list is made up without looking whether there is an engine.
ListModelsAlways(engine, catalogue) == KnownClaudeModels

\* list_models(): the CLIs answer from a constant, HTTP from the catalogue.
ListModels(engine, catalogue) ==
    CASE ~engine.ok -> {}
      [] engine.ok /\ engine.class = "claude_code_cli" -> KnownClaudeModels
      [] engine.ok /\ engine.class = "codex_cli" -> KnownCodexModels
      [] OTHER -> {m \in catalogue \cap PlausibleModels :
                      engine.denies => m \notin DeniedModels}

\* A fault: the overrides are laid over the defaults.
TestConfigOverDefaults(values, overrides) ==
    [k \in Key |-> IF k \in DOMAIN overrides /\ overrides[k] # None
                   THEN overrides[k] ELSE FIELDS[k].default]

\* POST /v1/config/test: overrides that are not null, on top of the store.
TestConfig(values, overrides) ==
    [k \in Key |-> IF k \in DOMAIN overrides /\ overrides[k] # None
                   THEN overrides[k] ELSE values[k]]

\* GET /v1/info: provider and model are the store's, backend the engine's,
\* or, without an engine, read from the registry entry's engine_kwargs.
NoInfo == [provider |-> None, backend |-> "503"]

Info(values, engine) ==
    IF engine.ok
    THEN [provider |-> values["provider"], backend |-> engine.backend]
    ELSE IF ~Truthy(values["provider"])
    THEN [provider |-> None, backend |-> "claude_code_cli"]
    ELSE IF ~IsProvider(values["provider"]) THEN NoInfo
    ELSE LET kind == PROVIDERS[values["provider"].str].backend_kind
         IN  [provider |-> values["provider"],
              backend  |-> IF kind = "none" THEN "openai_compat_http" ELSE kind]
=============================================================================

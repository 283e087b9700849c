---------------------------- MODULE ConfigSchema ----------------------------
(***************************************************************************)
(* The declared configuration of the hemisphere driver: the values a key   *)
(* can hold, the provider registry (providers.py), the field table that    *)
(* config.py builds from it, and the validation a PATCH applies per key.   *)
(* Constant-level: no variables.                                           *)
(*                                                                         *)
(* A value is a record with a dynamic type, because the store is dynamically*)
(* typed: the file and a PATCH body can put any YAML / JSON scalar under    *)
(* any key.  Text is never taken apart; floats are represented by integers, *)
(* the one float no bound can reject, NaN, and the infinite one, which the  *)
(* bounds reject but a file may hold.                                       *)
(***************************************************************************)
EXTENDS Integers

CONSTANTS
    Text,       \* the strings a value can be
    EmptyText   \* the empty one

ASSUME TextAssumption ==
    {EmptyText, "claude_subscription", "claude", "codex", "INFO"} \subseteq Text

Str(s) == [type |-> "str",  str |-> s,  num |-> 0]
Num(n) == [type |-> "num",  str |-> EmptyText, num |-> n]
NaN    == [type |-> "nan",  str |-> EmptyText, num |-> 0]
Inf    == [type |-> "inf",  str |-> EmptyText, num |-> 0]
None   == [type |-> "None", str |-> EmptyText, num |-> 0]

Value == [type : {"str", "num", "nan", "inf", "None"}, str : Text, num : Int]

\* Python truth, as the `get(key) or default` idiom of the engines uses it.
Truthy(v) ==
    \/ v.type = "str" /\ v.str # EmptyText
    \/ v.type = "num" /\ v.num # 0
    \/ v.type \in {"nan", "inf"}

Or(v, w) == IF Truthy(v) THEN v ELSE w

REDACTED == Str("<redacted>")

-----------------------------------------------------------------------------
(***************************************************************************)
(* Provider registry.  `backend_kind` is the engine_kwargs entry of that   *)
(* name ("none" where the registry passes no kwargs: the CLI providers),    *)
(* `url` is default_base_url, `denies` says whether a deny pattern is set. *)
(***************************************************************************)
CliProvider(engine) ==
    [engine |-> engine, backend_kind |-> "none", url |-> None, denies |-> FALSE]

HttpProvider(kind, url) ==
    [engine |-> "openai_compat_http", backend_kind |-> kind, url |-> url,
     denies |-> FALSE]

CompatProvider(url) == HttpProvider("openai_compat_http", url)

PROVIDERS ==
    [claude_subscription  |-> CliProvider("claude_code_cli"),
     chatgpt_subscription |-> CliProvider("codex_cli"),
     openai     |-> [HttpProvider("openai_api", Str("https://api.openai.com"))
                       EXCEPT !.denies = TRUE],
     xai            |-> CompatProvider(Str("https://api.x.ai")),
     openrouter     |-> CompatProvider(Str("https://openrouter.ai/api")),
     minimax        |-> CompatProvider(Str("https://api.minimax.io")),
     ollama_local   |-> CompatProvider(Str("http://127.0.0.1:11434")),
     lmstudio_local |-> CompatProvider(Str("http://127.0.0.1:1234")),
     openai_compat_custom |-> CompatProvider(None)]

-----------------------------------------------------------------------------
(***************************************************************************)
(* Field table.  `range` holds the minimum and maximum of a numeric field, *)
(* `enumValues` the strings an enum field allows.                          *)
(***************************************************************************)
Field(valueType, default) ==
    [valueType |-> valueType, default |-> default, enumValues |-> {},
     range |-> Int, sensitive |-> FALSE, requiresRestart |-> TRUE]

FIELDS ==
    [provider          |-> [Field("enum", Str("claude_subscription"))
                              EXCEPT !.enumValues = DOMAIN PROVIDERS],
     claudeCodeCliPath |-> Field("file_path", Str("claude")),
     codexCliPath      |-> Field("file_path", Str("codex")),
     apiKey            |-> [Field("secret", None) EXCEPT !.sensitive = TRUE],
     baseUrl           |-> Field("url", None),
     modelId           |-> Field("string", None),
     logLevel          |-> [Field("enum", Str("INFO")) EXCEPT !.enumValues =
                              {"DEBUG", "INFO", "WARNING", "ERROR"}],
     requestTimeoutSeconds |-> [Field("duration", Num(120))
                                  EXCEPT !.range = 5..900]]

Key == DOMAIN FIELDS

Sensitive(k) == FIELDS[k].sensitive

\* _defaults(): a key with no default is absent from the dict, which every
\* reader sees as None.
Defaults == [k \in Key |-> FIELDS[k].default]

\* `value < minimum` and `value > maximum` are both false of NaN.
InRange(field, v) == v.type = "nan" \/ v.num \in field.range

\* A fault: the redacted form is accepted as a secret.
ValidRedacted(field, v) ==
    \/ v = None
    \/ /\ field.valueType \in {"string", "url", "file_path", "secret"}
       /\ v.type = "str"
    \/ /\ field.valueType = "duration"
       /\ v.type \in {"num", "nan"}
       /\ InRange(field, v)
    \/ /\ field.valueType = "enum"
       /\ v.type = "str"
       /\ v.str \in field.enumValues

\* _validate_value: null is always accepted, everything else by value type.
Valid(field, v) ==
    \/ v = None
    \/ /\ field.valueType \in {"string", "url", "file_path"}
       /\ v.type = "str"
    \/ /\ field.valueType = "secret"
       /\ v.type = "str"
       /\ v # REDACTED
    \/ /\ field.valueType = "duration"
       /\ v.type \in {"num", "nan"}
       /\ InRange(field, v)
    \/ /\ field.valueType = "enum"
       /\ v.type = "str"
       /\ v.str \in field.enumValues

-----------------------------------------------------------------------------
(***************************************************************************)
(* What a PATCH body, a partial map from key names to values, does to the  *)
(* in-memory values: unknown and invalid keys are rejected one by one and  *)
(* the rest is applied; null resets a key to its default, if it has one.   *)
(***************************************************************************)
Applied(patch) == {k \in DOMAIN patch \cap Key : Valid(FIELDS[k], patch[k])}

Patched(values, patch) ==
    [k \in Key |->
        IF k \notin Applied(patch) THEN values[k]
        ELSE IF patch[k] = None THEN FIELDS[k].default
        ELSE patch[k]]

\* A fault: a new secret is taken not to need a restart.
NeedRestartUnlessSecret(keys) ==
    {k \in keys : FIELDS[k].requiresRestart /\ ~FIELDS[k].sensitive}

NeedRestart(keys) == {k \in keys : FIELDS[k].requiresRestart}

\* GET /v1/config: a sensitive value that is set shows as the literal
\* "<redacted>".
AsDocument(values) ==
    [k \in Key |-> IF Sensitive(k) /\ values[k] # None THEN REDACTED
                   ELSE values[k]]
=============================================================================

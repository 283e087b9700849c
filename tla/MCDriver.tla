------------------------------- MODULE MCDriver -----------------------------
(***************************************************************************)
(* Instances of Driver for TLC.                                            *)
(***************************************************************************)
EXTENDS Driver, TLC

CONSTANTS key1, sign1

AllText == STRING

Plain(v)       == [key |-> NoKey, val |-> v]
Sealed(v, key) == [key |-> key, val |-> v]
Mapping(m)     == [kind |-> "mapping", map |-> m]

FileAbsent     == [kind |-> "absent", map |-> EmptyMap]
FileUnreadable == [kind |-> "unreadable", map |-> EmptyMap]

FileOpenai == Mapping("provider" :> Plain(Str("openai"))
                   @@ "apiKey" :> Sealed(Str("sk-a"), key1))

\* Edited by hand: the engine cannot be built, the log level is unknown.
FileBadTimeout == Mapping("provider" :> Plain(Str("chatgpt_subscription"))
                       @@ "requestTimeoutSeconds" :> Plain(Str("2m")))
FileBadLogLevel == Mapping("logLevel" :> Plain(Str("verbose")))

\* The custom endpoint, with its base URL.
FileCustom == Mapping("provider" :> Plain(Str("openai_compat_custom"))
                   @@ "baseUrl" :> Plain(Str("http://vllm"))
                   @@ "apiKey" :> Sealed(Str("sk-a"), key1))

ToOpenai     == "provider" :> Str("openai")
ToCodex      == "provider" :> Str("chatgpt_subscription")
SetSecret    == "apiKey" :> Str("sk-b")
SetReasoning == "modelId" :> Str("gpt-5")
Rejected     == "provider" :> Str("gemini") @@ "port" :> Num(80)

KeyedEnv == [signing |-> sign1, service |-> FALSE, master |-> key1]

OneKeyBoots == {[safe |-> s, env |-> KeyedEnv] : s \in BOOLEAN}

\* One boot lost its signing key on the way.
AllBoots == OneKeyBoots \union
    {[safe |-> FALSE, env |-> [KeyedEnv EXCEPT !.signing = NoKey]]}

AllFiles  == {FileAbsent, FileUnreadable, FileOpenai, FileBadTimeout,
              FileBadLogLevel}
SomeFiles == {FileUnreadable, FileOpenai, FileBadTimeout}
NoFile == {FileAbsent}
CustomFile == {FileCustom}

AllPatches == {ToOpenai, ToCodex, SetSecret, SetReasoning, Rejected}
RepairPatches == {ToOpenai, SetSecret}
ProviderPatches == {ToOpenai}

Cli        == {"claude", "codex"}
SomeCatalogues == {{}, {"gpt-4o", "gpt-5", "text-embedding-3-large"}}
EmptyCatalogue == {{}}
NoApiKey == None
=============================================================================

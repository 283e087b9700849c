---------------------------- MODULE MCConfigStore ---------------------------
(***************************************************************************)
(* Instances of ConfigStore for TLC: the files an installation can hold    *)
(* when the driver first starts, the PATCH bodies that tell the rules of   *)
(* apply_patch apart, and the settings a supervisor launches with.         *)
(***************************************************************************)
EXTENDS ConfigStore, TLC

CONSTANTS key1, key2, sign1

AllText == STRING

Plain(v)       == [key |-> NoKey, val |-> v]
Sealed(v, key) == [key |-> key, val |-> v]
Mapping(m)     == [kind |-> "mapping", map |-> m]

FileAbsent     == [kind |-> "absent", map |-> EmptyMap]
FileUnreadable == [kind |-> "unreadable", map |-> EmptyMap]

\* A v0.1 file: secret in the clear, and the `port` key that has been retired.
FileV01 == Mapping("provider" :> Plain(Str("openai"))
                @@ "apiKey" :> Plain(Str("sk-a"))
                @@ "port" :> Plain(Num(8081)))

\* Written by this version under key1, with an unset optional key.
FileSealed == Mapping("provider" :> Plain(Str("openai"))
                   @@ "apiKey" :> Sealed(Str("sk-a"), key1)
                   @@ "modelId" :> Plain(None))

\* Edited by hand: null where a default exists, a secret that is no string.
FileOdd == Mapping("provider" :> Plain(None)
                @@ "apiKey" :> Plain(Num(5))
                @@ "requestTimeoutSeconds" :> Plain(Str("2m")))

\* Edited by hand: a log level uvicorn does not know.
FileBadLogLevel == Mapping("logLevel" :> Plain(Str("verbose")))

SetSecret    == "apiKey" :> Str("sk-b")
ClearSecret  == "apiKey" :> None
\* One key rejected (the redacted form), one applied.
PatchMixed   == "apiKey" :> REDACTED @@ "provider" :> Str("openai")
ResetTimeout == "requestTimeoutSeconds" :> None @@ "provider" :> None
SetTimeout   == "requestTimeoutSeconds" :> Num(5)
\* Nothing accepted: unknown key, value out of range, value out of enum.
PatchInvalid == "port" :> Num(80) @@ "requestTimeoutSeconds" :> Num(4)
             @@ "logLevel" :> Str("verbose")
\* Neither below the minimum nor above the maximum, hence accepted.
PatchNaN     == "requestTimeoutSeconds" :> NaN

Boot(s, k) ==
    [safe |-> s, env |-> [signing |-> sign1, service |-> TRUE, master |-> k]]

DevBoot == [safe |-> FALSE, env |-> NoEnv]

\* A master key that does not decode, and one that came without the rest.
BrokenBoot  == Boot(FALSE, Malformed)
PartialBoot == [safe |-> TRUE, env |-> [NoEnv EXCEPT !.master = key1]]

AllBoots  == {DevBoot, Boot(FALSE, key1), Boot(FALSE, key2), Boot(TRUE, key1),
              BrokenBoot, PartialBoot}
KeyedBoot  == {Boot(FALSE, key1)}
SafeBoot   == {Boot(TRUE, key1)}

AllFiles  == {FileAbsent, FileUnreadable, FileV01, FileSealed, FileOdd,
              FileBadLogLevel}
SealedFile == {FileSealed}

AllPatches == {SetSecret, ClearSecret, PatchMixed, ResetTimeout, SetTimeout,
               PatchInvalid, PatchNaN}
TimeoutPatches == {SetTimeout}
=============================================================================

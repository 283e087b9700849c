------------------------------- MODULE MCService ----------------------------
(***************************************************************************)
(* The instance of Service for TLC: one request at a time between its two   *)
(* steps, one call of either kind, with and without a limit, restarts, one *)
(* crash, a boot that lost its signing key, a safe mode with another key,  *)
(* an operator's token that expires before a service's.                    *)
(***************************************************************************)
EXTENDS Service, TLC

CONSTANTS key1, sign1, sign2, c1, r1

AllText == STRING

OneCall == {c1}

OneRequest == {r1}

Plain(v)   == [key |-> NoKey, val |-> v]
Mapping(m) == [kind |-> "mapping", map |-> m]

\* A PATCH of an earlier life has saved a timeout that no clock reaches.
FileCodex == Mapping("provider" :> Plain(Str("chatgpt_subscription"))
                  @@ "apiKey" :> [key |-> key1, val |-> Str("sk-a")]
                  @@ "requestTimeoutSeconds" :> Plain(NaN))

Files == {FileCodex}

ToOpenai == "provider" :> Str("openai")

SomePatches == {ToOpenai}

KeyedEnv == [signing |-> sign1, service |-> FALSE, master |-> key1]

\* A boot that lost its signing key and fails, and the safe mode after it,
\* which is started with another key.
SomeBoots ==
    {[safe |-> FALSE, env |-> KeyedEnv],
     [safe |-> FALSE, env |-> [KeyedEnv EXCEPT !.signing = NoKey]],
     [safe |-> TRUE,  env |-> [KeyedEnv EXCEPT !.signing = sign2]]}

SomeTokens ==
    {[key |-> sign1, aud |-> "operator", iat |-> 0, exp |-> 1],
     [key |-> sign1, aud |-> "service",  iat |-> 0, exp |-> 2],
     [key |-> sign2, aud |-> "operator", iat |-> 1, exp |-> 2]}

BothClis == {"claude", "codex"}
EmptyCatalogue == {{}}
AnApiKey == Str("sk-env")
PipesWait == {TRUE}
=============================================================================

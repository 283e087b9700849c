--------------------------------- MODULE Auth --------------------------------
(***************************************************************************)
(* Authentication: what the auth variables of a boot make of a process     *)
(* (auth_state.py), which tokens open which routes (security.py,            *)
(* dependencies.py).  Constant-level.                                      *)
(***************************************************************************)
EXTENDS Integers

CONSTANTS
    MasterKeys,   \* master keys a secret on disk may be sealed with
    SigningKeys,  \* keys the watchdog signs tokens with
    NoKey,        \* a variable that is unset or empty; stored as plaintext
    Malformed     \* a variable that is not the base64 of 32 bytes

MaybeKey == MasterKeys \union {NoKey}

ASSUME NoKeyAssumption ==
    /\ {NoKey, Malformed} \cap (MasterKeys \union SigningKeys) = {}
    /\ NoKey # Malformed

-----------------------------------------------------------------------------
\* The auth variables of one boot; of the service token only whether it is set.
Env == [signing : SigningKeys \union {NoKey, Malformed},
        service : BOOLEAN,
        master  : MaybeKey \union {Malformed}]

NoEnv == [signing |-> NoKey, service |-> FALSE, master |-> NoKey]

\* A fault: only the service token is missed without a signing key.
InconsistentService(env) ==
    \/ Malformed \in {env.signing, env.master}
    \/ env.signing = NoKey /\ env.service

\* load_auth_state raises: a key that does not decode, or a partial setting.
Inconsistent(env) ==
    \/ Malformed \in {env.signing, env.master}
    \/ env.signing = NoKey /\ (env.service \/ env.master # NoKey)

AuthDisabled(env) == env.signing = NoKey

-----------------------------------------------------------------------------
Audiences == {"operator", "service", "other"}

Token == [key : SigningKeys, aud : Audiences, iat : Int, exp : Int]

NoToken == [key |-> NoKey, aud |-> "other", iat |-> 0, exp |-> 0]

\* jwt.decode: the signature and the instants.
Genuine(token, env, now) ==
    token.key = env.signing /\ token.iat <= now /\ now < token.exp

\* A fault: the signature is the only thing that is looked at.
AcceptsAnyAudience(token, env, now, audiences) ==
    AuthDisabled(env) \/ Genuine(token, env, now)

\* _validate and decode_token: pass, or a 401 for whatever is wrong with it.
Accepts(token, env, now, audiences) ==
    \/ AuthDisabled(env)
    \/ Genuine(token, env, now) /\ token.aud \in audiences

\* require_operator guards config and admin, require_authorized the rest.
OperatorOnly == {"operator"}
Authorized == {"operator", "service"}
=============================================================================

---------------------------- MODULE ConfigStore -----------------------------
(***************************************************************************)
(* The file-backed configuration of one driver (config.py) through the     *)
(* life of its process (__main__.py, app.py): the supervisor launches it,  *)
(* main() reads the file once without the master key, the lifespan reads   *)
(* it again with the key, PATCH requests rewrite it, and the process may    *)
(* die between any two steps and be launched again.                        *)
(*                                                                         *)
(* The PATCH handler runs on the event loop without an await and under the *)
(* store's lock, so requests never interleave with each other.  What can   *)
(* come between its steps is a crash: open("w") truncates the file first   *)
(* and the new content reaches it only when the buffer is flushed, so the  *)
(* handler is two steps, Patch (mutate, truncate) and Save (flush, reply).  *)
(*                                                                         *)
(* Simplifications: a flush is all or nothing (the document is smaller     *)
(* than one write buffer); a crash is of the process, not of the machine;  *)
(* nobody edits the file while the driver runs.                            *)
(***************************************************************************)
EXTENDS ConfigSchema, Auth

CONSTANTS
    Boots,          \* the [safe, env] settings a supervisor launches with
    InitialFiles,   \* what the config file may hold before the first launch
    Patches,        \* PATCH bodies, partial maps from key names to values
    WriteFailures   \* whether opening or flushing the file may fail

DiskValue == [key : MaybeKey, val : Value]

EmptyMap == [k \in {} |-> [key |-> NoKey, val |-> None]]

IsPartialMap(m, S) == /\ m = [k \in DOMAIN m |-> m[k]]
                      /\ \A k \in DOMAIN m : m[k] \in S

IsFile(f) == /\ f = [kind |-> f.kind, map |-> f.map]
             /\ f.kind \in {"absent", "unreadable", "mapping"}
             /\ IsPartialMap(f.map, DiskValue)
             /\ f.kind # "mapping" => f.map = EmptyMap

ASSUME BootsAssumption == Boots \subseteq [safe : BOOLEAN, env : Env]
ASSUME FilesAssumption == \A f \in InitialFiles : IsFile(f)
ASSUME PatchesAssumption == \A p \in Patches : IsPartialMap(p, Value)
ASSUME WriteFailuresAssumption == WriteFailures \in BOOLEAN

-----------------------------------------------------------------------------
(***************************************************************************)
(* Reading and writing the file.                                           *)
(***************************************************************************)
\* open("w") leaves an empty file, which safe_load reads as {}.
Truncated == [kind |-> "mapping", map |-> EmptyMap]

\* A fault: an envelope that does not open is handed on as it is.
DecryptOrEnvelope(d, key) == IF d.key \in {NoKey, key} THEN d.val ELSE d

\* _decrypt_loaded: an envelope that does not open reads as unset.
Decrypt(d, key) == IF d.key \in {NoKey, key} THEN d.val ELSE None

\* A fault: a file's values without the defaults below them.
LoadBare(file, key) ==
    [k \in Key |-> IF k \in DOMAIN file.map THEN Decrypt(file.map[k], key)
                   ELSE None]

\* load(): the file's values over the defaults, undeclared keys dropped,
\* nothing validated.
Load(file, key) ==
    [k \in Key |-> IF k \in DOMAIN file.map THEN Decrypt(file.map[k], key)
                   ELSE FIELDS[k].default]

IsSecretText(k, v) == Sensitive(k) /\ v.type = "str" /\ v.str # EmptyText

\* A fault: nothing is ever sealed.
SealingKeyNone(k, v, key) == NoKey

SealingKey(k, v, key) == IF IsSecretText(k, v) THEN key ELSE NoKey

\* A fault: keys whose value is null are left out of the file.
EncodeWithoutNulls(values, key) ==
    [kind |-> "mapping",
     map  |-> [k \in {n \in Key : values[n] # None} |->
                  [key |-> SealingKey(k, values[k], key), val |-> values[k]]]]

\* _write_locked: every value, the secrets sealed if there is a master key.
Encode(values, key) ==
    [kind |-> "mapping",
     map  |-> [k \in Key |-> [key |-> SealingKey(k, values[k], key),
                              val |-> values[k]]]]

\* What the file says when every envelope is opened with the key that sealed
\* it, for the properties only.
TrueContent(file) ==
    [k \in Key |-> IF k \in DOMAIN file.map THEN file.map[k].val
                   ELSE FIELDS[k].default]

\* main() takes lower() of the log level, uvicorn looks it up in a table and
\* raises KeyError on other names; each level by two of its spellings.
LogLevelOk(v) ==
    \/ ~Truthy(v)
    \/ /\ v.type = "str"
       /\ v.str \in {"DEBUG", "INFO", "WARNING", "ERROR", "CRITICAL", "TRACE",
                    "debug", "info", "warning", "error", "critical", "trace"}

-----------------------------------------------------------------------------
VARIABLES
    phase,      \* where the process is, see Phases
    disk,       \* the config file
    safe,       \* settings.safe_mode of this process
    env,        \* the auth variables of this process
    values,     \* ConfigStore._values of the lifespan's store
    pending,    \* ConfigStore._pending_restart
    request,    \* the PATCH body being handled
    response,   \* the reply to the last PATCH of this process
    \* history, read by the properties only
    booted,     \* `values` as the lifespan loaded them
    before,     \* TrueContent of the file when the PATCH in flight arrived
    lastWrite   \* how this process's last rewrite of the file ended

vars == <<phase, disk, safe, env, values, pending, request, response,
          booted, before, lastWrite>>

\* auth_state.master_key once the lifespan has decoded the variables.
masterKey == IF env.master \in MasterKeys THEN env.master ELSE NoKey

\* "creating": main() is writing a fresh file.  "lifespan": main() is done,
\* uvicorn is about to run the lifespan.  "saving": a PATCH has truncated the
\* file.  "failed": the process exited by an exception during startup.
Phases == {"down", "failed", "creating", "lifespan", "up", "saving"}

NoRequest == [k \in {} |-> None]
NoResponse == [status |-> "none", applied |-> {}, pendingRestart |-> {}]

Response == [status : {"none", "ok", "error"},
             applied : SUBSET Key, pendingRestart : SUBSET Key]

TypeOK ==
    /\ phase \in Phases
    /\ IsFile(disk)
    /\ safe \in BOOLEAN
    /\ env \in Env
    /\ values \in [Key -> Value]
    /\ pending \subseteq Key
    /\ IsPartialMap(request, Value)
    /\ response \in Response
    /\ booted \in [Key -> Value]
    /\ before \in [Key -> Value]
    /\ lastWrite \in {"none", "ok", "failed"}

-----------------------------------------------------------------------------
\* What a process keeps in memory, as a new one starts with it.
FreshMemory ==
    /\ values' = Defaults
    /\ booted' = Defaults
    /\ pending' = {}
    /\ request' = NoRequest
    /\ response' = NoResponse
    /\ before' = Defaults
    /\ lastWrite' = "none"

Init ==
    /\ phase = "down"
    /\ disk \in InitialFiles
    /\ safe = FALSE
    /\ env = NoEnv
    /\ values = Defaults
    /\ booted = Defaults
    /\ pending = {}
    /\ request = NoRequest
    /\ response = NoResponse
    /\ before = Defaults
    /\ lastWrite = "none"

NotRunning == phase \in {"down", "failed"}

\* A fault: safe mode reads the file it is there to avoid.
LaunchSafeReading(boot) ==
    /\ NotRunning
    /\ boot.safe
    /\ phase' = IF disk.kind = "unreadable" THEN "failed" ELSE "lifespan"
    /\ safe' = TRUE
    /\ env' = boot.env
    /\ FreshMemory
    /\ UNCHANGED disk

\* main() with the safe-mode setting: the file is not opened.
LaunchSafe(boot) ==
    /\ NotRunning
    /\ boot.safe
    /\ phase' = "lifespan"
    /\ safe' = TRUE
    /\ env' = boot.env
    /\ FreshMemory
    /\ UNCHANGED disk

\* A fault: main()'s load() writes the file back, completed by the defaults.
LaunchCompleting(boot) ==
    /\ NotRunning
    /\ ~boot.safe
    /\ disk.kind = "mapping"
    /\ phase' = "lifespan"
    /\ safe' = FALSE
    /\ env' = boot.env
    /\ FreshMemory
    /\ disk' = Encode(Load(disk, NoKey), NoKey)

\* main() reads a mapping, without a master key, for the log level alone.
LaunchReading(boot) ==
    /\ NotRunning
    /\ ~boot.safe
    /\ disk.kind = "mapping"
    /\ phase' = IF LogLevelOk(Load(disk, NoKey)["logLevel"]) THEN "lifespan"
                ELSE "failed"
    /\ safe' = FALSE
    /\ env' = boot.env
    /\ FreshMemory
    /\ UNCHANGED disk

\* Not YAML, or no mapping at the root: load() raises out of main().
LaunchUnreadable(boot) ==
    /\ NotRunning
    /\ ~boot.safe
    /\ disk.kind = "unreadable"
    /\ phase' = "failed"
    /\ safe' = FALSE
    /\ env' = boot.env
    /\ FreshMemory
    /\ UNCHANGED disk

\* No file: load() begins to write the defaults, or cannot open it.
LaunchCreating(boot) ==
    /\ NotRunning
    /\ ~boot.safe
    /\ disk.kind = "absent"
    /\ safe' = FALSE
    /\ env' = boot.env
    /\ FreshMemory
    /\ \/ /\ phase' = "creating"
          /\ disk' = Truncated
       \/ /\ WriteFailures
          /\ phase' = "failed"
          /\ UNCHANGED disk

Launch(boot) == \/ LaunchSafe(boot)
                \/ LaunchReading(boot)
                \/ LaunchUnreadable(boot)
                \/ LaunchCreating(boot)

\* main()'s store has no master key; the defaults hold no secret to seal.
CreateFile ==
    /\ phase = "creating"
    /\ phase' = "lifespan"
    /\ disk' = Encode(Defaults, NoKey)
    /\ UNCHANGED <<safe, env, values, pending, request, response,
                   booted, before, lastWrite>>

CreateFileFails ==
    /\ phase = "creating"
    /\ WriteFailures
    /\ phase' = "failed"
    /\ UNCHANGED <<disk, safe, env, values, pending, request, response,
                   booted, before, lastWrite>>

\* load_auth_state raises out of the lifespan, in safe mode as well, and
\* before the file is opened.
LifespanFails ==
    /\ phase = "lifespan"
    /\ Inconsistent(env)
    /\ phase' = "failed"
    /\ UNCHANGED <<disk, safe, env, values, pending, request, response, booted,
                   before, lastWrite>>

\* A fault: the lifespan's store is built without the master key.
LifespanWithoutKey ==
    /\ phase = "lifespan"
    /\ ~Inconsistent(env)
    /\ phase' = "up"
    /\ values' = IF safe THEN Defaults ELSE Load(disk, NoKey)
    /\ booted' = values'
    /\ UNCHANGED <<disk, safe, env, pending, request, response, before,
                   lastWrite>>

\* The lifespan's own store: defaults in safe mode, else a second load().
Lifespan ==
    /\ phase = "lifespan"
    /\ ~Inconsistent(env)
    /\ phase' = "up"
    /\ values' = IF safe THEN Defaults ELSE Load(disk, masterKey)
    /\ booted' = values'
    /\ UNCHANGED <<disk, safe, env, pending, request, response, before,
                   lastWrite>>

-----------------------------------------------------------------------------
\* A PATCH no key of which is accepted answers without touching the file.
PatchRejected(patch) ==
    /\ phase = "up"
    /\ Applied(patch) = {}
    /\ response' = [status |-> "ok", applied |-> {}, pendingRestart |-> pending]
    /\ UNCHANGED <<phase, disk, safe, env, values, pending, request,
                   booted, before, lastWrite>>

\* apply_patch up to the truncation of the file.
Patch(patch) ==
    /\ phase = "up"
    /\ Applied(patch) # {}
    /\ values' = Patched(values, patch)
    /\ pending' = pending \union NeedRestart(Applied(patch))
    /\ phase' = "saving"
    /\ disk' = Truncated
    /\ request' = patch
    /\ before' = TrueContent(disk)
    /\ UNCHANGED <<safe, env, response, booted, lastWrite>>

\* A fault: pendingRestart is extended only once the file is written.
PatchCannotOpenForgets(patch) ==
    /\ phase = "up"
    /\ WriteFailures
    /\ Applied(patch) # {}
    /\ values' = Patched(values, patch)
    /\ response' = [NoResponse EXCEPT !.status = "error"]
    /\ lastWrite' = "failed"
    /\ UNCHANGED <<phase, disk, safe, env, pending, request, booted,
                   before>>

\* open("w") raises: the reply is a 500, but memory has changed.
PatchCannotOpen(patch) ==
    /\ phase = "up"
    /\ WriteFailures
    /\ Applied(patch) # {}
    /\ values' = Patched(values, patch)
    /\ pending' = pending \union NeedRestart(Applied(patch))
    /\ response' = [NoResponse EXCEPT !.status = "error"]
    /\ lastWrite' = "failed"
    /\ UNCHANGED <<phase, disk, safe, env, request, booted, before>>

\* The buffer is flushed and the handler replies.
Save ==
    /\ phase = "saving"
    /\ phase' = "up"
    /\ disk' = Encode(values, masterKey)
    /\ response' = [status |-> "ok", applied |-> Applied(request),
                    pendingRestart |-> pending]
    /\ lastWrite' = "ok"
    /\ request' = NoRequest
    /\ before' = Defaults
    /\ UNCHANGED <<safe, env, values, pending, booted>>

\* The flush raises (disk full): the file stays empty, the reply is a 500.
SaveFails ==
    /\ phase = "saving"
    /\ WriteFailures
    /\ phase' = "up"
    /\ response' = [NoResponse EXCEPT !.status = "error"]
    /\ lastWrite' = "failed"
    /\ request' = NoRequest
    /\ before' = Defaults
    /\ UNCHANGED <<disk, safe, env, values, pending, booted>>

\* Kill, crash or os._exit: memory is gone, the file stays as it is.
Crash ==
    /\ ~NotRunning
    /\ phase' = "down"
    /\ safe' = FALSE
    /\ env' = NoEnv
    /\ FreshMemory
    /\ UNCHANGED disk

Next ==
    \/ \E boot \in Boots : Launch(boot)
    \/ CreateFile
    \/ CreateFileFails
    \/ Lifespan
    \/ LifespanFails
    \/ \E patch \in Patches :
          PatchRejected(patch) \/ Patch(patch) \/ PatchCannotOpen(patch)
    \/ Save
    \/ SaveFails
    \/ Crash

Spec == Init /\ [][Next]_vars

-----------------------------------------------------------------------------
(***************************************************************************)
(* Properties.                                                             *)
(***************************************************************************)

\* The file and the store should agree: this process loaded the file or has
\* written it, and its last write did not fail.
Synced == lastWrite = "ok" \/ (lastWrite = "none" /\ ~safe)

\* What _write_locked stores, load() with the same master key restores,
\* sealed secrets, nulls and undeclared keys included: a restart changes no
\* value, unless a write failed or the store never read the file.
ReloadRestores ==
    phase = "up" /\ Synced => Load(disk, masterKey) = values

\* What makes it inductive: until the lifespan has loaded the store, this
\* process has completed no write of its own (main()'s store is another).
NothingWrittenBeforeUp ==
    phase \in {"creating", "lifespan"} => lastWrite = "none"

ReloadInv == NothingWrittenBeforeUp /\ ReloadRestores

PlainSecrets(file) ==
    {k \in DOMAIN file.map \cap Key :
        file.map[k].key = NoKey /\ IsSecretText(k, file.map[k].val)}

\* A process that has a master key never puts a secret on disk in the clear,
\* not even main(), whose own store has no key: it can only leave one that
\* was there (a v0.1 file) until the next PATCH seals it.
NoNewPlaintext ==
    [][masterKey # NoKey => PlainSecrets(disk') \subseteq PlainSecrets(disk)]_vars

\* What the file says, sealed secrets included, changes only at the two steps
\* of a PATCH: no boot, with whatever master key or none, and no exit changes
\* it, also where main()'s store without a key creates the file and dies over
\* it, and none writes over a file that it cannot read.
OnlyPatchesChangeTheFile ==
    [][\/ TrueContent(disk') # TrueContent(disk)
       \/ disk.kind = "unreadable" /\ disk' # disk
       => \/ phase = "up" /\ phase' = "saving"
          \/ phase = "saving" /\ phase' = "up"]_vars

\* What makes it inductive: main() has created a file that still says nothing.
CreatesEmpty == phase = "creating" => disk = Truncated

\* Sending GET's document back as a PATCH body, "<redacted>" included, keeps
\* every value that is set, whatever the file brought in.
RedactedRoundTrip ==
    phase = "up" => \A k \in Key :
        values[k] # None => Patched(values, AsDocument(values))[k] = values[k]

\* A value that differs from the one the engine was built from is announced
\* in pendingRestart, also after failed writes and keys reset to null.
DriftIsPending ==
    phase \in {"up", "saving"} =>
        \A k \in Key : values[k] # booted[k] => k \in pending

\* models.py:250-251 "Every present key is set; absent keys are left
\* unchanged": after a PATCH the file says of every other key what it said.
AbsentKeysUnchanged ==
    [][Save => \A k \in Key \ DOMAIN request :
                  TrueContent(disk')[k] = before[k]]_vars

-----------------------------------------------------------------------------
\* The file's content, with a PATCH in flight counted as not yet made.
Stored == IF phase = "saving" THEN before ELSE TrueContent(disk)

Durable == INSTANCE DurableConfig
               WITH stored <- Stored,
                    InitialContents <- {TrueContent(f) : f \in InitialFiles}

\* No envelope that this key does not open.
OpensWith(file, key) ==
    \A k \in DOMAIN file.map \cap Key : file.map[k].key \in {NoKey, key}

\* The conditions of the promise: one master key, no safe mode, a disk that
\* works.
ReliableWith(key) ==
    /\ ~WriteFailures
    /\ \A boot \in Boots : ~boot.safe /\ boot.env.master = key
    /\ \A f \in InitialFiles : OpensWith(f, key)

\* The file then changes by whole PATCHes of which only the accepted keys move,
\* or is wiped by a crash inside one.
ImplementsDurableConfig == Durable!Spec

\* The inductive invariant behind it.
DurableInv(key) ==
    /\ OpensWith(disk, key)
    /\ ~NotRunning => env.master = key /\ ~safe
    /\ lastWrite # "failed"
    /\ phase \in {"creating", "saving"} => disk = Truncated
    /\ phase = "saving" => /\ request \in Patches
                          /\ values = Patched(before, request)
=============================================================================

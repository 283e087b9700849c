--------------------------- MODULE ConfigStoreProofs ------------------------
(***************************************************************************)
(* Theorems about ConfigStore for every set of master keys, boots, initial *)
(* files and PATCH bodies, with and without write failures.                *)
(***************************************************************************)
EXTENDS ConfigStore, TLAPS

-----------------------------------------------------------------------------
(***************************************************************************)
(* The field table.                                                        *)
(***************************************************************************)
LEMMA KeyNames ==
    Key = {"provider", "claudeCodeCliPath", "codexCliPath", "apiKey",
           "baseUrl", "modelId", "logLevel", "requestTimeoutSeconds"}
  BY DEF Key, FIELDS

LEMMA NoneIsValue == None \in Value
  BY TextAssumption DEF None, Value

LEMMA DefaultsAreValues == \A k \in Key : FIELDS[k].default \in Value
  BY KeyNames, TextAssumption DEF FIELDS, Field, Str, Num, None, Value

LEMMA EveryFieldNeedsRestart == \A k \in Key : FIELDS[k].requiresRestart
  BY KeyNames DEF FIELDS, Field

LEMMA DefaultsHoldNoSecret == \A k \in Key : ~IsSecretText(k, FIELDS[k].default)
  BY KeyNames DEF IsSecretText, Sensitive, FIELDS, Field, None

-----------------------------------------------------------------------------
(***************************************************************************)
(* What the operators on files and values return.                          *)
(***************************************************************************)
LEMMA DefaultsType == Defaults \in [Key -> Value]
  BY DefaultsAreValues DEF Defaults

LEMMA TruncatedIsFile == IsFile(Truncated)
  BY DEF IsFile, Truncated, EmptyMap, IsPartialMap

LEMMA DecryptType ==
  ASSUME NEW d \in DiskValue, NEW key
  PROVE  Decrypt(d, key) \in Value
  BY NoneIsValue DEF Decrypt, DiskValue

LEMMA LoadType ==
  ASSUME NEW file, IsFile(file), NEW key
  PROVE  Load(file, key) \in [Key -> Value]
  BY DecryptType, DefaultsAreValues DEF Load, IsFile, IsPartialMap

LEMMA TrueContentType ==
  ASSUME NEW file, IsFile(file)
  PROVE  TrueContent(file) \in [Key -> Value]
  BY DefaultsAreValues DEF TrueContent, IsFile, IsPartialMap, DiskValue

LEMMA EncodeIsFile ==
  ASSUME NEW vals \in [Key -> Value], NEW key \in MaybeKey
  PROVE  IsFile(Encode(vals, key))
<1> DEFINE map == [k \in Key |-> [key |-> SealingKey(k, vals[k], key),
                                  val |-> vals[k]]]
<1>1. \A k \in Key : map[k] \in DiskValue
  BY DEF DiskValue, SealingKey, MaybeKey
<1>2. IsPartialMap(map, DiskValue)
  BY <1>1 DEF IsPartialMap
<1>3. Encode(vals, key) = [kind |-> "mapping", map |-> map]
  BY DEF Encode
<1> QED
  BY <1>2, <1>3 DEF IsFile

LEMMA PatchedType ==
  ASSUME NEW vals \in [Key -> Value], NEW patch, IsPartialMap(patch, Value)
  PROVE  Patched(vals, patch) \in [Key -> Value]
  BY DefaultsAreValues DEF Patched, Applied, IsPartialMap

\* What a process writes, a process with the same master key reads back.
LEMMA LoadInvertsEncode ==
  ASSUME NEW vals \in [Key -> Value], NEW key \in MaybeKey
  PROVE  Load(Encode(vals, key), key) = vals
<1> DEFINE file == Encode(vals, key)
<1>1. DOMAIN file.map = Key
  BY DEF Encode
<1>2. ASSUME NEW k \in Key
      PROVE  Decrypt(file.map[k], key) = vals[k]
  <2>1. file.map[k] = [key |-> SealingKey(k, vals[k], key), val |-> vals[k]]
    BY DEF Encode
  <2> QED
    BY <2>1 DEF Decrypt, SealingKey
<1>3. Load(file, key) = [k \in Key |-> vals[k]]
  BY <1>1, <1>2 DEF Load
<1> QED
  BY <1>3

-----------------------------------------------------------------------------
(***************************************************************************)
(* Type correctness.                                                       *)
(***************************************************************************)
LEMMA BootType ==
  ASSUME NEW boot \in Boots
  PROVE  boot.safe \in BOOLEAN /\ boot.env \in Env
  BY BootsAssumption

LEMMA NoEnvType == NoEnv \in Env
  BY DEF NoEnv, Env, MaybeKey

LEMMA MasterKeyType == masterKey \in MaybeKey
  BY DEF masterKey, MaybeKey

LEMMA NoRequestIsPatch == IsPartialMap(NoRequest, Value)
  BY DEF NoRequest, IsPartialMap

LEMMA NoResponseType == NoResponse \in Response
  BY DEF NoResponse, Response

\* The memory a process starts with is well typed.
LEMMA FreshMemoryType ==
  ASSUME FreshMemory
  PROVE  /\ values' \in [Key -> Value]
         /\ booted' \in [Key -> Value]
         /\ before' \in [Key -> Value]
         /\ pending' \subseteq Key
         /\ IsPartialMap(request', Value)
         /\ response' \in Response
         /\ lastWrite' \in {"none", "ok", "failed"}
  BY DefaultsType, NoRequestIsPatch, NoResponseType DEF FreshMemory

LEMMA InitTypeOK == Init => TypeOK
<1> SUFFICES ASSUME Init PROVE TypeOK
  OBVIOUS
<1>1. IsFile(disk)
  BY FilesAssumption DEF Init
<1>2. values \in [Key -> Value] /\ booted \in [Key -> Value]
      /\ before \in [Key -> Value]
  BY DefaultsType DEF Init
<1>3. IsPartialMap(request, Value) /\ response \in Response
  BY NoRequestIsPatch, NoResponseType DEF Init
<1> QED
  BY <1>1, <1>2, <1>3, NoEnvType DEF Init, TypeOK, Phases

LEMMA NextTypeOK == TypeOK /\ [Next]_vars => TypeOK'
<1> SUFFICES ASSUME TypeOK, [Next]_vars PROVE TypeOK'
  OBVIOUS
<1> USE DEF TypeOK
<1>1. ASSUME NEW boot \in Boots, Launch(boot)
      PROVE  TypeOK'
  <2>1. FreshMemory /\ safe' \in BOOLEAN /\ env' \in Env
    BY <1>1, BootType DEF Launch, LaunchSafe, LaunchReading, LaunchUnreadable,
                          LaunchCreating
  <2>2. phase' \in Phases
    BY <1>1 DEF Launch, LaunchSafe, LaunchReading, LaunchUnreadable,
                LaunchCreating, Phases
  <2>3. disk' = disk \/ disk' = Truncated
    BY <1>1 DEF Launch, LaunchSafe, LaunchReading, LaunchUnreadable,
                LaunchCreating
  <2>4. IsFile(disk')
    BY <2>3, TruncatedIsFile
  <2> QED
    BY <2>1, <2>2, <2>4, FreshMemoryType
<1>2. ASSUME CreateFile PROVE TypeOK'
  <2>1. IsFile(disk')
    BY <1>2, DefaultsType, EncodeIsFile DEF CreateFile, MaybeKey
  <2> QED
    BY <1>2, <2>1 DEF CreateFile, Phases
<1>3. ASSUME CreateFileFails PROVE TypeOK'
  BY <1>3 DEF CreateFileFails, Phases
<1>4. ASSUME Lifespan PROVE TypeOK'
  <2>1. values' \in [Key -> Value]
    BY <1>4, DefaultsType, LoadType DEF Lifespan
  <2> QED
    BY <1>4, <2>1 DEF Lifespan, Phases
<1>5. ASSUME NEW patch \in Patches, PatchRejected(patch) PROVE TypeOK'
  <2>1. response' \in Response
    BY <1>5 DEF PatchRejected, Response
  <2> QED
    BY <1>5, <2>1 DEF PatchRejected
<1>6. ASSUME NEW patch \in Patches, Patch(patch) PROVE TypeOK'
  <2>1. IsPartialMap(patch, Value)
    BY PatchesAssumption
  <2>2. values' \in [Key -> Value]
    BY <1>6, <2>1, PatchedType DEF Patch
  <2>3. pending' \subseteq Key
    BY <1>6 DEF Patch, NeedRestart, Applied
  <2>4. before' \in [Key -> Value]
    BY <1>6, TrueContentType DEF Patch
  <2> QED
    BY <1>6, <2>1, <2>2, <2>3, <2>4, TruncatedIsFile DEF Patch, Phases
<1>7. ASSUME NEW patch \in Patches, PatchCannotOpen(patch) PROVE TypeOK'
  <2>1. values' \in [Key -> Value]
    BY <1>7, PatchesAssumption, PatchedType DEF PatchCannotOpen
  <2>2. pending' \subseteq Key
    BY <1>7 DEF PatchCannotOpen, NeedRestart, Applied
  <2>3. response' \in Response
    BY <1>7 DEF PatchCannotOpen, NoResponse, Response
  <2> QED
    BY <1>7, <2>1, <2>2, <2>3 DEF PatchCannotOpen
<1>8. ASSUME Save PROVE TypeOK'
  <2>1. IsFile(disk')
    BY <1>8, MasterKeyType, EncodeIsFile DEF Save
  <2>2. response' \in Response
    BY <1>8 DEF Save, Response, Applied
  <2> QED
    BY <1>8, <2>1, <2>2, DefaultsType, NoRequestIsPatch DEF Save, Phases
<1>9. ASSUME SaveFails PROVE TypeOK'
  <2>1. response' \in Response
    BY <1>9 DEF SaveFails, NoResponse, Response
  <2> QED
    BY <1>9, <2>1, DefaultsType, NoRequestIsPatch DEF SaveFails, Phases
<1>10. ASSUME Crash PROVE TypeOK'
  BY <1>10, FreshMemoryType, NoEnvType DEF Crash, Phases
<1>11. ASSUME LifespanFails PROVE TypeOK'
  BY <1>11 DEF LifespanFails, Phases
<1>12. ASSUME UNCHANGED vars PROVE TypeOK'
  BY <1>12 DEF vars
<1> QED
  BY <1>1, <1>2, <1>3, <1>4, <1>5, <1>6, <1>7, <1>8, <1>9, <1>10, <1>11, <1>12
     DEF Next

\* Every variable keeps its type, whatever files and PATCH bodies the driver
\* meets.
THEOREM TypeCorrect == Spec => []TypeOK
<1>1. Init => TypeOK
  BY InitTypeOK
<1>2. TypeOK /\ [Next]_vars => TypeOK'
  BY NextTypeOK
<1> QED
  BY <1>1, <1>2, PTL DEF Spec

-----------------------------------------------------------------------------
(***************************************************************************)
(* The file and the store agree.                                           *)
(***************************************************************************)
LEMMA NextReloadInv == TypeOK /\ ReloadInv /\ [Next]_vars => ReloadInv'
<1> SUFFICES ASSUME TypeOK, ReloadInv, [Next]_vars PROVE ReloadInv'
  OBVIOUS
<1> USE DEF ReloadInv, NothingWrittenBeforeUp, ReloadRestores, Synced, masterKey
<1>1. ASSUME NEW boot \in Boots, Launch(boot)
      PROVE  ReloadInv'
  BY <1>1 DEF Launch, LaunchSafe, LaunchReading, LaunchUnreadable,
              LaunchCreating, FreshMemory
<1>2. ASSUME CreateFile PROVE ReloadInv'
  BY <1>2 DEF CreateFile
<1>3. ASSUME CreateFileFails PROVE ReloadInv'
  BY <1>3 DEF CreateFileFails
\* In safe mode nothing has been written or read: not Synced.
<1>4. ASSUME Lifespan \/ LifespanFails PROVE ReloadInv'
  BY <1>4 DEF Lifespan, LifespanFails
<1>5. ASSUME NEW patch \in Patches, PatchRejected(patch) PROVE ReloadInv'
  BY <1>5 DEF PatchRejected
<1>6. ASSUME NEW patch \in Patches, Patch(patch) PROVE ReloadInv'
  BY <1>6 DEF Patch
<1>7. ASSUME NEW patch \in Patches, PatchCannotOpen(patch) PROVE ReloadInv'
  BY <1>7 DEF PatchCannotOpen
<1>8. ASSUME Save PROVE ReloadInv'
  <2>1. Load(Encode(values, masterKey), masterKey) = values
    BY LoadInvertsEncode, MasterKeyType DEF TypeOK
  <2> QED
    BY <1>8, <2>1 DEF Save
<1>9. ASSUME SaveFails PROVE ReloadInv'
  BY <1>9 DEF SaveFails
<1>10. ASSUME Crash PROVE ReloadInv'
  BY <1>10 DEF Crash
<1>11. ASSUME UNCHANGED vars PROVE ReloadInv'
  BY <1>11 DEF vars
<1> QED
  BY <1>1, <1>2, <1>3, <1>4, <1>5, <1>6, <1>7, <1>8, <1>9, <1>10, <1>11
     DEF Next

\* A restart under the same master key changes no value of a running driver
\* that has read the file or written it last without an error: sealing,
\* nulls, undeclared keys and crashes in earlier writes included.
THEOREM ReloadCorrect == Spec => []ReloadRestores
<1>1. Init => ReloadInv
  BY DEF Init, ReloadInv, NothingWrittenBeforeUp, ReloadRestores
<1>2. TypeOK /\ ReloadInv /\ [Next]_vars => ReloadInv'
  BY NextReloadInv
<1>3. ReloadInv => ReloadRestores
  BY DEF ReloadInv
<1> QED
  BY <1>1, <1>2, <1>3, TypeCorrect, PTL DEF Spec

-----------------------------------------------------------------------------
(***************************************************************************)
(* Drift is announced.                                                     *)
(***************************************************************************)
LEMMA PatchedChangesApplied ==
  ASSUME NEW vals \in [Key -> Value], NEW patch, NEW k \in Key,
         Patched(vals, patch)[k] # vals[k]
  PROVE  k \in NeedRestart(Applied(patch))
<1>1. k \in Applied(patch)
  BY DEF Patched
<1> QED
  BY <1>1, EveryFieldNeedsRestart DEF NeedRestart

LEMMA NextDrift == TypeOK /\ DriftIsPending /\ [Next]_vars => DriftIsPending'
<1> SUFFICES ASSUME TypeOK, DriftIsPending, [Next]_vars PROVE DriftIsPending'
  OBVIOUS
<1> USE DEF DriftIsPending
<1>1. ASSUME NEW boot \in Boots, Launch(boot)
      PROVE  DriftIsPending'
  BY <1>1 DEF Launch, LaunchSafe, LaunchReading, LaunchUnreadable,
              LaunchCreating
<1>2. ASSUME CreateFile \/ CreateFileFails PROVE DriftIsPending'
  BY <1>2 DEF CreateFile, CreateFileFails
<1>3. ASSUME Lifespan \/ LifespanFails PROVE DriftIsPending'
  BY <1>3 DEF Lifespan, LifespanFails
<1>4. ASSUME NEW patch \in Patches, PatchRejected(patch)
      PROVE  DriftIsPending'
  BY <1>4 DEF PatchRejected
<1>5. ASSUME NEW patch \in Patches, Patch(patch) \/ PatchCannotOpen(patch)
      PROVE  DriftIsPending'
  <2> SUFFICES ASSUME NEW k \in Key, values'[k] # booted'[k]
               PROVE  k \in pending'
    OBVIOUS
  <2>1. /\ phase = "up"
        /\ values' = Patched(values, patch)
        /\ pending' = pending \union NeedRestart(Applied(patch))
        /\ booted' = booted
    BY <1>5 DEF Patch, PatchCannotOpen
  <2>2. CASE values[k] # booted[k]
    BY <2>1, <2>2
  <2>3. CASE values[k] = booted[k]
    BY <2>1, <2>3, PatchedChangesApplied DEF TypeOK
  <2> QED
    BY <2>2, <2>3
<1>6. ASSUME Save \/ SaveFails PROVE DriftIsPending'
  BY <1>6 DEF Save, SaveFails
<1>7. ASSUME Crash PROVE DriftIsPending'
  BY <1>7 DEF Crash
<1>8. ASSUME UNCHANGED vars PROVE DriftIsPending'
  BY <1>8 DEF vars
<1> QED
  BY <1>1, <1>2, <1>3, <1>4, <1>5, <1>6, <1>7, <1>8 DEF Next

\* Every value that differs from the one the engine was built from is listed
\* in pendingRestart.
THEOREM DriftCorrect == Spec => []DriftIsPending
<1>1. Init => DriftIsPending
  BY DEF Init, DriftIsPending
<1>2. TypeOK /\ DriftIsPending /\ [Next]_vars => DriftIsPending'
  BY NextDrift
<1> QED
  BY <1>1, <1>2, TypeCorrect, PTL DEF Spec

-----------------------------------------------------------------------------
(***************************************************************************)
(* Secrets stay sealed.                                                    *)
(***************************************************************************)
LEMMA EncodeSeals ==
  ASSUME NEW vals, NEW key, key # NoKey
  PROVE  PlainSecrets(Encode(vals, key)) = {}
  BY DEF PlainSecrets, Encode, SealingKey

LEMMA DefaultsStayPlain == PlainSecrets(Encode(Defaults, NoKey)) = {}
  BY DefaultsHoldNoSecret DEF PlainSecrets, Encode, Defaults

LEMMA TruncatedHasNoSecret == PlainSecrets(Truncated) = {}
  BY DEF PlainSecrets, Truncated, EmptyMap

LEMMA SecretsAreTyped ==
    \A k \in Key : Sensitive(k) => FIELDS[k].valueType = "secret"
  BY KeyNames DEF Sensitive, FIELDS, Field

\* The redacted placeholder is refused under every sensitive key.
LEMMA RedactedIsInvalid ==
    \A k \in Key : Sensitive(k) => ~Valid(FIELDS[k], REDACTED)
  BY SecretsAreTyped DEF Valid, REDACTED, Str, None

\* A client may send back the document it got, whatever the file holds: every
\* value that is set survives, and a redacted secret is not overwritten.
THEOREM RedactionHarmless == Spec => []RedactedRoundTrip
<1>1. RedactedRoundTrip
  <2> SUFFICES ASSUME NEW k \in Key, values[k] # None
               PROVE  Patched(values, AsDocument(values))[k] = values[k]
    BY DEF RedactedRoundTrip
  <2>1. CASE Sensitive(k)
    <3>1. AsDocument(values)[k] = REDACTED
      BY <2>1 DEF AsDocument
    <3>2. k \notin Applied(AsDocument(values))
      BY <2>1, <3>1, RedactedIsInvalid DEF Applied
    <3> QED
      BY <3>2 DEF Patched
  <2>2. CASE ~Sensitive(k)
    <3>1. AsDocument(values)[k] = values[k]
      BY <2>2 DEF AsDocument
    <3> QED
      BY <3>1 DEF Patched
  <2> QED
    BY <2>1, <2>2
<1> QED
  BY <1>1, PTL

\* No step of a process that has a master key puts a secret on disk in the
\* clear that was not there before.
THEOREM SecretsStaySealed == Spec => NoNewPlaintext
<1>1. [Next]_vars =>
        [masterKey # NoKey => PlainSecrets(disk') \subseteq PlainSecrets(disk)]_vars
  <2> SUFFICES ASSUME Next, masterKey # NoKey
               PROVE  PlainSecrets(disk') \subseteq PlainSecrets(disk)
    OBVIOUS
  <2>1. CASE Save
    BY <2>1, EncodeSeals DEF Save
  <2>2. CASE CreateFile
    BY <2>2, DefaultsStayPlain DEF CreateFile
  <2>3. CASE ~Save /\ ~CreateFile
    <3>1. disk' = disk \/ disk' = Truncated
      BY <2>3 DEF Next, Launch, LaunchSafe, LaunchReading, LaunchUnreadable,
                  LaunchCreating, CreateFileFails, Lifespan, LifespanFails,
                  PatchRejected, Patch, PatchCannotOpen, SaveFails, Crash
    <3> QED
      BY <3>1, TruncatedHasNoSecret
  <2> QED
    BY <2>1, <2>2, <2>3
<1> QED
  BY <1>1, PTL DEF Spec, NoNewPlaintext

-----------------------------------------------------------------------------
(***************************************************************************)
(* The file is durable.                                                    *)
(***************************************************************************)
LEMMA TrueContentOfTruncated == TrueContent(Truncated) = Defaults
  BY DEF TrueContent, Truncated, EmptyMap, Defaults

LEMMA TrueContentOfEncode ==
  ASSUME NEW vals \in [Key -> Value], NEW key
  PROVE  TrueContent(Encode(vals, key)) = vals
<1>1. TrueContent(Encode(vals, key)) = [k \in Key |-> vals[k]]
  BY DEF TrueContent, Encode
<1> QED
  BY <1>1

LEMMA TrueContentOfNothing ==
  ASSUME NEW file, IsFile(file), file.kind # "mapping"
  PROVE  TrueContent(file) = Defaults
  BY DEF IsFile, TrueContent, EmptyMap, Defaults

LEMMA NextCreatesEmpty == CreatesEmpty /\ [Next]_vars => CreatesEmpty'
<1> SUFFICES ASSUME CreatesEmpty, [Next]_vars PROVE CreatesEmpty'
  OBVIOUS
<1> USE DEF CreatesEmpty
<1>1. ASSUME NEW boot \in Boots, Launch(boot) PROVE CreatesEmpty'
  BY <1>1 DEF Launch, LaunchSafe, LaunchReading, LaunchUnreadable,
              LaunchCreating
<1>2. CASE CreateFile \/ CreateFileFails \/ Lifespan \/ LifespanFails
  BY <1>2 DEF CreateFile, CreateFileFails, Lifespan, LifespanFails
<1>3. ASSUME NEW patch \in Patches,
             PatchRejected(patch) \/ Patch(patch) \/ PatchCannotOpen(patch)
      PROVE  CreatesEmpty'
  BY <1>3 DEF PatchRejected, Patch, PatchCannotOpen
<1>4. CASE Save \/ SaveFails \/ Crash
  BY <1>4 DEF Save, SaveFails, Crash
<1>5. CASE UNCHANGED vars
  BY <1>5 DEF vars
<1> QED
  BY <1>1, <1>2, <1>3, <1>4, <1>5 DEF Next

\* No boot, exit or failure changes what the file says, for any sequence of
\* master keys, safe modes and crashes; only PATCHes do.
THEOREM FileIsLeftAlone == Spec => OnlyPatchesChangeTheFile
<1> DEFINE Changes == \/ TrueContent(disk') # TrueContent(disk)
                      \/ disk.kind = "unreadable" /\ disk' # disk
           Patching == \/ phase = "up" /\ phase' = "saving"
                       \/ phase = "saving" /\ phase' = "up"
<1>1. TypeOK /\ CreatesEmpty /\ [Next]_vars => [Changes => Patching]_vars
  <2> SUFFICES ASSUME TypeOK, CreatesEmpty, Next, ~Patching
               PROVE  ~Changes
    OBVIOUS
  <2>1. ASSUME NEW boot \in Boots, LaunchCreating(boot) PROVE ~Changes
    <3>1. disk.kind = "absent" /\ (disk' = disk \/ disk' = Truncated)
      BY <2>1 DEF LaunchCreating
    <3>2. TrueContent(disk) = Defaults
      BY <3>1, TrueContentOfNothing DEF TypeOK
    <3> QED
      BY <3>1, <3>2, TrueContentOfTruncated
  <2>2. CASE CreateFile
    <3>1. disk = Truncated /\ disk' = Encode(Defaults, NoKey)
      BY <2>2 DEF CreateFile, CreatesEmpty
    <3>2. disk.kind = "mapping"
      BY <3>1 DEF Truncated
    <3> QED
      BY <3>1, <3>2, TrueContentOfTruncated, TrueContentOfEncode, DefaultsType
  <2>3. ASSUME NEW boot \in Boots,
               LaunchSafe(boot) \/ LaunchReading(boot) \/ LaunchUnreadable(boot)
        PROVE  disk' = disk
    BY <2>3 DEF LaunchSafe, LaunchReading, LaunchUnreadable
  <2>4. CASE CreateFileFails \/ Lifespan \/ LifespanFails \/ Crash
    BY <2>4 DEF CreateFileFails, Lifespan, LifespanFails, Crash
  <2>5. ASSUME NEW patch \in Patches, PatchRejected(patch) \/ PatchCannotOpen(patch)
        PROVE  disk' = disk
    BY <2>5 DEF PatchRejected, PatchCannotOpen
  <2>6. ASSUME NEW patch \in Patches, Patch(patch) PROVE FALSE
    BY <2>6 DEF Patch
  <2>7. CASE Save \/ SaveFails
    BY <2>7 DEF Save, SaveFails
  <2> QED
    BY <2>1, <2>2, <2>3, <2>4, <2>5, <2>6, <2>7 DEF Next, Launch
<1>2. Init => CreatesEmpty
  BY DEF Init, CreatesEmpty
<1> QED
  BY <1>1, <1>2, NextCreatesEmpty, TypeCorrect, PTL
  DEF Spec, OnlyPatchesChangeTheFile

LEMMA LoadOfOpenable ==
  ASSUME NEW file, NEW key, OpensWith(file, key)
  PROVE  Load(file, key) = TrueContent(file)
  BY DEF OpensWith, Load, TrueContent, Decrypt

LEMMA EncodeOpens ==
  ASSUME NEW vals, NEW key
  PROVE  OpensWith(Encode(vals, key), key) /\ OpensWith(Encode(vals, NoKey), key)
  BY DEF OpensWith, Encode, SealingKey

LEMMA NextDurableInv ==
  ASSUME NEW key \in MaybeKey, ReliableWith(key),
         TypeOK, ReloadInv, DurableInv(key), [Next]_vars
  PROVE  DurableInv(key)'
<1> USE DEF DurableInv, NotRunning
<1>0. OpensWith(Truncated, key)
  BY DEF OpensWith, Truncated, EmptyMap
<1>1. ASSUME NEW boot \in Boots, Launch(boot) PROVE DurableInv(key)'
  <2>1. ~boot.safe /\ boot.env.master = key
    BY DEF ReliableWith
  <2>2. disk' = disk \/ disk' = Truncated
    BY <1>1 DEF Launch, LaunchSafe, LaunchReading, LaunchUnreadable,
                LaunchCreating
  <2>3. OpensWith(disk', key)
    BY <2>2, <1>0
  <2> QED
    BY <1>1, <2>1, <2>3 DEF Launch, LaunchSafe, LaunchReading,
                            LaunchUnreadable, LaunchCreating, FreshMemory
<1>2. ASSUME CreateFile PROVE DurableInv(key)'
  <2>1. OpensWith(disk', key)
    BY <1>2, EncodeOpens DEF CreateFile
  <2> QED
    BY <1>2, <2>1 DEF CreateFile
<1>3. ASSUME CreateFileFails PROVE DurableInv(key)'
  BY <1>3 DEF CreateFileFails
<1>4. ASSUME Lifespan \/ LifespanFails PROVE DurableInv(key)'
  BY <1>4 DEF Lifespan, LifespanFails
<1>5. ASSUME NEW patch \in Patches, PatchRejected(patch)
      PROVE  DurableInv(key)'
  BY <1>5 DEF PatchRejected
<1>6. ASSUME NEW patch \in Patches, Patch(patch) PROVE DurableInv(key)'
  <2>1. Synced /\ phase = "up"
    BY <1>6 DEF Patch, Synced, TypeOK
  <2>2. masterKey = key
    BY <2>1 DEF masterKey, MaybeKey
  <2>3. values = TrueContent(disk)
    BY <2>1, <2>2, LoadOfOpenable DEF ReloadInv, ReloadRestores
  <2> QED
    BY <1>6, <1>0, <2>1, <2>3 DEF Patch
<1>7. ASSUME NEW patch \in Patches, PatchCannotOpen(patch)
      PROVE  DurableInv(key)'
  BY <1>7 DEF PatchCannotOpen, ReliableWith
<1>8. ASSUME Save PROVE DurableInv(key)'
  <2>1. masterKey = key
    BY <1>8 DEF Save, masterKey, MaybeKey
  <2>2. OpensWith(disk', key)
    BY <1>8, <2>1, EncodeOpens DEF Save
  <2> QED
    BY <1>8, <2>2 DEF Save
<1>9. ASSUME SaveFails PROVE DurableInv(key)'
  BY <1>9 DEF SaveFails, ReliableWith
<1>10. ASSUME Crash PROVE DurableInv(key)'
  BY <1>10 DEF Crash, FreshMemory
<1>11. ASSUME UNCHANGED vars PROVE DurableInv(key)'
  BY <1>11 DEF vars, OpensWith
<1> QED
  BY <1>1, <1>2, <1>3, <1>4, <1>5, <1>6, <1>7, <1>8, <1>9, <1>10, <1>11
     DEF Next

LEMMA NextImplements ==
  ASSUME NEW key \in MaybeKey, ReliableWith(key),
         TypeOK, DurableInv(key), [Next]_vars
  PROVE  [Durable!Next]_Stored
<1> USE DEF Stored, DurableInv, NotRunning
<1>1. ASSUME NEW boot \in Boots, Launch(boot) PROVE Stored' = Stored
  <2>1. /\ phase \notin {"saving"} /\ phase' \notin {"saving"}
        /\ \/ disk' = disk
           \/ disk.kind = "absent" /\ disk' = Truncated
    BY <1>1 DEF Launch, LaunchSafe, LaunchReading, LaunchUnreadable,
                LaunchCreating
  <2>2. ASSUME disk.kind = "absent" PROVE TrueContent(disk) = Defaults
    BY <2>2 DEF TypeOK, IsFile, TrueContent, EmptyMap, Defaults
  <2> QED
    BY <2>1, <2>2, TrueContentOfTruncated
<1>2. ASSUME CreateFile PROVE Stored' = Stored
  <2>1. TrueContent(disk) = Defaults
    BY <1>2, TrueContentOfTruncated DEF CreateFile
  <2>2. TrueContent(disk') = Defaults
    BY <1>2, TrueContentOfEncode, DefaultsType DEF CreateFile
  <2> QED
    BY <1>2, <2>1, <2>2 DEF CreateFile
<1>3. ASSUME CreateFileFails \/ Lifespan \/ LifespanFails
      PROVE  Stored' = Stored
  BY <1>3 DEF CreateFileFails, Lifespan, LifespanFails
<1>4. ASSUME NEW patch \in Patches,
             PatchRejected(patch) \/ Patch(patch) \/ PatchCannotOpen(patch)
      PROVE  Stored' = Stored
  BY <1>4 DEF PatchRejected, Patch, PatchCannotOpen
<1>5. ASSUME Save PROVE Durable!Next
  <2>1. Stored = before /\ Stored' = values
    BY <1>5, TrueContentOfEncode DEF Save, TypeOK
  <2>2. request \in Patches /\ values = Patched(before, request)
    BY <1>5 DEF Save
  <2>3. Durable!Update(request)
    BY <2>1, <2>2 DEF Durable!Update
  <2> QED
    BY <2>2, <2>3 DEF Durable!Next
<1>6. ASSUME SaveFails PROVE FALSE
  BY <1>6 DEF SaveFails, ReliableWith
<1>7. ASSUME Crash PROVE [Durable!Next]_Stored
  <2>1. CASE phase = "saving"
    <3>1. Stored' = Defaults
      BY <1>7, <2>1, TrueContentOfTruncated DEF Crash
    <3> QED
      BY <3>1 DEF Durable!Lose, Durable!Next
  <2>2. CASE phase # "saving"
    BY <1>7, <2>2 DEF Crash
  <2> QED
    BY <2>1, <2>2
<1>8. ASSUME UNCHANGED vars PROVE Stored' = Stored
  BY <1>8 DEF vars
<1> QED
  BY <1>1, <1>2, <1>3, <1>4, <1>5, <1>6, <1>7, <1>8 DEF Next

\* Under one master key, outside safe mode and on a disk that works, the file
\* changes by whole PATCHes that move the accepted keys and no other, or is
\* wiped by a crash inside one; no sequence of restarts makes a mixture.
THEOREM StoreIsDurable ==
  ASSUME NEW key \in MaybeKey, ReliableWith(key)
  PROVE  Spec => ImplementsDurableConfig
<1>1. Init => ReloadInv
  BY DEF Init, ReloadInv, NothingWrittenBeforeUp, ReloadRestores
<1>2. TypeOK /\ ReloadInv /\ [Next]_vars => ReloadInv'
  BY NextReloadInv
<1>3. Init => DurableInv(key)
  BY DEF Init, DurableInv, ReliableWith, NotRunning
<1>4. TypeOK /\ ReloadInv /\ DurableInv(key) /\ [Next]_vars => DurableInv(key)'
  BY NextDurableInv
<1>5. Init => Durable!Init
  BY DEF Init, Durable!Init, Stored
<1>6. TypeOK /\ DurableInv(key) /\ [Next]_vars => [Durable!Next]_Stored
  BY NextImplements
<1> QED
  BY <1>1, <1>2, <1>3, <1>4, <1>5, <1>6, TypeCorrect, PTL
     DEF Spec, ImplementsDurableConfig, Durable!Spec
=============================================================================

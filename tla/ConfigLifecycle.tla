--------------------------- MODULE ConfigLifecycle ---------------------------
(***************************************************************************)
(* AquaCore::Config::ConfigLifecycle over one StorageService: a boot loads *)
(* the newest stored record, migrates, validates and applies it; an update *)
(* validates a proposal, stores it and only then applies it.  The power    *)
(* may fail at any time, also in the middle of a save, and a boot may run  *)
(* an older or a newer firmware than the last one.                         *)
(*                                                                         *)
(* A payload stands for the settings a record holds; decoding, migrating   *)
(* and encoding keep the settings and change the schema.  The adapter is   *)
(* the project's: which settings it accepts and which need a restart are   *)
(* parameters, and its apply and its migration may fail.                   *)
(***************************************************************************)
EXTENDS DualSlotStorage

CONSTANTS Default,        \* what buildDefaults makes
          Accepts,        \* Accepts[schema]: settings that pass validateCandidate
          RestartOnly,    \* settings that classify says need a restart
          MaxMigrations,  \* maximumMigrationSteps
          MaxMisreads, MaxWriteFaults, MaxBoots, MaxSaves   \* bounds of the exploration

ASSUME AdapterAssumption ==
  /\ Default \in Payloads
  /\ Accepts \in [Schemas -> SUBSET Payloads]
  /\ RestartOnly \subseteq Payloads
  /\ MaxMigrations \in Nat

VARIABLES
  schema,         \* currentSchemaVersion of the running firmware
  allowDefaults,  \* ConfigLifecycleOptions::allowDefaultsForCorruptStorage
  power,          \* "off", or "on" from startup() to the next power failure
  status,         \* ConfigLifecycleStatus
  active,         \* the settings last given to commitActive
  boots, saves,   \* counters, for the bounds
  \* What an observer of the results knows:
  promised,       \* <<schema, payload>> pairs the flash may rightly hold as newest
  everSaved       \* a save has been acknowledged

lifecycle == <<schema, allowDefaults, power, status, active>>
ghost == <<promised, everSaved>>
configVars == <<flash, store, misreads, writeFaults, lifecycle, boots, saves, ghost>>

Fresh == [source |-> "None", hasActive |-> FALSE, aligned |-> FALSE,
          restart |-> FALSE, recovery |-> FALSE, degraded |-> FALSE,
          last |-> "NotAttempted"]
NoActive == NoPayload

Newest == IF RawLatest(flash) = NoSlot THEN EmptyBlob ELSE flash[RawLatest(flash)]

\* Slots misread, within the bound.  A read fails only while no write has: after
\* a write that landed unreported, a misread of that very slot is a second,
\* dependent failure that two slots cannot mask.
Misreading(n) ==
  /\ n > 0 => misreads + n =< MaxMisreads /\ writeFaults = 0
  /\ misreads' = misreads + n

(***************************************************************************)
(* The adapter's part: a candidate is acceptable, a stored record can be    *)
(* brought to a firmware's schema, one step of migration per release, and   *)
(* what loadLatestRaw found is what startup() is told.                      *)
(***************************************************************************)
Valid(v, p) == p \in Accepts[v]
SupportsEverything(blob, v) == TRUE   \* mutant: no refusal of a newer schema
Supported(blob, v) == blob.schema =< v
Decodes(v, blob) == Supported(blob, v) /\ v - blob.schema =< MaxMigrations
Loaded(result) == IF result = "NoValidRecord" THEN "Corrupt" ELSE result

\* A device fresh from the factory, or one that has been saving for long.
ConfigInit ==
  /\ allowDefaults \in BOOLEAN
  /\ \/ /\ flash = [s \in Slot |-> EmptyBlob]
        /\ promised = {} /\ everSaved = FALSE
     \/ \E g \in Gens, v \in Schemas, p \in Payloads :
          /\ Valid(v, p)
          /\ flash = [s \in Slot |-> IF s = "A" THEN Intact(v, g, p)
                                     ELSE Intact(v, (g - 1) % GenMod, Default)]
          /\ promised = {<<v, p>>} /\ everSaved = TRUE
  /\ store = Closed /\ misreads = 0 /\ writeFaults = 0
  /\ schema \in Schemas
  /\ power = "off" /\ status = Fresh /\ active = NoActive
  /\ boots = 0 /\ saves = 0

(***************************************************************************)
(* persistCandidate: store p, with the status the caller gives to a save   *)
(* that succeeded and to one that failed.                                  *)
(***************************************************************************)
Acknowledged(result) == result \in {"Success", "NoChange"}

\* An acknowledged save replaces what the flash may hold, any other adds to it.
Promise(result, p, v) ==
  /\ promised' = IF Acknowledged(result) THEN {<<v, p>>} ELSE promised \cup {<<v, p>>}
  /\ everSaved' = (everSaved \/ Acknowledged(result))

\* The power fails: everything in RAM is gone.
Down ==
  /\ power' = "off" /\ status' = Fresh /\ active' = NoActive

\* What a call of saveCurrentRaw leaves in the flash and in the service.
Stores(outcome) ==
  /\ flash' = outcome.flash /\ store' = outcome.store
  /\ Misreading(outcome.misreads)

\* A call that persists p under firmware schema v, st being the store it starts
\* from; settled and failed are the status and the active settings it returns with.
Persisting(p, v, outcome, settled, failed) ==
  /\ saves < MaxSaves /\ saves' = saves + 1
  /\ Stores(outcome)
  /\ writeFaults' = writeFaults + (IF outcome.result = "Failed" THEN 1 ELSE 0)
  /\ writeFaults' =< MaxWriteFaults
  /\ Promise(outcome.result, p, v)
  /\ IF outcome.result = "Crash" THEN Down
     ELSE LET end == IF Acknowledged(outcome.result) THEN settled ELSE failed
          IN  /\ power' = "on" /\ status' = end.status /\ active' = end.active

Failed(st, result, recovery) ==
  IF recovery THEN [st EXCEPT !.last = result, !.recovery = TRUE, !.degraded = TRUE]
  ELSE [st EXCEPT !.last = result]

\* applyAndCommit succeeded.
Committed(st, source) == [st EXCEPT !.source = source, !.hasActive = TRUE]

(***************************************************************************)
(* startup() loads and decides; a boot that has nothing to write is over   *)
(* in one step.  One that has goes through the phase "storing", in which   *)
(* the settings are applied and the write is still to come.                *)
(***************************************************************************)
Stop(name) == power' = "on" /\ status' = Failed(Fresh, name, TRUE) /\ active' = NoActive
Run(st, p) == power' = "on" /\ status' = st /\ active' = p
Store(st, p) == power' = "storing" /\ status' = st /\ active' = p

\* useDefaults, up to the point where it persists.
UseDefaults(v, persist) ==
  \/ ~Valid(v, Default) /\ Stop("ValidationFailed")
  \/ Valid(v, Default) /\ Stop("ApplyFailed")
  \/ Valid(v, Default) /\ persist /\ Store(Committed(Fresh, "Defaults"), Default)
  \/ /\ Valid(v, Default) /\ ~persist
     /\ Run(Failed(Committed(Fresh, "Defaults"), "RecoveryRequired", TRUE), Default)

\* applyAndCommit of an acceptable record; a migrated one is written back.
UseRecord(v, record) ==
  \/ Stop("ApplyFailed")
  \/ /\ record.schema >= v
     /\ Run([Committed(Fresh, "Stored") EXCEPT !.aligned = TRUE, !.last = "Success"],
            record.payload)
  \/ record.schema < v /\ Store(Committed(Fresh, "Migrated"), record.payload)

LoadAndApply(v, blobs) ==
  LET result == Loaded(LoadResult(blobs))
      record == blobs[RawLatest(blobs)]
  IN  \/ result = "Empty" /\ UseDefaults(v, TRUE)
      \/ result = "Corrupt" /\ allowDefaults /\ UseDefaults(v, FALSE)
      \/ result = "Corrupt" /\ ~allowDefaults /\ Stop("RecoveryRequired")
      \/ /\ result = "Success"
         /\ \/ ~Supported(record, v) /\ Stop("UnsupportedVersion")
            \/ record.schema < v /\ Stop("MigrationFailed")
            \/ Decodes(v, record) /\ ~Valid(v, record.payload) /\ Stop("ValidationFailed")
            \/ Decodes(v, record) /\ Valid(v, record.payload) /\ UseRecord(v, record)

\* begin() and startup() under firmware schema v.
Boot(v, glance) ==
  /\ power = "off" /\ boots < MaxBoots /\ boots' = boots + 1
  /\ schema' = v
  /\ Misreading(Cardinality(Misread(glance)))
  /\ store' = LoadLatestRaw(Begin(v, flash), Sees(glance))
  /\ LoadAndApply(v, Sees(glance))
  /\ UNCHANGED <<flash, writeFaults, allowDefaults, saves, ghost>>

\* The write at the end of startup(): defaults on an empty flash, or the
\* migrated record.
StartupPersist ==
  /\ power = "storing"
  /\ LET done == IF status.source = "Defaults" THEN "DefaultsApplied" ELSE "Migrated"
     IN  \E outcome \in SaveOutcomes(active, schema) :
           Persisting(active, schema, outcome,
             [status |-> [status EXCEPT !.aligned = TRUE, !.last = done], active |-> active],
             [status |-> [status EXCEPT !.aligned = FALSE, !.degraded = TRUE,
                                        !.last = "PersistFailed"], active |-> active])
  /\ UNCHANGED <<schema, allowDefaults, boots>>

\* update() refuses: nothing is active yet, or the proposal is not acceptable.
UpdateRefused(p) ==
  /\ power = "on"
  /\ \/ ~status.hasActive /\ status' = [status EXCEPT !.last = "InvalidArgument"]
     \/ status.hasActive /\ ~Valid(schema, p)
        /\ status' = [status EXCEPT !.last = "ValidationFailed"]
  /\ UNCHANGED <<flash, store, misreads, writeFaults, schema, allowDefaults, power, active,
                 boots, saves, ghost>>

\* The status of an update that is stored and waits for a restart.
AwaitsRestart(st) ==
  [st EXCEPT !.aligned = FALSE, !.restart = TRUE, !.recovery = FALSE,
             !.degraded = FALSE, !.last = "RestartRequired"]
\* ... that is stored and could not be applied ...
ApplyFailure(st) ==
  [st EXCEPT !.aligned = FALSE, !.restart = FALSE, !.recovery = TRUE,
             !.degraded = TRUE, !.last = "ApplyFailed"]
\* ... and that is stored and in force.
InForce(st, result) ==
  [st EXCEPT !.source = "Stored", !.aligned = TRUE, !.restart = FALSE,
             !.recovery = FALSE, !.degraded = FALSE,
             !.last = IF result = "NoChange" THEN "NoChange" ELSE "Success"]
\* mutant: the failed save is forgotten
NotReported(st) == [st EXCEPT !.last = "PersistFailed"]
\* An update whose save failed only becomes degraded.
NotPersisted(st) == [st EXCEPT !.degraded = TRUE, !.last = "PersistFailed"]

Update(p) ==
  /\ power = "on" /\ status.hasActive /\ Valid(schema, p)
  /\ \E outcome \in SaveOutcomes(p, schema) :
       \E settled \in
            IF p \in RestartOnly
              THEN {[status |-> AwaitsRestart(status), active |-> active]}
              ELSE {[status |-> ApplyFailure(status), active |-> active],
                    [status |-> InForce(status, outcome.result), active |-> p]} :
         Persisting(p, schema, outcome, settled,
                    [status |-> NotPersisted(status), active |-> active])
  /\ UNCHANGED <<schema, allowDefaults, boots>>

PowerLoss ==
  /\ power # "off"
  /\ Down
  /\ store' = Closed
  /\ UNCHANGED <<flash, misreads, writeFaults, schema, allowDefaults, boots, saves,
                 promised, everSaved>>

ConfigNext ==
  \/ \E v \in Schemas, glance \in Glances(LoadFaults) : Boot(v, glance)
  \/ StartupPersist
  \/ \E p \in Payloads : UpdateRefused(p) \/ Update(p)
  \/ PowerLoss

ConfigSpec == ConfigInit /\ [][ConfigNext]_configVars

(***************************************************************************)
(* Once a save was acknowledged, the newest intact record is that one or   *)
(* one that a later, failed or interrupted, save wrote: no failed write,   *)
(* restart, migration or wrap of the generation brings back an older       *)
(* configuration or leaves none, even when a read fails in the middle of   *)
(* a save (StorageService::save, rawBaseForSave_).                         *)
(***************************************************************************)
AcknowledgedSurvives ==
  everSaved => Newest.kind = "intact" /\ <<Newest.schema, Newest.payload>> \in promised

(***************************************************************************)
(* Firmware never writes while a newer firmware's record is the newest one *)
(* (startup's UnsupportedVersion leaves no active configuration, and       *)
(* update() refuses without one).                                          *)
(***************************************************************************)
NewerSchemaUntouched ==
  [][flash' # flash => Newest.schema =< schema]_configVars

\* The stored settings are not the running ones.
Drift == /\ power = "on" /\ status.hasActive
         /\ <<Newest.schema, Newest.payload>> # <<schema, active>>

\* Every drift shows in one of the status flags.
DriftIsReported ==
  Drift => status.restart \/ status.recovery \/ status.degraded

(***************************************************************************)
(* docs/ARCHITECTURE_VNEXT_DECISIONS.md:1952: stored settings that differ  *)
(* from the running ones exist only as an explicit restart-required or     *)
(* recovery-required divergence, "never as hidden drift".  A status that   *)
(* says neither, and says aligned, would be hidden drift.                  *)
(***************************************************************************)
NoHiddenDrift ==
  Drift => status.restart \/ status.recovery \/ ~status.aligned

(***************************************************************************)
(* docs/ARCHITECTURE_VNEXT_DECISIONS.md:1934: when a read failure cannot   *)
(* be told from an empty storage, the defaults are not written.            *)
(***************************************************************************)
DefaultsOnlyOnEmptyFlash ==
  [][status'.last = "DefaultsApplied" /\ status.last # "DefaultsApplied"
       => \A s \in Slot : flash[s].kind # "intact"]_configVars
=============================================================================

--------------------------- MODULE DualSlotStorage ---------------------------
(***************************************************************************)
(* AquaCore::Config::StorageService: one logical record kept in two NVS    *)
(* blobs, A and B.  Every record carries the schema it was written under   *)
(* and a generation; the newest record that reads back intact is the       *)
(* current one, and a save always goes to the other slot.                  *)
(*                                                                         *)
(* The flash behind StorageBackend may fail: a read may find a blob        *)
(* unreadable or report it absent, a write may be cut short, damage the    *)
(* blob or land without being reported, and the power may fail during it.  *)
(* The service is used by one task, so a call is one step; only a power    *)
(* failure cuts a call short.                                              *)
(***************************************************************************)
EXTENDS Integers, FiniteSets

CONSTANTS Payloads,     \* the contents a record can have
          Schemas,      \* schema versions that firmware releases have used
          GenMod,       \* generations are kept modulo 2^32 in the code
          LoadFaults,   \* how a read of a boot may go wrong: "unreadable", "absent"
          SaveFaults    \* ... and a read of a save

ASSUME GenModAssumption == GenMod \in Nat /\ GenMod > 3 /\ GenMod % 2 = 0
ASSUME SchemasAssumption == Schemas \subseteq Nat /\ Schemas # {}
ASSUME ReadFaultsAssumption == LoadFaults \cup SaveFaults \subseteq {"unreadable", "absent"}

VARIABLES
  flash,   \* the two blobs, which survive a restart
  store,   \* the members of StorageService, in RAM
  misreads, writeFaults   \* slots misread and writes failed so far, for the bounds

Slot == {"A", "B"}
NoSlot == "none"
Gens == 0..(GenMod - 1)
NoPayload == "-"

Blob == [kind : {"empty", "damaged", "intact"}, schema : Schemas \cup {0},
         gen : Gens, payload : Payloads \cup {NoPayload}]

EmptyBlob == [kind |-> "empty", schema |-> 0, gen |-> 0, payload |-> NoPayload]
DamagedBlob == [EmptyBlob EXCEPT !.kind = "damaged"]
Intact(v, g, p) == [kind |-> "intact", schema |-> v, gen |-> g, payload |-> p]

Other(s) == IF s = "A" THEN "B" ELSE "A"

\* isGenerationNewer: unsigned distance below half of the range.
Newer(candidate, reference) ==
  LET distance == (candidate - reference) % GenMod
  IN  distance # 0 /\ distance < GenMod \div 2

(***************************************************************************)
(* What one call reads: each slot as it is, or as the failing backend      *)
(* shows it.  A view costs one failure per slot it misreads.               *)
(***************************************************************************)
Glances(readFaults) == [Slot -> {"fine"} \cup readFaults]
Misread(glance) == {s \in Slot : glance[s] # "fine" /\ flash[s].kind # "empty"}
Sees(glance) ==
  [s \in Slot |-> CASE glance[s] = "unreadable" /\ flash[s].kind # "empty" -> DamagedBlob
                    [] glance[s] = "absent" -> EmptyBlob
                    [] OTHER -> flash[s]]

\* The newest of the slots in ok: B only when it is newer than a valid A.
NewestOf(blobs, ok) ==
  CASE ok = {} -> NoSlot
    [] "B" \in ok /\ ("A" \notin ok \/ Newer(blobs["B"].gen, blobs["A"].gen)) -> "B"
    [] OTHER -> "A"

\* readRawSlot accepts a record of any schema, readSlot only the firmware's own.
RawLatest(blobs) == NewestOf(blobs, {s \in Slot : blobs[s].kind = "intact"})
SelectLatest(blobs, schema) ==
  NewestOf(blobs, {s \in Slot : blobs[s].kind = "intact" /\ blobs[s].schema = schema})

Closed == [open |-> FALSE, active |-> NoSlot, activeGen |-> 0,
           base |-> NoSlot, baseGen |-> 0]

\* The record the status calls active.
Refresh(st, blobs, schema) ==
  LET s == SelectLatest(blobs, schema)
  IN  [st EXCEPT !.active = s, !.activeGen = IF s = NoSlot THEN 0 ELSE blobs[s].gen]

Begin(schema, blobs) == Refresh([Closed EXCEPT !.open = TRUE], blobs, schema)

\* loadLatestRaw: what it returns, and the raw base it leaves.
LoadResult(blobs) ==
  CASE RawLatest(blobs) # NoSlot -> "Success"
    [] \A s \in Slot : blobs[s].kind = "empty" -> "Empty"
    [] OTHER -> "NoValidRecord"
LoadLatestRaw(st, blobs) ==
  LET s == RawLatest(blobs)
  IN  [st EXCEPT !.base = s, !.baseGen = IF s = NoSlot THEN 0 ELSE blobs[s].gen]

\* The record a save builds on: the current one, unless the raw base that was
\* loaded is newer than everything this firmware can select.
IgnoresRawBase(st, blobs, current) == TRUE   \* mutant
CoversRawBase(st, blobs, current) ==
  \/ st.base = NoSlot
  \/ current # NoSlot /\ current = st.base /\ blobs[current].gen = st.baseGen
  \/ Newer(IF current = NoSlot THEN 0 ELSE blobs[current].gen, st.baseGen)
SaveBase(st, blobs, schema) ==
  LET current == SelectLatest(blobs, schema)
  IN  IF current # NoSlot /\ CoversRawBase(st, blobs, current)
        THEN [slot |-> current, gen |-> blobs[current].gen, own |-> TRUE]
        ELSE [slot |-> st.base, gen |-> st.baseGen, own |-> FALSE]
SaveTarget(base) == IF base.slot = "A" THEN "B" ELSE "A"
SaveGen(base) == IF base.slot = NoSlot THEN 1 ELSE (base.gen + 1) % GenMod

\* Where an acknowledged save leaves the service.
Rebased(st, slot, gen) ==
  [st EXCEPT !.active = slot, !.activeGen = gen, !.base = slot, !.baseGen = gen]

(***************************************************************************)
(* saveCurrentRaw: every way a save of payload p under a schema can end.   *)
(* "Crash" is the power failing while the blob is being written.           *)
(***************************************************************************)
SaveOutcomes(p, schema) ==
  {[flash |-> flash, store |-> Rebased(store, SaveBase(store, Sees(g), schema).slot,
                                       SaveBase(store, Sees(g), schema).gen),
    result |-> "NoChange", misreads |-> Cardinality(Misread(g))] :
     g \in {h \in Glances(SaveFaults) :
              LET base == SaveBase(store, Sees(h), schema)
              IN  base.own /\ Sees(h)[base.slot].payload = p}}
  \cup
  UNION {LET base == SaveBase(store, Sees(g), schema)
             slot == SaveTarget(base)
             blob == Intact(schema, SaveGen(base), p)
             reads == Cardinality(Misread(g))
             After(written) == [flash EXCEPT ![slot] = written]
         IN  {[flash |-> After(blob), store |-> Rebased(store, slot, blob.gen),
               result |-> "Success", misreads |-> reads]}
             \cup {[flash |-> After(written),
                    store |-> Refresh(store, After(written), schema),
                    result |-> "Failed", misreads |-> reads] :
                     written \in {flash[slot], DamagedBlob, blob}}
             \cup {[flash |-> After(written), store |-> Closed,
                    result |-> "Crash", misreads |-> reads] :
                     written \in {flash[slot], DamagedBlob, blob}}
         : g \in {h \in Glances(SaveFaults) :
                    LET base == SaveBase(store, Sees(h), schema)
                    IN  ~(base.own /\ Sees(h)[base.slot].payload = p)}}
=============================================================================

----------------------------- MODULE PushPath -----------------------------
(***************************************************************************)
(* What a device says on its way through a spoke's walkers, the hub's      *)
(* payload validation (internal/federation/hub_validate.go), the snapshot  *)
(* the hub writes and the restart that loads it                            *)
(* (internal/snapshot/snapshot.go).                                        *)
(*                                                                         *)
(* A text is its length in bytes and whether it holds a control character. *)
(* All texts of a payload are plain but one, the odd one.  JSON replaces   *)
(* invalid UTF-8 on both sides of the wire, so no payload holds any.       *)
(***************************************************************************)
EXTENDS TopologyGraph

CONSTANTS Walks,        \* what the walkers of one cycle may find: sequences of edges
          Inventories,  \* the device names of the targets, in the order of the configuration
          Raw           \* texts a device may answer with

ASSUME RawAssumption == Raw \subseteq [len : Nat, control : BOOLEAN]
ASSUME InventoryAssumption == Inventories \subseteq Seq(Nat)

VARIABLES payload,   \* what is pushed: [from, devices, edges, field, text]
          verdict,   \* the hub's answer
          restored   \* what the restart made of the hub's snapshot

pushVars == <<payload, verdict, restored>>

Text(len, control) == [len |-> len, control |-> control]
Plain == Text(8, FALSE)

DeviceFields   == {"id", "vendor", "model", "os_version", "site", "label_key", "label_value"}
EdgeFields     == {"src_device", "src_port", "dst_device", "dst_port", "proto", "link_kind",
                   "metadata_key", "metadata_value"}
NeighbourFields == {"reporting_device", "reporting_port", "hint", "oos_proto"}
Fields == DeviceFields \cup EdgeFields \cup NeighbourFields

-----------------------------------------------------------------------------
(* internal/limits and the caps of the two validators                      *)

MaxDeviceIDBytes   == 256
MaxPortNameBytes   == 256
MaxLabelKeyBytes   == 256
MaxLabelValueBytes == 4096
maxShortFieldBytes == 256
maxProtoBytes      == 64

\* The cap of validateSpokePayload on a field.
PushCap(f) ==
    CASE f = "id" -> MaxDeviceIDBytes
      [] f \in {"label_key", "metadata_key"} -> MaxLabelKeyBytes
      [] f \in {"vendor", "model", "os_version", "site", "label_value", "metadata_value"} -> MaxLabelValueBytes
      [] OTHER -> MaxPortNameBytes

\* The cap of validateSnapshotFields on the same field.
SnapshotCap(f) ==
    CASE f \in {"id", "src_device", "dst_device", "reporting_device", "hint"} -> MaxDeviceIDBytes
      [] f \in {"src_port", "dst_port", "reporting_port"} -> MaxPortNameBytes
      [] f \in {"label_key", "metadata_key"} -> MaxLabelKeyBytes
      [] f \in {"label_value", "metadata_value"} -> MaxLabelValueBytes
      [] f \in {"vendor", "model", "os_version", "site"} -> maxShortFieldBytes
      [] OTHER -> maxProtoBytes

-----------------------------------------------------------------------------
(* the walkers' sanitising                                                 *)

Shorter(t, n) == Text(IF t.len > n THEN n ELSE t.len, t.control)

SanitisePortName(t) == Shorter(Text(t.len, FALSE), 255)

NormaliseName(t) == Shorter(Text(t.len, FALSE), 255)

\* A version token, when sysDescr has one, else its first 64 bytes as they are.
normalizeSysDescr(t, version) == IF version THEN Plain ELSE Shorter(t, 64)

\* The device-supplied fields, and what the walker makes of the answer.
Walked(f, t, version) ==
    CASE f \in {"id", "dst_device", "hint"} -> NormaliseName(t)
      [] f \in {"src_port", "dst_port", "reporting_port"} -> SanitisePortName(t)
      [] f = "os_version" -> normalizeSysDescr(t, version)
      [] OTHER -> Plain

\* The first device of each name.
DeduplicateDevices(s) == Kept(s, {i \in DOMAIN s : \A j \in 1..(i - 1) : s[j] # s[i]})

-----------------------------------------------------------------------------
(* the hub's validation of a payload, and the loader's of a snapshot       *)

\* Mutated form: one generous cap for every field.
LabelStringUncapped(f, t) == t.len <= MaxLabelValueBytes /\ ~t.control

\* validateLabelKey, validateLabelValue, validateMetricLabelString and the caps
\* before them.
validateField(f, t) == t.len <= PushCap(f) /\ t.len <= MaxLabelValueBytes /\ ~t.control

FieldReason(f, t) ==
    CASE f \in {"label_key", "metadata_key"} -> "invalid_label_key"
      [] f \notin {"vendor", "model", "os_version", "site", "label_value", "metadata_value"}
            /\ t.len > PushCap(f) -> "structural_invalid"
      [] OTHER -> "invalid_label_value"

EdgeShape(e) == e.src # 0 /\ e.sp # 0 /\ e.dst # 0 /\ e.src # e.dst

validateSpokePayload(p) ==
    LET \* the part of the payload that the odd text is in
        odd(part) == p.field \in part /\ ~validateField(p.field, p.text)
        duplicate == \E i, j \in DOMAIN p.devices : i < j /\ p.devices[i] = p.devices[j]
    IN  CASE odd(DeviceFields) -> FieldReason(p.field, p.text)
          [] ~odd(DeviceFields) /\ (duplicate \/ 0 \in Range(p.devices)) -> "structural_invalid"
          [] OTHER -> IF \E e \in p.edges : ~EdgeShape(e) THEN "structural_invalid"
                      ELSE IF odd(EdgeFields \cup NeighbourFields) THEN FieldReason(p.field, p.text)
                      ELSE "ok"

validateSnapshotFields(p) == p.text.len <= SnapshotCap(p.field)

-----------------------------------------------------------------------------
PushPathInit == payload = [from |-> "nobody"] /\ verdict = "none" /\ restored = "none"

\* A spoke's cycle: the walkers, Reconcile, DeduplicateDevices; publish sends the
\* result as it is.
Discover ==
    \E walk \in Walks, inventory \in Inventories, f \in Fields, t \in Raw, version \in BOOLEAN :
        /\ payload.from = "nobody"
        /\ payload' = [from |-> "spoke", devices |-> DeduplicateDevices(inventory),
                       edges |-> ReconciledEdges(walk), field |-> f, text |-> Walked(f, t, version)]
        /\ UNCHANGED <<verdict, restored>>

\* A spoke of another build pushes what it likes.
ForeignPush ==
    \E inventory \in Inventories, edges \in {Range(w) : w \in Walks}, f \in Fields, t \in Raw :
        /\ payload.from = "nobody"
        /\ payload' = [from |-> "elsewhere", devices |-> inventory, edges |-> edges,
                       field |-> f, text |-> t]
        /\ UNCHANGED <<verdict, restored>>

Answer ==
    /\ payload.from # "nobody" /\ verdict = "none"
    /\ verdict' = validateSpokePayload(payload)
    /\ UNCHANGED <<payload, restored>>

\* The hub wrote the accepted payload to its snapshot, and is restarted.
LoadAfterRestart ==
    /\ verdict = "ok" /\ restored = "none"
    /\ restored' = IF validateSnapshotFields(payload) THEN "loaded" ELSE "discarded"
    /\ UNCHANGED <<payload, verdict>>

\* The next push of the spoke.
Settled ==
    /\ verdict \notin {"none", "ok"} \/ restored # "none"
    /\ payload' = [from |-> "nobody"] /\ verdict' = "none" /\ restored' = "none"

PushPathNext == Discover \/ ForeignPush \/ Answer \/ LoadAfterRestart \/ Settled
PushPathSpec == PushPathInit /\ [][PushPathNext]_pushVars

-----------------------------------------------------------------------------
\* The hub refuses nothing that a spoke's own discovery found: a refusal of one
\* field loses the whole push.  It holds of links whose both ports are known and of
\* sysDescr texts that carry a version or no control character.
DiscoveredIsPushable == payload.from = "spoke" /\ verdict # "none" => verdict = "ok"

\* A restart keeps every accepted graph: the loader of the snapshot refuses no text
\* the validator of the push let in.  The two caps agree on all but the seven fields
\* that the snapshot caps tighter, whose texts fit those.
AcceptedIsLoadable ==
    /\ restored = "discarded" => payload.field \in {"vendor", "model", "os_version", "site",
                                                    "proto", "link_kind", "oos_proto"}
    /\ payload.from = "spoke" => restored # "discarded"

\* The hub refuses a spoke's own discovery for one of three causes only: a device without
\* a name, an edge without a source port or with an end missing, and control characters
\* in the version text that was cut from sysDescr.
RefusedForCause ==
    payload.from = "spoke" /\ verdict \notin {"none", "ok"} =>
      \/ 0 \in Range(payload.devices)
      \/ \E e \in payload.edges : ~EdgeShape(e)
      \/ payload.field = "os_version" /\ payload.text.control
=============================================================================

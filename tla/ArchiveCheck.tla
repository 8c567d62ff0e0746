---------------------------- MODULE ArchiveCheck ----------------------------
(***************************************************************************)
(* verifyArchive and unlockArchive (trace.ts): what a reader says of an    *)
(* archive it did not write.  Verification needs no secret: the index,     *)
(* the manifest, the ledger and the vault's presence agree with each       *)
(* other.  Unlocking opens the vault, which is bound to the manifest, the  *)
(* ledger and the graph, and checks that it holds the evidence the ledger  *)
(* speaks of.  An archive is entries by name and the index over them.      *)
(***************************************************************************)
EXTENDS TraceLedger

Has(a, name) == name \in DOMAIN a.entries
Events(a) == a.entries.events
Ledger(a) == {Events(a)[i] : i \in DOMAIN Events(a)}
HasVault(a) == Has(a, "enc") /\ Has(a, "meta")

\* A set of errors: the named one, if the condition holds.
When(condition, name) == IF condition THEN {name} ELSE {}

Required == {"manifest", "graph", "events"}

\* The index names exactly the entries, with their hashes.
IndexErrors(a) ==
  When(\E n \in DOMAIN a.entries \cap DOMAIN a.index : Hash(a.entries[n]) # a.index[n], "hash mismatch")
    \cup When(DOMAIN a.entries \ DOMAIN a.index # {}, "missing from integrity index")
    \cup When(DOMAIN a.index \ DOMAIN a.entries # {}, "integrity index has extra entries")

ManifestErrors(a) ==
  When(a.entries.manifest.status \notin {"complete", "failed", "interrupted"}, "manifest status")
    \cup When(a.entries.manifest.profile \notin {"audit", "replay", "publication"}, "manifest profile")

\* Mutant: annotations are checked like live events.
PlacementErrorsOfAll(a, e) ==
  When(e.kind \notin Kinds, "kind")
    \cup When(e.run # a.entries.manifest.trace, "run_id")
    \cup When(e.seq = 0, "sequence")
    \cup When(e.kind \in StageKinds /\ (e.stage = None \/ e.visit = 0), "stage_visit_id")

\* One record: its kind, its run, its number, and where it stands.
PlacementErrors(a, e) ==
  When(e.kind \notin Kinds, "kind")
    \cup When(e.run # a.entries.manifest.trace, "run_id")
    \cup When((e.kind = "annotation") # (e.seq = 0), "sequence")
    \cup When(e.kind \in StageKinds /\ (e.stage = None \/ e.visit = 0), "stage_visit_id")

\* One record: the calls it names and the values that must be markers.
ContentErrors(e) ==
  When(e.kind \in ModelKinds /\ e.model = 0, "model_call_id")
    \cup When(e.kind \in ToolKinds /\ e.tool = 0, "tool_call_id")
    \cup When(e.kind \in {"model_delta", "run_completed", "annotation"} /\ e.shown # "marker", "marker")
    \cup When(e.kind = "transition_selected" /\ e.to = None, "transition_to")

LedgerErrors(a) ==
  (UNION {PlacementErrors(a, e) \cup ContentErrors(e) : e \in Ledger(a)})
    \cup When(Len(Events(a)) > MaxEvents, "event count")

\* The manifest declares a vault exactly when the archive carries one, whole.
VaultErrors(a) ==
  LET manifest == a.entries.manifest IN
  When(Has(a, "enc") # Has(a, "meta"), "vault entries must co-occur")
    \cup When(manifest.vault # HasVault(a), "vault_present")
    \cup When(manifest.profile = "replay" /\ ~manifest.vault, "replay profile")
    \cup When(manifest.profile = "publication" /\ HasVault(a), "publication profile")

\* A summary is a cache: what differs from the ledger is only noted.
SummaryNotes(a) ==
  IF ~Has(a, "summary") THEN {}
  ELSE When(a.entries.summary # Summary(Events(a), a.entries.summary.dropped), "summary mismatch")

\* A path that leaves the graph is only noted, too.
PathNotes(a) ==
  When(\E e \in Ledger(a) : e.kind = "stage_started" /\ e.stage \notin a.entries.graph.nodes, "unknown stage")
    \cup When(\E e \in Ledger(a) : e.kind = "transition_selected" /\ <<e.stage, e.to>> \notin a.entries.graph.edges,
              "unknown transition")

Warnings(a) ==
  SummaryNotes(a) \cup PathNotes(a)
    \cup When(\E e \in Ledger(a) : e.odd = "extra", "unexpected fields")
    \cup When(a.entries.manifest.odd = "extra", "unexpected fields")

\* verifyArchive
Verify(a) ==
  LET errors == IF ~(Required \subseteq DOMAIN a.entries) THEN {"missing required entry"}
                ELSE IndexErrors(a) \cup ManifestErrors(a) \cup LedgerErrors(a) \cup VaultErrors(a)
  IN  [ok |-> errors = {}, errors |-> errors,
       warnings |-> IF errors = {} THEN Warnings(a) ELSE {},
       replayability |-> IF errors # {} THEN "none"
                         ELSE IF HasVault(a) THEN "taped-replay" ELSE "playback-only"]

-----------------------------------------------------------------------------

\* checkVaultEvidence: every attempt, every tool call that ended and every
\* transition the ledger reports has its record.
EvidenceErrors(a, records) ==
  LET Of(types) == {v \in ToSet(records) : v.type \in types}
      models == {v.model : v \in Of({"model_request", "model_response"})}
      tools == {v.tool : v \in Of({"tool_result"})}
      visits == {v.visit : v \in Of({"transition_evaluation"})}
  IN  When(\E e \in Ledger(a) : e.kind \in {"model_completed", "model_retry"} /\ e.model \notin models,
           "missing model evidence")
        \cup When(\E e \in Ledger(a) : e.kind \in {"tool_call_completed", "tool_call_failed"} /\ e.tool \notin tools,
                  "missing tool evidence")
        \cup When(\E e \in Ledger(a) : e.kind = "transition_selected" /\ e.visit \notin visits,
                  "missing transition evidence")

Locked(errors) == [ok |-> FALSE, records |-> <<>>, errors |-> errors]

\* unlockArchive: the metadata must agree with the entries, and the key and the
\* authenticated data computed from them with what the vault was sealed with.
Unlock(a, passphrase) ==
  LET report == Verify(a) IN
  IF ~report.ok THEN Locked(report.errors \cup {"archive verification failed"})
  ELSE IF report.replayability # "taped-replay" THEN Locked({"archive has no replay vault"})
  ELSE IF \E f \in {"manifest", "events", "graph", "trace"} : a.entries.meta.aad[f] # Binding(a.entries)[f]
    THEN Locked({"vault unlock failed"})
  ELSE IF a.entries.enc.key # passphrase \/ a.entries.enc.aad # Binding(a.entries)
    THEN Locked({"vault unlock failed"})
  ELSE LET errors == EvidenceErrors(a, a.entries.enc.records) IN
       [ok |-> errors = {}, records |-> a.entries.enc.records, errors |-> errors]
=============================================================================

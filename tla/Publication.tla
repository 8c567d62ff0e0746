---------------------------- MODULE Publication -----------------------------
(***************************************************************************)
(* The publication transform (publication.ts): an audit archive is         *)
(* projected once more, more strictly; a reviewer reads the report of the  *)
(* projection and attests it; the archive is published only when what is   *)
(* projected then is what was attested.  The steps are commands of their   *)
(* own, with files between them: the source may change in the meantime.    *)
(***************************************************************************)
EXTENDS ArchiveCheck

CONSTANT Options   \* the options a reviewer may ask for: [names, paths : BOOLEAN]

VARIABLES
  report,      \* the disclosure report of the last scan
  attestation, \* the attestation derived from a report
  published    \* what preparePublication wrote, and from what

pubVars == <<report, attestation, published>>

NoReport == [present |-> FALSE]
PubInit == report = NoReport /\ attestation = NoReport /\ published = NoReport

\* validateManifest and readLedger: the source is a vault-free audit trace of a run
\* that ended, with complete provenance, of a structure the transform knows.
SourceErrors(a) ==
  LET manifest == a.entries.manifest IN
  When(manifest.profile # "audit", "profile")
    \cup When(manifest.vault, "declares a vault")
    \cup When(Has(a, "enc") \/ Has(a, "meta"), "carries vault entries")
    \cup When(manifest.status \notin {"complete", "failed"}, "status")
    \cup When(~manifest.bound, "provenance")
    \cup When(manifest.odd # "no", "unknown manifest field")
    \cup When(Events(a) = <<>>, "empty ledger")

\* validateRecordShape: a field or a value the transform does not classify is
\* refused, never dropped.
ShapeErrors(a) ==
  When(\E e \in Ledger(a) : e.odd = "extra", "unknown field")
    \cup When(\E e \in Ledger(a) : e.kind = "stage_completed" /\ e.shown \notin {"metric", "marker"}, "output")
    \cup When(\E e \in Ledger(a) : e.kind = "tool_call_started" /\ e.shown \notin {"path", "path_ref"}, "args")

\* Mutant: tool names are kept.
ProjectRecordNamed(e, options, run) ==
  [e EXCEPT !.run = run, !.shown = IF @ = "path" /\ ~options.paths THEN "path_ref" ELSE @]

\* projectRecord: tool names and alias-relative paths go unless they were reviewed.
ProjectRecord(e, options, run) ==
  [e EXCEPT !.run = run,
            !.name = IF options.names THEN @ ELSE None,
            !.shown = IF @ = "path" /\ ~options.paths THEN "path_ref" ELSE @]

ProjectLedger(events, options, run) ==
  [i \in DOMAIN events |-> ProjectRecord(events[i], options, run)]

\* projectionDigest: the options, the graph and the ledger under its private id.
ProjectionDigest(a, options) ==
  Hash([options |-> options, graph |-> a.entries.graph,
        events |-> ProjectLedger(Events(a), options, a.entries.manifest.trace)])

\* publicationTraceId: derived from the digest, one fresh id here.
PublicId == "public"

\* buildManifest
PublishedManifest(manifest) ==
  [manifest EXCEPT !.trace = PublicId, !.profile = "publication", !.vault = FALSE]

\* buildSummary: counted anew; how many annotations were dropped is copied.
PublishedSummary(a, events) ==
  Summary(events, IF Has(a, "summary") THEN a.entries.summary.dropped ELSE 0)

PublishedEntries(a, options) ==
  LET events == ProjectLedger(Events(a), options, PublicId) IN
  [manifest |-> PublishedManifest(a.entries.manifest), graph |-> a.entries.graph,
   events |-> events, summary |-> PublishedSummary(a, events)]

\* The scanner has no registry here: it finds what looks like a secret.
Findings(entries) == {i \in DOMAIN entries.events : entries.events[i].odd = "leak"}

Refused(a) == ~Verify(a).ok \/ SourceErrors(a) # {} \/ ShapeErrors(a) # {}

\* scanPublication
Projection(a, options) ==
  LET entries == PublishedEntries(a, options) IN
  [present |-> TRUE, options |-> options, digest |-> ProjectionDigest(a, options),
   source |-> [identity |-> a.index, trace |-> a.entries.manifest.trace],
   entries |-> entries, findings |-> Findings(entries)]

\* The command scan-publication writes the report of a projection.
ScanPublication(a, options) ==
  /\ ~Refused(a)
  /\ report' = Projection(a, options)
  /\ UNCHANGED <<attestation, published>>

\* attestationFromReport: a failed scan is never attested.
Attest ==
  /\ report.present /\ report.findings = {}
  /\ attestation' = [present |-> TRUE, options |-> report.options, digest |-> report.digest,
                     source |-> report.source, reviewed |-> report.entries]
  /\ UNCHANGED <<report, published>>

\* Mutant: the attested source is not looked at.
CoversProjectionOnly(p) == p.digest = attestation.digest

\* What the attestation covers: the projection, and the archive it was made from.
Covers(p) ==
  /\ p.digest = attestation.digest
  /\ p.source.identity = attestation.source.identity
  /\ p.source.trace = attestation.source.trace

\* preparePublication projects the source once more, with the attested options.
PreparePublication(a) ==
  /\ attestation.present /\ ~Refused(a)
  /\ LET p == Projection(a, attestation.options) IN
     /\ p.findings = {} /\ Covers(p)
     /\ published' = [present |-> TRUE, options |-> p.options, source |-> a,
                      archive |-> [entries |-> p.entries, index |-> Index(p.entries)]]
  /\ UNCHANGED <<report, attestation>>
=============================================================================

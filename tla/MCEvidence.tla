----------------------------- MODULE MCEvidence -----------------------------
(***************************************************************************)
(* The life of the evidence of one run: a run of a writer that may loop    *)
(* and a tool stage that publishes is recorded and archived; whoever holds *)
(* the archive may rewrite it once, with or without putting the index in   *)
(* order; a reader replays it; a reviewer scans, attests and publishes it. *)
(***************************************************************************)
EXTENDS TapedReplay, Publication

CONSTANTS
  MaxVisits, MaxAsks, MaxCalls,   \* bounds on stage visits, model calls, tool calls
  MaxRewritten                    \* the most model calls of a run whose archive is rewritten

EdgesDef == [A |-> {"A", "B"}, B |-> {}]
OptionsDef == [names : BOOLEAN, paths : {TRUE}] \cup {[names |-> FALSE, paths |-> FALSE]}

Audit == [profile |-> "audit", capture |-> {}, bound |-> TRUE, open |-> FALSE,
          hook |-> "absent", names |-> "clean"]
Taped == [Audit EXCEPT !.profile = "replay", !.capture = Captured]
ConfigsDef ==
  {[Audit EXCEPT !.open = TRUE, !.hook = "annotates"], [Audit EXCEPT !.bound = FALSE],
   [Audit EXCEPT !.hook = "fails"], [Audit EXCEPT !.names = "secret"],
   Taped, [Taped EXCEPT !.hook = "annotates", !.open = TRUE]}
    \cup {[Taped EXCEPT !.capture = Captured \ {x}] : x \in Captured}
ReplayConfigsDef == {Taped}

VARIABLES
  live,   \* the run being recorded; at = "off" before it begins
  held    \* the archive in the holder's hands

mcVars == <<vars, live, held, replayVars, pubVars>>

MCInit ==
  /\ Init /\ ReplayInit /\ PubInit
  /\ live = [at |-> "off", stage |-> Entry, retries |-> 0, out |-> None]
  /\ held = NoArchive

(* Recording. *)
Advance(step) ==
  /\ live' = step.run /\ Record(step.calls)
  /\ UNCHANGED <<held, tape, run, path, verdict, report, attestation, published>>

RunBegins == live.at = "off" /\ Advance(BeginRun)
RunVisits == live.at = "next" /\ rec.visits < MaxVisits /\ Advance(StartStage(live))
RunAsks ==
  /\ live.at = "ask" /\ rec.models < MaxAsks
  /\ \E answer \in Answers(live.stage) : Advance(Ask(live, answer))
RunIsGated == live.at = "gate" /\ rec.tools < MaxCalls /\ \E v \in Verdicts : Advance(Gate(live, v))
RunCalls ==
  /\ live.at = "call"
  /\ \E result \in Results(live.stage), content \in Contents : Advance(CallTool(live, result, content))
RunLeavesStage == live.at = "done" /\ Advance(CompleteStage(live))
RunFails == live.at = "failing" /\ \E aborted \in BOOLEAN : Advance(Fail(live, aborted))
RunAborted == live.at = "next" /\ Advance(Fail(live, TRUE))

RunFinishes ==
  /\ live.at \in Ended /\ outcome = "none" /\ FinishRun(live.at)
  /\ held' = archive'
  /\ UNCHANGED <<live, tape, run, path, verdict, report, attestation, published>>

(* Rewriting: some entries are changed, taken out or replaced; the vault's      *)
(* metadata may be adjusted; a vault can be sealed with another key only.       *)
Changed(entries) ==
  {[entries EXCEPT !.events = Front(@)],
   [entries EXCEPT !.events[1].odd = "extra"], [entries EXCEPT !.events[1].odd = "leak"],
   [entries EXCEPT !.events[1].run = "other"],
   [entries EXCEPT !.manifest.status = IF @ = "failed" THEN "complete" ELSE "failed"],
   [entries EXCEPT !.manifest.vault = ~@], [entries EXCEPT !.manifest.odd = "extra"],
   [entries EXCEPT !.manifest.bound = TRUE],
   [entries EXCEPT !.graph.edges = {}],
   [entries EXCEPT !.summary.count = @ + 1], [entries EXCEPT !.summary.dropped = @ + 1]}
WithoutVault(entries) == [n \in DOMAIN entries \ {"enc", "meta"} |-> entries[n]]
Vaults(entries) ==
  IF "enc" \notin DOMAIN entries THEN {entries}
  ELSE {entries, WithoutVault(entries), [n \in DOMAIN entries \ {"meta"} |-> entries[n]],
        [entries EXCEPT !.meta.aad = Binding(entries)],
        [entries EXCEPT !.meta.aad = Binding(entries), !.enc.aad = Binding(entries), !.enc.key = "other"]}
Forgeries(entries) == (UNION {Vaults(e) : e \in Changed(entries) \cup {entries}}) \ {entries}

Rewrite ==
  /\ outcome = "archived" /\ held = archive /\ rec.models <= MaxRewritten
  /\ verdict = "none" /\ run.at = "off" /\ ~published.present
  /\ \E e \in Forgeries(archive.entries), reindexed \in BOOLEAN :
       held' = [entries |-> e, index |-> IF reindexed THEN Index(e) ELSE archive.index]
  /\ UNCHANGED <<rec, archive, outcome, live, tape, run, path, verdict, report, attestation, published>>

(* Replaying and publishing what is held. *)
Replays ==
  /\ outcome = "archived" /\ ~report.present
  /\ \E passphrase \in {"right", "wrong"} : Replay(held, passphrase)
  /\ UNCHANGED <<rec, archive, outcome, live, held, report, attestation, published>>

Publishes ==
  /\ outcome = "archived" /\ verdict = "none" /\ run.at = "off" /\ ~published.present
  /\ \/ \E options \in Options : ScanPublication(held, options)
     \/ Attest
     \/ PreparePublication(held)
  /\ UNCHANGED <<rec, archive, outcome, live, held, tape, run, path, verdict>>

MCNext ==
  \/ RunBegins
  \/ RunVisits
  \/ RunAsks
  \/ RunIsGated
  \/ RunCalls
  \/ RunLeavesStage
  \/ RunFails
  \/ RunAborted
  \/ RunFinishes
  \/ Rewrite
  \/ Replays
  \/ Publishes

\* Safety only: nothing is promised to happen, so no fairness is stated.
MCSpec == MCInit /\ [][MCNext]_mcVars

-----------------------------------------------------------------------------

\* Every archive finishRun returns verifies, without errors or warnings, and can be
\* replayed exactly when the replay profile asked for a vault: what the recorder
\* leaves out, masks or adds never makes its own reader refuse it.
FinishedVerifies ==
  outcome = "archived" =>
    LET r == Verify(archive) IN
    /\ r.ok /\ r.warnings = {}
    /\ r.replayability = IF VaultEnabled(rec) THEN "taped-replay" ELSE "playback-only"

\* A vault that captured everything holds the evidence of every attempt, tool call
\* and transition the ledger reports, even of those whose records were matched
\* to their calls after retries, denials and failures: unlocking finds no gap.
UnlockComplete ==
  (outcome = "archived" /\ Taped.capture \subseteq rec.config.capture /\ VaultEnabled(rec)) =>
    Unlock(archive, Passphrase).ok

\* Whoever rewrites an archive is noticed: not re-indexed, it does not verify; even
\* re-indexed, with the vault's metadata adjusted, the vault opens only with the
\* manifest, graph, ledger and vault that were recorded.
VaultBindsRecord ==
  (outcome = "archived" /\ held # archive) =>
    /\ held.index = archive.index => ~Verify(held).ok
    /\ Unlock(held, Passphrase).ok =>
         \A n \in {"manifest", "graph", "events", "enc"} : held.entries[n] = archive.entries[n]

\* What is published is what a reviewer attested, entry by entry, although the
\* source may change between the scan and the publication; it verifies as a
\* publication, carries no vault, no private run id and nothing left unreviewed.
PublishedIsReviewed ==
  published.present =>
    LET p == published.archive.entries IN
    /\ p = attestation.reviewed
    /\ Verify(published.archive).ok /\ p.manifest.profile = "publication"
    /\ ~HasVault(published.archive) /\ published.source.entries.manifest.bound
    /\ \A e \in Ledger(published.archive) :
         /\ e.run = p.manifest.trace /\ e.run # TraceId
         /\ e.name # None => published.options.names
         /\ e.shown = "path" => published.options.paths

\* What taped replay is promised to reproduce: a complete capture of a run that
\* ended, without masks or omissions.
Reproducible ==
  /\ rec.config.capture = Captured
  /\ ~\E e \in Ledger(archive) : e.masked
  /\ rec.live = Cardinality({e \in Ledger(archive) : e.seq # 0})
\* Every attempt of the run had a response the vault keeps.
EveryAttemptAnswered ==
  Cardinality(OfType(rec.vault, "model_request")) = Cardinality(OfType(rec.vault, "model_response"))
\* Every tool the model asked for succeeded once: only then its name is on record.
ToolsAreNamed ==
  (\E i \in DOMAIN rec.vault : rec.vault[i].type = "model_response" /\ rec.vault[i].body = "tool")
    => \E i \in DOMAIN rec.vault : rec.vault[i].type = "tool_result" /\ rec.vault[i].named

\* Replaying a completed run, on the answers the vault kept, takes the recorded path,
\* with the recorded outputs: the answers reach the attempts and calls they
\* belong to, although they are filed by stage and by order only.
ReplayMatches ==
  (verdict = "diverged" /\ Reproducible /\ EveryAttemptAnswered /\ ToolsAreNamed) =>
    archive.entries.manifest.status # "complete"

\* A failed run replays to the same failure (replay.test.ts: "taped replay matches
\* failure path").
FailurePathReplays ==
  (verdict = "diverged" /\ Reproducible /\ EveryAttemptAnswered /\ ToolsAreNamed) =>
    archive.entries.manifest.status # "failed"
=============================================================================

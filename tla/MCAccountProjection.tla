------------------------- MODULE MCAccountProjection -------------------------
(* Properties of AccountProjection, and what its TLC configurations use.     *)
EXTENDS AccountProjection

Reaches(v) == row # None /\ v.inc = row.inc /\ v.rev >= lifecycleRev

\* Once the outbox flag of a row is clear, its last lifecycle transition has
\* reached the fence or is on its way there in some event or snapshot
\* (publishLifecycleProjection clears the flag after publishChanged) - or since
\* that transition a read begun before it was stored into a cache: publishChanged
\* then takes the old view for the new one, and nothing tells the transition again.
ClearedWasPublished ==
    row # None /\ lifecycleRev > 0 /\ ~pending =>
        \/ fence.inc = row.inc /\ fence.rev >= lifecycleRev
        \/ \E v \in {m \in bus : ~IsDeletion(m)} \cup arriving \cup restored : Reaches(v)
        \/ refilled

\* A retired incarnation has no settings, however late its changes, replies and
\* owner snapshots arrive (RestoreAccount and both gate scripts).
RetiredStaysRetired ==
    settings # None => settings.inc = fence.inc /\ ~fence.deleted

\* Admission is what the row said at the very revision the fence carries: two
\* writers of different scope never leave one's answer under the other's revision.
AdmissionOfRevision ==
    settings # None =>
        /\ fence.inc \in Incarnations /\ fence.rev \in Revisions
        /\ settings.lc = admits[fence.inc][fence.rev]

Newer(f, g) ==
    \/ f.inc > g.inc
    \/ f.inc = g.inc /\ (g.deleted => f.deleted) /\ f.rev >= g.rev

\* The fence never goes back: no delayed event, snapshot or reply undoes a newer
\* revision, a newer incarnation or a deletion.
FenceAdvances == [][Newer(fence', fence)]_fence

\* Whatever publications die, the hash of a settled account comes to show its last
\* lifecycle transition, unless it holds no snapshot (it expired, and readers ask
\* the row), or a read begun before the transition was stored after it.
EventuallyProjected ==
    <>[](row # None /\ lifecycleRev > 0 =>
            \/ settings # None /\ settings.inc = row.inc /\ settings.lc = row.lc
            \/ Missing \/ refilled)

\* An erasure on the ledger takes the row, also when the pod died before the
\* transaction (eraseRestored); the account then loses its projection, also when
\* the event was lost; and unless the job told nothing for an hour the fence is
\* told, so that no late snapshot can bring the projection back (republishRecent).
EventuallyRetired ==
    <>[](IF row # None THEN ledger[row.inc] = "none"
         ELSE /\ settings = None
              /\ registered > 0 /\ ledger[registered] \notin {"none", "missed"} =>
                    fence.inc = registered /\ fence.deleted)
==============================================================================

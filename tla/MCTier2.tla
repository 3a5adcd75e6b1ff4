------------------------------- MODULE MCTier2 -------------------------------
(* Small instances of Tier2 for TLC. *)
EXTENDS Tier2, TLC

CONSTANTS
    block,    \* permitted, reversible, within the autopilot's reach
    isolate,  \* permitted, reversible, kept for people
    reset,    \* permitted, irreversible
    wipe      \* refused by the action policy

AllActions == {block, isolate, reset, wipe}
PermittedActions == {block, isolate, reset}
ReversibleActions == {block, isolate}
UnattendedActions == {block}

\* An analysis proposes; an analyst corrects, possibly to no action at all.
MixedProposals == {<<block, reset>>, <<isolate>>, <<wipe, block>>, <<block>>}
TwoProposals == {<<block>>, <<isolate>>}
OneProposal == {<<block>>}
PairProposal == {<<block, reset>>}
TwoCorrections == {<<reset>>, <<>>}
OneCorrection == {<<reset>>}
NoCorrections == {}

\* Which requests overlap.
Pairs == {{k, l} : k, l \in Kinds}
AnyOverlap == Pairs
\* Requests that decide do not overlap; rollbacks overlap with anything.
RollbacksOverlap == {pair \in Pairs : "rollback" \in pair}
ApprovalsOverlap == {{"approve"}}
ApprovalAndMerge == {{"approve", "merge"}}
EditAndAnalysis == {{"edit", "analyse"}}
NoOverlap == {}

Symmetry == Permutations(Analysts)
=============================================================================

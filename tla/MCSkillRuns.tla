---------------------------- MODULE MCSkillRuns -----------------------------
\* Instances of SkillRuns for TLC.
EXTENDS SkillRuns, TLC

CONSTANTS w1, w2

work(policy) == [kind |-> "work", onError |-> policy]
approval(policy) == [kind |-> "approval", onError |-> policy]

\* Two approval steps; each policy for steps that fail occurs.
MCManifest ==
    <<work("skip"), approval("stop"), work("rollback"), approval("stop"), work("stop")>>

RunnerSymmetry == Permutations(Workers)
=============================================================================

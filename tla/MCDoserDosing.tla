----------------------------- MODULE MCDoserDosing -----------------------------
EXTENDS DoserDosing
MCJumps == {-2}
MCDaySets == {{0, 1}}
\* Both in the morning, or both in the evening.
MCSchedules == {<<[at |-> 1, dose |-> 1], [at |-> 1, dose |-> 1]>>,
                <<[at |-> 8, dose |-> 2], [at |-> 8, dose |-> 1]>>}
\* Pump 1 was in use under the older release, pump 2 was not.
MCOldConfig == <<[enabled |-> TRUE, at |-> 1, days |-> {0, 1}, dose |-> 1],
                 [enabled |-> FALSE, at |-> 8, days |-> {}, dose |-> 0]>>
MCOldRuntime == <<[remaining |-> 3, lastDose |-> 1, lastMissed |-> 0],
                  [remaining |-> 0, lastDose |-> 0, lastMissed |-> 0]>>
MCTestConfig == [enabled |-> TRUE, at |-> 1, days |-> {0}, dose |-> 2]
=============================================================================

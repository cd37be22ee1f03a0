-------------------------- MODULE MCFinalizeDataset --------------------------
\* Instances of FinalizeDataset for TLC: shard 1 is the train split, shard 2
\* the validation split.
EXTENDS FinalizeDataset

CONSTANTS f1, f2

MCSplitOf == [s \in Shards |-> s]

\* f1 alone runs in both modes, with read errors and crashes.  f2 runs beside
\* it where every attempt is there, both estimate, nothing is misread and one
\* of them may crash once they overlap; f2 runs once.  Of two that do not
\* overlap both are called f1.
Alone == pc'[f2] = "off" /\ readErrors' + faults' <= 2
Joins == pc[f2] = "off" /\ pc'[f2] # "off"
Over == pc[f2] \in {"ok", "failed"}
Beside ==
  /\ Joins => /\ pc[f1] \notin Ended /\ faults = 0
              /\ \A a \in Attempts : ~Unused(a)
  /\ Over => pc'[f2] = pc[f2]
  /\ mode'[f1] = "estimate" /\ mode'[f2] = "estimate"
  /\ readErrors' = 0 /\ faults' <= 1 /\ norm'.kind # "foreign"

MCSpec ==
  /\ Init /\ [][Next /\ (Alone \/ Beside)]_vars
  /\ WF_vars(Restart(f1)) /\ WF_vars(Step(f1))
=============================================================================

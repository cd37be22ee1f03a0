---------------------------- MODULE MCPredictRun ----------------------------
\* Instance of PredictRun for TLC: three rows in two batches.
EXTENDS PredictRun

RaggedBatches == << <<1, 2>>, <<3>> >>

\* A launch renders, with or without parameters, or scores what is rendered.
Rescoring == [render |-> FALSE, noParams |-> FALSE]
ThreeSettings == {[render |-> TRUE, noParams |-> FALSE], [render |-> TRUE, noParams |-> TRUE],
                  Rescoring}
=============================================================================

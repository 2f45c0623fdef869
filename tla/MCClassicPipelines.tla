------------------------- MODULE MCClassicPipelines -------------------------
EXTENDS ClassicPipelines

MCLiveSetups == {
  [cams |-> {"a"}, frames |-> 3, file |-> FALSE, outage |-> TRUE, blocks |-> TRUE, fails |-> FALSE, disk |-> TRUE, slow |-> FALSE],
  [cams |-> {"a"}, frames |-> 2, file |-> FALSE, outage |-> FALSE, blocks |-> TRUE, fails |-> TRUE, disk |-> FALSE, slow |-> TRUE],
  [cams |-> {"a", "b"}, frames |-> 1, file |-> TRUE, outage |-> FALSE, blocks |-> FALSE, fails |-> FALSE, disk |-> FALSE, slow |-> FALSE]}
Files_(cams, central, restart, slow) ==
  [cams |-> cams, central |-> central, file |-> TRUE, restart |-> restart, events |-> 2,
   faults |-> 1, signal |-> FALSE, slow |-> slow, fails |-> slow]
MCStaticSetups == {
  Files_({"a", "b"}, FALSE, TRUE, FALSE), Files_({"a"}, TRUE, TRUE, TRUE), Files_({"a"}, FALSE, FALSE, FALSE),
  [cams |-> {"a"}, central |-> FALSE, file |-> FALSE, restart |-> TRUE, events |-> 1,
   faults |-> 2, signal |-> TRUE, slow |-> FALSE, fails |-> TRUE]}
MCLoopSetups == [file : BOOLEAN, pose : BOOLEAN]
MCBatchSetups == [pre : {0, 1}, post : {0, 2}, maxLen : {0, 3}, maxEvent : {0, 2}, left : {{}, {1}}, stride : {1, 2}]
=============================================================================

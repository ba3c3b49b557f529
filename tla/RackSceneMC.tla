---------------------------- MODULE RackSceneMC ----------------------------
(* Two racks and one that may be added, a small and a large window.  The   *)
(* unit of length is 25 pixels of the configuration.                       *)
EXTENDS RackScene

MCInitialRacks == <<"a", "b">>
MCNewRacks == {"c"}
MCWindows == {"small", "large"}
MCSize == [small |-> [width |-> 20, height |-> 20], large |-> [width |-> 24, height |-> 20]]
MCSizeOf == [a |-> [width |-> 16, height |-> 40], b |-> [width |-> 16, height |-> 20],
             c |-> [width |-> 16, height |-> 40]]
\* in the small window more than two racks take two rows, in the large one
\* only the four and six of the split view do
MCRows == [small |-> [n \in 0..6 |-> IF n > 2 THEN 2 ELSE 1],
           large |-> [n \in 0..6 |-> IF n > 3 THEN 2 ELSE 1]]
ASSUME RowsAssumption ==
  \A w \in MCWindows, n \in 0..6 :
    MCRows[w][n] = NumRows([i \in 1..n |-> MCSizeOf.a], MCSize[w])
MCShowAll == [w \in MCWindows |-> [n \in 0..6 |-> 3 - MCRows[w][n]]]
MCToRow == [small |-> 2, large |-> 3]
=============================================================================

---------------------------- MODULE MCAccessLog ----------------------------
(* The access log with a few typical configurations of its rotator. *)
EXTENDS AccessLogToFile

Rotation(onStart, onStop, checks, atSize, maxOldCount, maxOldSize) ==
  [onStart |-> onStart, onStop |-> onStop, checks |-> checks, atSize |-> atSize,
   maxOldCount |-> maxOldCount, maxOldSize |-> maxOldSize]

MCNoLimit == -1

MCConfigs ==
  {Rotation(TRUE, TRUE, FALSE, 1, 1, MCNoLimit),
   Rotation(FALSE, TRUE, TRUE, 2, MCNoLimit, 2),
   Rotation(FALSE, FALSE, TRUE, 1, 2, 2),
   Rotation(FALSE, TRUE, TRUE, 1, 1, 1),
   Rotation(TRUE, FALSE, TRUE, 1, MCNoLimit, MCNoLimit)}
=============================================================================

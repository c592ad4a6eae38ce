----------------------------- MODULE MCDaemonIpc -----------------------------
EXTENDS DaemonIpc

CONSTANTS ale, stout

Ale == [name |-> ale, abv |-> 0, mL |-> 0]

\* One command of each kind, with values that a list of one brew has.
OneOfEach ==
  {[call |-> "help"], [call |-> "stop"], [call |-> "list"],
   [call |-> "add", brew |-> Ale],
   [call |-> "rename", index |-> 0, name |-> stout],
   [call |-> "remove", index |-> 0]}
=============================================================================

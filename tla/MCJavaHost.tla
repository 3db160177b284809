---------------------------- MODULE MCJavaHost ----------------------------
EXTENDS JavaHost

MCConfigs == {
  [class_path |-> "a.jar", debug |-> TRUE, verbose |-> FALSE, additional |-> <<"-Xmx1g">>],
  [class_path |-> "a.jar", debug |-> FALSE, verbose |-> TRUE, additional |-> <<"-Xmx1g">>],
  [class_path |-> "a.jar", debug |-> FALSE, verbose |-> FALSE, additional |-> <<>>],
  [class_path |-> NULL, debug |-> FALSE, verbose |-> FALSE, additional |-> <<>>]}
=============================================================================

---------------------------- MODULE MCJevService ----------------------------
(* Instances of JevService: questions of every type, with the criteria under *)
(* each of the three keys.                                                   *)
EXTENDS JevService

Ask(t, c, o, l) == [type |-> t, criteria |-> c, options |-> o, labels |-> l]
MCQuestions ==
  {Ask("score", None, None, "map"), Ask("choice", None, "list", "empty"),
   Ask("choice", "empty", "list", None)}
=============================================================================

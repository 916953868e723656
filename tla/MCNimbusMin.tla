---------------------------- MODULE MCNimbusMin ----------------------------
(* Two connections and one terminal, two runs in all, so that two clients    *)
(* overlap, a client and a terminal do, and one client asks twice; answers   *)
(* with a call after a failed one, two edits and two commands.               *)
EXTENDS NimbusMin

AnswersTried == [r \in Runners |->
  IF r \in Conns THEN {<<"edit", "edit">>, <<"write", "shell">>}
                 ELSE {<<"look", "edit">>, <<"shell", "shell">>}]
=============================================================================

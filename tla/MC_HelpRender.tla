---------------------------- MODULE MC_HelpRender ----------------------------
(* Small instances of HelpRender for TLC.                                  *)
EXTENDS HelpRender, TLC

(* "a" sorts before "b".                                                   *)
MCNameRank == ("a" :> 0) @@ ("b" :> 1)
====

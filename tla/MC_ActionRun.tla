---------------------------- MODULE MC_ActionRun ----------------------------
(* Small instances of ActionRun for TLC.                                   *)
EXTENDS ActionRun, TLC

(* p is typed by both schemas and the runner's type wins; q is typed only  *)
(* by the action; method is declared by the action without a type.        *)
MCRunnerSchema == "p" :> "boolean"
MCActionSchema == ("p" :> "integer") @@ ("q" :> "integer") @@ ("method" :> "untyped")
MCRunnerParams == [k \in DOMAIN MCRunnerSchema \cap UserKeys |-> MCRunnerSchema[k]]
MCActionParams == [k \in DOMAIN MCActionSchema \cap UserKeys |-> MCActionSchema[k]]

(* f is a regular file, d a directory, m a path that does not exist, u a   *)
(* file that cannot be opened.                                             *)
MCDisk == ("f" :> "file") @@ ("d" :> "dir") @@ ("m" :> "missing") @@ ("u" :> "unreadable")
MCFileKind == [p \in Paths |-> MCDisk[p]]
MCBaseName == [p \in Paths |-> p \o ".txt"]
====

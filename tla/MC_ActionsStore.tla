--------------------------- MODULE MC_ActionsStore ---------------------------
(* Small instances of ActionsStore for TLC.                                *)
EXTENDS ActionsStore, TLC

(* The store holds one action, "a", on id i1; i2 and i3 are free.          *)
MCSeed == [i \in Ids |-> IF i = "i1"
                           THEN [name |-> "a", runner |-> "local", pack |-> "default"]
                           ELSE Missing]
====

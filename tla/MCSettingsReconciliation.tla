---------------------- MODULE MCSettingsReconciliation ----------------------
(* One key with a control, one with a form; the value "old" is what an     *)
(* earlier version stored for "b".                                         *)
EXTENDS SettingsReconciliation

MCKeys == {"control", "form"}
MCForms == {"form"}
MCValues == {"a", "b", "old"}
MCSubmitted == [control |-> {"a", "b"}, form |-> {"a", "old"}]
MCNormal == [v \in MCValues |-> IF v = "old" THEN "b" ELSE v]
MCIncoming == {[control |-> "b", form |-> "old"], [control |-> "a", form |-> "a"]}
MCInitialFile == [k \in MCKeys |-> IF k = "form" THEN "old" ELSE "a"]
=============================================================================

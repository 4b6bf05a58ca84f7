------------------------------ MODULE MCFirewall ------------------------------
(* Small instances of FirewallSync.                                            *)
EXTENDS FirewallHistory, TLC

CONSTANTS s1, t1

OnePlace == {"anna at the desk"}
OnlyPlace == [s \in Sessions |-> "anna at the desk"]
FirstLease == [p \in Places |-> "10.99.0.0"]

=============================================================================

----------------------------- MODULE MCCustody ------------------------------
(* Constants of the model-checked instances of Custody. *)
EXTENDS Custody, TLC

CONSTANTS events, watchdog, repl   \* the three goroutines

OneReactor == {watchdog}
TwoReactors == {watchdog, repl}
NoFaults == {}
AllFaults == {"crash", "sql", "net", "cut", "orch"}
NodeFaults == {"crash", "sql", "cut"}
NetOnly == {"net"}
=============================================================================

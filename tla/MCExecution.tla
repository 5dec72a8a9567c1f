---------------------------- MODULE MCExecution ----------------------------
(* Small instances of Execution.                                            *)
EXTENDS Execution, TLC

CONSTANTS r1, r2, a, b

\* Plan a touches both repositories, plan b only the first.
MCAffected == a :> {r1, r2} @@ b :> {r1}

\* One plan, one repository: the interleaving instance of two commands.
MCAffectedOne == a :> {r1} @@ b :> {r1}
=============================================================================

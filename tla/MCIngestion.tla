---------------------------- MODULE MCIngestion -----------------------------
(* Small instances of Ingestion for TLC. *)
EXTENDS Ingestion, TLC

CONSTANTS m1, m2, e1

\* m1 belongs to an event, any other market to none.
OneEvent  == [m \in Markets |-> IF m = m1 THEN e1 ELSE NoEvent]

\* Jobs are interchangeable: no definition names one.
JobSymmetry == Permutations(Jobs)
=============================================================================

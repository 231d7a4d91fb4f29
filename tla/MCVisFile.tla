----------------------------- MODULE MCVisFile -----------------------------
(* VisFile on small instances: one test with annotations that share an     *)
(* array with those that are drawn, and two tests in a row.                *)
EXTENDS VisFile

SmallBounds == {[ann |-> 2, spare |-> 1, tests |-> 1],
                [ann |-> 1, spare |-> 0, tests |-> 2]}
=============================================================================

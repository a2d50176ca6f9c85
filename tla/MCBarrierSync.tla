---------------------------- MODULE MCBarrierSync ----------------------------
(* The barrier with four threads: a fast one can call again while the others    *)
(* are still leaving, which is the case the era counter exists for.           *)
EXTENDS BarrierSync

=============================================================================

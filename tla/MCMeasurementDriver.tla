------------------------ MODULE MCMeasurementDriver ------------------------
(* The reference machine, whose committed files name its device shortly, a *)
(* machine with another GPU, one with a GPU nobody names, and one without. *)
EXTENDS MeasurementDriver

Rtx4070 == <<"rtx4070">>

Reference == [gpu |-> <<"nvidia", "geforce", "rtx4070">>, torch |-> TRUE]
MCMachines ==
  {Reference,
   [gpu |-> <<"nvidia", "a100">>, torch |-> TRUE],
   [gpu |-> <<"nvidia", "h100">>, torch |-> FALSE],
   [gpu |-> <<>>, torch |-> TRUE]}

(* The reference machine and the next model of its series. *)
MCSeries ==
  {Reference, [gpu |-> <<"nvidia", "geforce", "rtx4070", "ti">>, torch |-> TRUE]}

MCCommitted ==
  {[exists |-> TRUE, whole |-> TRUE, gpus |-> {Rtx4070},
    measuredOn |-> {Reference.gpu}, empty |-> FALSE]}
=============================================================================

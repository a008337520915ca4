---------------------------- MODULE MCOracleGate ----------------------------
(* One backend whose probe asks for a device and one whose probe does not; *)
(* --require may name either, and a name that is no backend.  The default  *)
(* is marked once per backend, or not at all, or twice for one of them.    *)
EXTENDS OracleGate

MCLoadOrder == <<"triton", "cuda">>
MCPublishes == [triton |-> <<"dense", "worklist">>, cuda |-> <<"bitpacked">>]
MCMarkings  ==
  {{<<"triton", "dense">>},
   {<<"triton", "dense">>, <<"triton", "worklist">>, <<"cuda", "bitpacked">>}}
=============================================================================

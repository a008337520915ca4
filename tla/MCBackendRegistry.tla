------------------------- MODULE MCBackendRegistry -------------------------
(* The backends a build registers, cut to two of Triton's techniques and   *)
(* two of the extension's.                                                 *)
EXTENDS BackendRegistry

MCLoadOrder == <<"triton", "cuda">>
MCPublishes == [triton |-> <<"dense", "worklist">>, cuda |-> <<"dense", "bitpacked">>]
MCMarkings  == {{<<"triton", "dense">>, <<"cuda", "dense">>}}
=============================================================================

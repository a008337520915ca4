-------------------------- MODULE MCAsyncPipeline --------------------------
(* Three streams and up to five strings: batches that fill every stream,   *)
(* that leave the last chunk short, and that leave streams without one.    *)
EXTENDS BatchCall
=============================================================================

----------------------------- MODULE MCThreadPool -----------------------------
(* ThreadPool with a few threads and descriptors, which liveness forbids   *)
(* to be symmetric.                                                        *)
EXTENDS ThreadPool
=============================================================================

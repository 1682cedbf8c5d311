---------------------------- MODULE MCThreadPool ----------------------------
(* Instances of ThreadPool for TLC: every constant is a model value, so the *)
(* configurations say all there is to say.                                  *)
EXTENDS ThreadPool
=============================================================================

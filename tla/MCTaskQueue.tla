----------------------------- MODULE MCTaskQueue -----------------------------
(* TaskQueue with a function of one parameter and an AsyncTask.             *)
EXTENDS TaskQueue

AddKey ==
    [add |-> [async |-> FALSE, arity |-> 1, yields |-> TRUE],
     key |-> [async |-> TRUE,  arity |-> 0, yields |-> TRUE]]
=============================================================================

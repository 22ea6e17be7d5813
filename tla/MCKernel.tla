------------------------------ MODULE MCKernel ------------------------------
(* Two handlers, so that they starve each other of the shared budget, and    *)
(* two calls: operations, bootstraps and the steps of a workflow.            *)
EXTENDS KernelRuntime, TLC

=============================================================================

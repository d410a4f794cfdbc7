------------------------- MODULE MCDispatcherWakeup -------------------------
(* Two publishing threads beside the worker of the compute service and the *)
(* thread that shuts down; a pass gives each kind of work one slice.       *)
EXTENDS DispatcherWakeup
=============================================================================

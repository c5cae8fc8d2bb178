------------------------- MODULE MCConfigMapMonitor -------------------------
(* Instances of ConfigMapMonitor: the ConfigMap is absent, or its key is     *)
(* "true" or has another value.                                              *)
EXTENDS ConfigMapMonitor
=============================================================================

-------------------------- MODULE MCRealtimeClient --------------------------
(***************************************************************************)
(* Instance of RealtimeClient: three attempts, so that one can be live     *)
(* while two whose events are ignored are still open or opening.           *)
(***************************************************************************)
EXTENDS RealtimeClient
=============================================================================

----------------------- MODULE MCSuperScalableQueue ------------------------
(* An instance of SuperScalableQueue with its PopLock.                     *)
EXTENDS SuperScalableQueue
=============================================================================

---------------------------- MODULE MCSyncQueue ----------------------------
(***************************************************************************)
(* SyncQueue for TLC.  Three putters on two slots: two of them can sleep   *)
(* when a drain notifies one.  Two takers compete for one notification.    *)
(* Two distinct items show a change of order.                              *)
(***************************************************************************)
EXTENDS SyncQueue
=============================================================================

----------------------------- MODULE MCCameraClient -----------------------------
(* CameraClient for TLC.                                                           *)
EXTENDS CameraClient, TLC
=================================================================================

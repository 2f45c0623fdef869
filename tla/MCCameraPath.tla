---- MODULE MCCameraPath ----
\* The instance of CameraPath that TLC checks; its bounds are in CameraPath.cfg.
EXTENDS CameraPath
====

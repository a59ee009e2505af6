------------------------- MODULE MCTrackingLifecycle -------------------------
(* TrackingLifecycle over a few dates and two directories.                 *)
EXTENDS TrackingLifecycle

\* The user may put a file in the place of the last unit that is written.
MCDisputed == {<<HostTarget, "catchUp">>}
=============================================================================

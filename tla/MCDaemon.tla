------------------------------ MODULE MCDaemon ------------------------------
(* Small instances of Daemon: the numbers that are near a boundary.        *)
EXTENDS Daemon

MCNumbers == {-1, 0, 2, 70000}

MCHardwareThreads == {0, 2}

=============================================================================

--------------------------- MODULE MCVolumeStore ---------------------------
(* Instances of VolumeStore for TLC. *)
EXTENDS VolumeStore

CONSTANTS t1, t2, n1, n2, local, plugin, c1, c2

\* Drivers fail and the daemon restarts; plugins change their volumes as well;
\* docker volume rm races the rest; mount points are overridden or refused.
PassSetups ==
    {{"fail", "restart"}, {"fail", "restart", "external"},
     {"fail", "external", "rm", "force"}, {"restart", "override", "relabel"}}

\* Nothing fails, and docker volume rm is used.
RmSetup == {{"rm"}}

\* Nothing fails but the relabelling of a volume.
RelabelSetup == {{"relabel"}}
=============================================================================

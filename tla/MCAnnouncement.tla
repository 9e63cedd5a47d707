--------------------------- MODULE MCAnnouncement ---------------------------
(* Announcement on small sets, for TLC.                                    *)
EXTENDS Announcement, TLC
=============================================================================

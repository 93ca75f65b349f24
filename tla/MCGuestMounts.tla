---------------------------- MODULE MCGuestMounts ----------------------------
(* GuestMounts with the constants of MCGuestMounts.cfg.                    *)
EXTENDS GuestMounts
=============================================================================

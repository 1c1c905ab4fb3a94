---------------------------- MODULE MCNavigation ----------------------------
(***************************************************************************)
(* The rows that matter: the first, the two that may be missing and the    *)
(* row after each of them.                                                 *)
(***************************************************************************)
EXTENDS Navigation

MCPages == <<"wlan", "touchpad", "datetime", "battery", "power">>
MCOptional == <<"battery", "touchpad">>
=============================================================================

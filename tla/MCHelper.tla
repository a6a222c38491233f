------------------------------- MODULE MCHelper ------------------------------
(***************************************************************************)
(* Helper for TLC: who starts it, so that each of SUDO_UID and SUDO_GID is *)
(* unset, a user or root, and differs from the other, for root and for the *)
(* setuid bit; for a user, who has no rights to drop, they do not matter.  *)
(***************************************************************************)
EXTENDS Helper

MCLaunches ==
    {launched \in Launch :
        <<launched.SUDO_UID, launched.SUDO_GID>> \in
            IF launched.euid = "root"
            THEN {<<"unset", "user">>, <<"user", "root">>, <<"root", "unset">>}
            ELSE {<<"unset", "unset">>}}
==============================================================================

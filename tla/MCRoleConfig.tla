---------------------------- MODULE MCRoleConfig ----------------------------
(* Checking RoleConfig with TLC: five of the fourteen roles.                *)
EXTENDS RoleConfig

MCBlueRoles == {"PRESIDENT", "BLUE_TEAM"}
MCRedRoles  == {"BOMBER", "RED_TEAM"}
MCGreyRoles == {"GAMBLER"}
=============================================================================

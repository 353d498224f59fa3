--------------------------- MODULE MCAttributeChecks ---------------------------
(* Three attribute keys, one of each kind the checks tell apart. *)
EXTENDS AttributeChecks

CONSTANTS plain, known, ignored

MCKey == {plain, known, ignored}
MCWhitelisted == {known}
MCIgnored == {ignored}
================================================================================

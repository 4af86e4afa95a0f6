------------------------------- MODULE MCMaps -------------------------------
EXTENDS Maps

CONSTANTS vvar, lib

MCPermissions == {{}, {"r"}, {"r", "w"}}

\* Addresses inside of a page, at its start, and past the last region.
MCArguments ==
         {[type |-> "INDEX", index |-> i] : i \in {1}}
    \cup {[type |-> "ADDRESS", address |-> a] : a \in {2, 3, Limit}}
    \cup {[type |-> "PERMISSION", permissions |-> p] : p \in {{"r"}}}
    \cup {[type |-> "PATTERN", paths |-> {vvar, lib}]}
=============================================================================

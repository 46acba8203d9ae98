------------------------------ MODULE Principals ------------------------------
(***************************************************************************)
(* The names every part of the server shares: the users that hold grants,  *)
(* the factories a caller may name (known to the fleet or not), and None   *)
(* for Python's None, a missing claim or an empty string.                  *)
(***************************************************************************)
CONSTANTS Users, Factories, None

ASSUME NoneAssumption == None \notin Users \cup Factories
===============================================================================

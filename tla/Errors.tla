------------------------------- MODULE Errors -------------------------------
(***************************************************************************)
(* The rejection codes of ProofGate-PQ.  A function of the source that     *)
(* returns nothing and raises GateError(code) is modelled by the code it   *)
(* raises, or OK when it returns.  Checks that the source makes one after  *)
(* the other are chained with ??, so that the first one that fails decides *)
(* the code and the ones behind it are never evaluated.                    *)
(***************************************************************************)
OK == "OK"

(* errors.require: raise GateError(code) unless the condition holds.       *)
require(condition, code) == IF condition THEN OK ELSE code

(* The statement sequence "first; second" of two checks.                   *)
first ?? second == IF first = OK THEN second ELSE first

=============================================================================

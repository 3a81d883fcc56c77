--------------------------- MODULE MCTypesMigrator ---------------------------
(***************************************************************************)
(* TypesMigrator for TLC: two domains, two versions of a workflow type of  *)
(* which the old one is to be deprecated, an activity type in the second   *)
(* domain and a stream.                                                    *)
(***************************************************************************)
EXTENDS TypesMigrator

MCDomain == [t \in Types |-> IF t = "charge" THEN "billing" ELSE "shop"]
MCDeprecate == <<<<>>, <<"order-v1">>, <<>>, <<>>>>
MCRegister == <<<<"shop", "billing">>, <<"order-v2">>, <<"charge">>, <<"states">>>>

(* An account whose old workflow type is registered or already deprecated,  *)
(* and in which everything else may have been registered already.          *)
Deployed == {s \in [Objects -> Status] :
    /\ s["shop"] = "registered"
    /\ s["order-v1"] # "absent"
    /\ \A o \in Objects \ {"order-v1"} : s[o] # "deprecated"
    /\ s["billing"] = "absent" => s["charge"] = "absent"}

=============================================================================

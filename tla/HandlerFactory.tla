--------------------------- MODULE HandlerFactory ---------------------------
(***************************************************************************)
(* Which handler speaks to a device and which query it is asked            *)
(* (snmp/factories, snmp/queries).  The two choices are made apart: the    *)
(* factory goes by exact equipment class, manufacturer and model, the      *)
(* query registry by the beginning of the class and by the category.       *)
(* Manufacturers and models stand for the spellings the factories accept.  *)
(***************************************************************************)

Classes == {"AVD", "AVDX", "AVS", "AVV", "AVA", "AVVS", "AVP", "missing"}

Brands == {"blank", "epson", "stech", "cisco", "polycom", "radvision", "extron", "other"}

\* A model field may name the vendor before the generation.
Models == {"CW", "AA", "SERVERTECH CW", "SERVERTECH AA", "other"}

\* A target, as far as routing goes; avpro: its category names AV-PRO.
Routing == [eqClass : Classes, avpro : BOOLEAN, brand : Brands, model : Models]

Kinds == {"EpsonProjector", "Sentry4Pdu", "Sentry3Pdu", "Codec", "ExtronMatrix",
          "GenericSnmpHandler"}

-----------------------------------------------------------------------------
(* Factories: the handler each creates, or "declined".                     *)

Projector(t) == IF t.brand \in {"blank", "epson"} THEN "EpsonProjector" ELSE "declined"

\* _is_servertech: whatever the brand, the model may say so.
IsServertech(t) ==
    t.brand = "stech" \/ t.model \in {"SERVERTECH CW", "SERVERTECH AA"}

Pdu(t) ==
    CASE IsServertech(t) /\ t.model \in {"CW", "SERVERTECH CW"} -> "Sentry4Pdu"
      [] IsServertech(t) /\ t.model \in {"AA", "SERVERTECH AA"} -> "Sentry3Pdu"
      [] OTHER -> "declined"

Codec(t) == IF t.brand \in {"cisco", "polycom", "radvision"} THEN "Codec" ELSE "declined"

Matrix(t) == IF t.brand = "extron" THEN "ExtronMatrix" ELSE "declined"

\* Mutant: the families are told apart by what the class begins with.
SpecialisedByPrefix(t) ==
    CASE t.eqClass \in {"AVD", "AVDX", "missing"} -> Projector(t)
      [] t.eqClass = "AVS" -> Pdu(t)
      [] t.eqClass \in {"AVV", "AVVS"} -> Codec(t)
      [] t.eqClass = "AVA" -> Matrix(t)
      [] OTHER -> "declined"

\* _FACTORY_REGISTRY, where a missing class counts as AVD.
Specialised(t) ==
    CASE t.eqClass \in {"AVD", "missing"} -> Projector(t)
      [] t.eqClass = "AVS" -> Pdu(t)
      [] t.eqClass = "AVV" -> Codec(t)
      [] t.eqClass \in {"AVA", "AVVS"} -> Matrix(t)
      [] OTHER -> "declined"

\* _create_for_one: what no factory wants is still probed.
HandlerFor(t) ==
    IF Specialised(t) = "declined" THEN "GenericSnmpHandler" ELSE Specialised(t)

-----------------------------------------------------------------------------
(* Queries: the first specification whose match accepts the target.        *)

Queries == {"projector", "pdu", "codec", "matrix"}

QueryFor(t) ==
    CASE t.eqClass \in {"AVD", "AVDX"} /\ t.avpro -> "projector"
      [] t.eqClass = "AVS" -> "pdu"
      [] t.eqClass = "AVV" -> "codec"
      [] t.eqClass \in {"AVA", "AVVS"} -> "matrix"
      [] OTHER -> "skip_no_match"
=============================================================================

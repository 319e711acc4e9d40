------------------------------ MODULE MCDigest ------------------------------
(* A member in Paris, who moves to Berlin or across the Atlantic.  A part of *)
(* the day is two hours.                                                    *)
EXTENDS Digest
ZoneOffsets == [z \in Zones |-> IF z = "new_york" THEN 0 - 3 ELSE 0]
=============================================================================

------------------------- MODULE MCCountryInference -------------------------
(* Small instances of CountryInference for TLC. *)
EXTENDS CountryInference, TLC

\* An unlimited preview, and an apply run that ends after three entities.
MCConfigs == {[apply |-> FALSE, limit |-> 0], [apply |-> TRUE, limit |-> 3]}

\* Two verdict functions: what one run accepts the other may not.
MCEvidence ==
    {[e \in Entities |-> IF e % 2 = 1 THEN "SAFE" ELSE "OTHER"],
     [e \in Entities |-> IF e % 2 = 0 THEN "SAFE" ELSE "DEFERRED"]}

Symmetry == Permutations(Cmds)
=============================================================================

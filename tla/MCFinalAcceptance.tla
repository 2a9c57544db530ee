-------------------------- MODULE MCFinalAcceptance --------------------------
(* A small instance of FinalAcceptance: one asset that the producer's listing
   follows (a Sigstore bundle: two different bundles verify) and one that the
   evidence names by digest; spare asset IDs with the same and other bytes. *)
EXTENDS FinalAcceptance, TLC

CONSTANTS Originals, Resigned

MCHead == {"bundle"}
MCRest == {"collection"}
MCAssetId == Originals \cup Resigned
MCBytes == [i \in MCAssetId |-> IF i \in Originals THEN "original" ELSE "resigned"]
MCTrusted == [n \in {"bundle", "collection"} |->
                IF n = "bundle" THEN {"original", "resigned"} ELSE {"original"}]

Symmetry == Permutations(Originals)
=============================================================================

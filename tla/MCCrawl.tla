------------------------------ MODULE MCCrawl ------------------------------
(* A canonical target that excludes one subtree and delegates another, the *)
(* target it delegates to, and a target that reads one page only.          *)
EXTENDS Crawl, TLC

CONSTANTS r, e, d, y, f

Page(root) == [root |-> root, traversal |-> "recursive", excluded |-> {},
               delegated |-> Empty, authorities |-> Empty, counts |-> Empty]

MCConfig ==
  [canonical |-> [Page(r) EXCEPT !.excluded = {e}, !.delegated = d :> "decisions",
                                 !.authorities = r :> 1,
                                 !.counts = <<"content", "all">> :> 5],
   decisions |-> Page(d),
   catalog   |-> [Page(r) EXCEPT !.traversal = "page-only"]]

MCNames == {"canonical", "decisions", "catalog"}

MCPlans == {<<"canonical", "decisions">>, <<"decisions", "canonical">>, <<"catalog">>}

MCParent == r :> Space @@ e :> r @@ d :> r @@ y :> r @@ f :> d
=============================================================================

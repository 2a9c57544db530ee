--------------------------- MODULE MCExactReview ---------------------------
EXTENDS ExactReview
=============================================================================

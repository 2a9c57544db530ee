----------------------------- MODULE MCReceipts -----------------------------
EXTENDS Receipts

\* One receipt of each side of every comparison that validate_receipt_set makes.
MCIds == {"producer-revocation-initial", "public-cosign", "public-materials",
          "final-revocation"}

\* The second container evidence describes another image.
MCSays ==
  [c \in {"c1", "c2"} |->
     "producer" :> 1 @@ "producerRevocations" :> 1 @@ "containerRevocations" :> 1
     @@ "container" :> 1 @@ "approvals" :> 1
     @@ "image-public" :> IF c = "c1" THEN 1 ELSE 2]

MCRevocationChecked == [c \in {"c1", "c2"} |-> 1]
=============================================================================

------------------------------ MODULE Receipts ------------------------------
(***************************************************************************)
(* The documents of finalize-mlx90-delivery.py.  Each observation of the   *)
(* releases, images and workflow runs becomes a typed receipt; write-report*)
(* joins one receipt of every type into a bundle and derives a report;     *)
(* finalize reads both again and derives the acceptance.  The commands are *)
(* separate processes: what is observed, and the container evidence they   *)
(* all read, may change between any two of them, and a job that runs again *)
(* may find files of the attempt before.                                   *)
(* Every change outside advances the clock, so that `was' tells what was   *)
(* true at any time a receipt may name.                                    *)
(***************************************************************************)
EXTENDS Integers, FiniteSets, Sequences, TLC

CONSTANTS
  Nothing,              \* nothing there
  Variants,             \* image variants whose receipts are modelled
  Ids,                  \* receipt IDs that are modelled
  Values,               \* what a fact can be
  ContainerEvidence,    \* container evidence documents that may be published
  Says,                 \* what the producer evidence and each container
                        \*   evidence say: document -> fact -> value
  RevocationChecked,    \* container evidence -> time of its revocation check
  NotBefore, ExpiresAt, \* validity of the producer evidence
  Changing,             \* facts that change in the instance
  MaxClock, MaxAttempts \* bounds of the instance

Final == "final-revocation"

-----------------------------------------------------------------------------
\* What the receipts observe.  A fact is what several receipts, or a receipt
\* and the evidence, must agree on.

ProducerIdentitySees ==
  [i \in {"producer-evidence", "producer-identity"} |->
     IF i = "producer-evidence" THEN {"producer"} ELSE {"producer", "producerRelease"}]

InitialSees ==
  [i \in {"producer-revocation-initial", "container-revocation-initial"} |->
     IF i = "producer-revocation-initial"
     THEN {"producerRelease", "producerAssets", "producerRevocations"}
     ELSE {"container", "containerAssets", "containerRevocations"}]

ProducerMaterialsSees ==
  [i \in {"producer-cosign", "producer-materials"} |->
     IF i = "producer-cosign" THEN {"producer"} ELSE {"producer", "producerRun"}]

CentralCISees == [i \in {"producer-central-ci"} |-> {"producer", "producerRun"}]

ConsumerSees == [i \in {"consumer-identity"} |-> {"consumer", "promotion"}]

ContainerSees ==
  [i \in {"container-release", "container-cosign"} |->
     IF i = "container-cosign" THEN {"container"} ELSE {"container", "containerRun"}]

ZeroTouchSees ==
  [i \in {"zero-touch"} |-> {"approvals", "promotion", "producerRun", "containerRun"}]

FinalSees ==
  [i \in {Final} |-> {"producer", "producerRelease", "producerAssets", "producerRevocations",
                      "container", "containerAssets", "containerRevocations"}]

Image(v) == "image-" \o v
Signature(v) == "signature-" \o v

\* The receipts of every variant v in V with a suffix in S, which see F[v].
PerVariant(V, S, F) ==
  [i \in {v \o s : v \in V, s \in S} |-> F[CHOOSE v \in V : \E s \in S : i = v \o s]]

ImageSees ==
  PerVariant(Variants, {"-oci-index", "-immutable-tags"}, [v \in Variants |-> {Image(v)}])

SignatureSees ==
  PerVariant(Variants, {"-cosign", "-materials"}, [v \in Variants |-> {Image(v), Signature(v)}])

RunSees ==
  LET image == [v \in Variants |-> {Image(v)}] IN
  PerVariant(Variants, {"-buildkit", "-pull", "-installed"}, image)
  @@ PerVariant(Variants \ {"bootstrap"}, {"-profile"}, image)

\* expected_receipt_types: the exact receipt set, with what each observes.
Sees == ProducerIdentitySees @@ InitialSees @@ ProducerMaterialsSees @@ CentralCISees
        @@ ConsumerSees @@ ContainerSees @@ ZeroTouchSees @@ FinalSees @@ ImageSees @@ SignatureSees
        @@ RunSees

Facts == UNION {Sees[i] : i \in Ids}

ASSUME ReceiptsAssumption ==
  /\ Ids \subseteq DOMAIN Sees /\ Final \in Ids /\ Changing \subseteq Facts
  /\ IsFiniteSet(Ids) /\ Nothing \notin ContainerEvidence
  /\ \A c \in ContainerEvidence : Says[c] \in [DOMAIN Says[c] -> Values]
  /\ \A c \in ContainerEvidence : RevocationChecked[c] \in Nat
  /\ {NotBefore, ExpiresAt, MaxClock} \subseteq Nat /\ MaxAttempts \in Nat \ {0}

VARIABLES
  clock, world, was,  \* now; fact -> value; history: time -> world
  evidence,           \* the container evidence in the work directory
  attempt,            \* attempt of the job
  seen,               \* the observations file: [id, at, facts], or Nothing
  dir,                \* receipt ID -> receipt file
  bundle, report, acceptance,  \* the other documents, or Nothing
  draft               \* the report that write-report is about to write, or Nothing

outside == <<clock, world, was, evidence>>
files == <<dir, bundle, report, acceptance>>
ReceiptsVars == <<outside, attempt, seen, files, draft>>

NoFiles == [i \in {} |-> Nothing]

\* The function f with one more entry, or another one for x.
Put(f, x, v) == [y \in DOMAIN f \cup {x} |-> IF y = x THEN v ELSE f[y]]

-----------------------------------------------------------------------------
\* Validation.

\* validate_receipt and validate_receipt_observations: the receipt is of this
\* run and about this evidence, was checked while the producer evidence was
\* valid, and agrees with what the evidence says.
ReceiptValid(i, r, c, n) ==
  /\ r.attempt = n
  /\ r.evidence = c
  /\ NotBefore <= r.at /\ r.at < ExpiresAt
  /\ \A f \in Sees[i] \cap DOMAIN Says[c] : r.facts[f] = Says[c][f]

\* Plausible mistake: the initial and the final snapshot are not compared.
AgreeExceptFinal(r) ==
  \A i, j \in DOMAIN r \ {Final} : \A f \in Sees[i] \cap Sees[j] : r[i].facts[f] = r[j].facts[f]

\* validate_receipt_set: release, asset snapshots, workflow runs, merge events
\* and live signatures are the same wherever two receipts name them,
Agree(r) ==
  \A i, j \in DOMAIN r : \A f \in Sees[i] \cap Sees[j] : r[i].facts[f] = r[j].facts[f]

\* and the last look at the releases is the last observation of all.
FinalIsLast(r, c) ==
  /\ \A i \in DOMAIN r : r[i].at <= r[Final].at
  /\ RevocationChecked[c] <= r[Final].at

\* Plausible mistake: a receipt that was never written is not missed.
HasFinal(r) == Final \in DOMAIN r

Complete(r) == DOMAIN r = Ids

SetValid(r, c, n) ==
  /\ Complete(r)
  /\ \A i \in DOMAIN r : ReceiptValid(i, r[i], c, n)
  /\ Agree(r)
  /\ FinalIsLast(r, c)

\* validate_receipt_bundle.
BundleValid(b, c, n) ==
  /\ b.attempt = n /\ b.evidence = c
  /\ SetValid(b.receipts, c, n)

\* verification_report: the report names the bundle by its digest, which is as
\* good as the bundle itself.  `attempt' is history, the report has no such field.
ReportOf(b, n) ==
  [attempt |-> n, evidence |-> b.evidence, checkedAt |-> b.receipts[Final].at, bundle |-> b]

\* Plausible mistake: any bundle that is valid by itself will do.
AnyBundle(p, b) == TRUE

\* The bundle in the directory is the one that the report was derived from.
IsReferenced(p, b) == p.bundle = b

\* validate_verification_report.
ReportValid(p, b, c, n) ==
  /\ p.evidence = c
  /\ NotBefore <= p.checkedAt /\ p.checkedAt < ExpiresAt
  /\ RevocationChecked[c] <= p.checkedAt
  /\ IsReferenced(p, b)
  /\ BundleValid(b, c, n)
  /\ p.checkedAt = b.receipts[Final].at

-----------------------------------------------------------------------------
\* At first everything is as the evidence describes it.
ReceiptsInit ==
  /\ clock = 0
  /\ evidence \in ContainerEvidence
  /\ \E v \in Values :
       world = [f \in Facts |-> IF f \in DOMAIN Says[evidence] THEN Says[evidence][f] ELSE v]
  /\ was = [t \in {0} |-> world]
  /\ attempt = 1
  /\ seen = Nothing
  /\ dir = NoFiles
  /\ bundle = Nothing /\ report = Nothing /\ acceptance = Nothing
  /\ draft = Nothing

\* Somebody changes a fact, or only time passes.
WorldMoves(f, v) ==
  /\ clock < MaxClock
  /\ acceptance = Nothing
  /\ clock' = clock + 1
  /\ world' = [world EXCEPT ![f] = v]
  /\ was' = Put(was, clock + 1, world')
  /\ UNCHANGED <<evidence, attempt, seen, files, draft>>

\* Other container evidence is downloaded into the work directory.
Republish(c) ==
  /\ clock < MaxClock
  /\ acceptance = Nothing
  /\ c # evidence
  /\ evidence' = c
  /\ clock' = clock + 1
  /\ was' = Put(was, clock + 1, world)
  /\ UNCHANGED <<world, attempt, seen, files, draft>>

\* The job runs again and finds any part of what the attempt before left.
Rerun ==
  /\ attempt < MaxAttempts /\ acceptance = Nothing
  /\ attempt' = attempt + 1
  /\ dir' \in {dir, NoFiles} /\ bundle' \in {bundle, Nothing} /\ report' \in {report, Nothing}
  /\ seen' = Nothing /\ draft' = Nothing
  /\ UNCHANGED <<outside, acceptance>>

\* The job looks, and notes the time and what it saw.
Observe(i) ==
  /\ seen = Nothing /\ draft = Nothing /\ acceptance = Nothing
  /\ seen' = [id |-> i, at |-> clock, facts |-> [f \in Sees[i] |-> world[f]]]
  /\ UNCHANGED <<outside, attempt, files, draft>>

\* write-receipt: the observations are bound to the evidence read now; an
\* existing file is never replaced, and a failure ends the job.
WriteReceipt ==
  /\ seen # Nothing
  /\ LET r == [attempt |-> attempt, evidence |-> evidence, at |-> seen.at, facts |-> seen.facts] IN
     /\ ReceiptValid(seen.id, r, evidence, attempt)
     /\ seen.id \notin DOMAIN dir
     /\ dir' = Put(dir, seen.id, r)
  /\ seen' = Nothing
  /\ UNCHANGED <<outside, attempt, bundle, report, acceptance, draft>>

\* write-report: the receipts of the directory are validated and written out
\* as a bundle,
WriteBundle ==
  /\ seen = Nothing /\ draft = Nothing /\ acceptance = Nothing
  /\ SetValid(dir, evidence, attempt)
  /\ bundle = Nothing
  /\ bundle' = [attempt |-> attempt, evidence |-> evidence, receipts |-> dir]
  /\ draft' = ReportOf(bundle', attempt)
  /\ UNCHANGED <<outside, attempt, seen, dir, report, acceptance>>

\* and then the report, unless one is there, or the process dies in between.
WriteReport ==
  /\ draft # Nothing
  /\ report' = IF report = Nothing THEN draft ELSE report
  /\ draft' = Nothing
  /\ UNCHANGED <<outside, attempt, seen, dir, bundle, acceptance>>

Kill ==
  /\ draft # Nothing
  /\ draft' = Nothing
  /\ UNCHANGED <<outside, attempt, seen, files>>

\* finalize: everything is read and validated again.
Finalize ==
  /\ seen = Nothing /\ draft = Nothing
  /\ report # Nothing /\ bundle # Nothing /\ acceptance = Nothing
  /\ ReportValid(report, bundle, evidence, attempt)
  /\ acceptance' = [attempt |-> attempt, evidence |-> evidence, report |-> report]
  /\ UNCHANGED <<outside, attempt, seen, dir, bundle, report, draft>>

ReceiptsNext ==
  \/ \E f \in Changing, v \in Values : WorldMoves(f, v)
  \/ \E c \in ContainerEvidence : Republish(c)
  \/ Rerun
  \/ \E i \in Ids : Observe(i)
  \/ WriteReceipt \/ WriteBundle \/ WriteReport \/ Kill \/ Finalize

ReceiptsSpec == ReceiptsInit /\ [][ReceiptsNext]_ReceiptsVars

-----------------------------------------------------------------------------
\* Properties.

Receipt == [attempt : 1 .. MaxAttempts, evidence : ContainerEvidence, at : 0 .. MaxClock,
            facts : UNION {[S -> Values] : S \in SUBSET Facts}]

\* Type invariant.
ReceiptsTypeOK ==
  /\ clock \in 0 .. MaxClock /\ world \in [Facts -> Values]
  /\ was \in [0 .. clock -> [Facts -> Values]]
  /\ evidence \in ContainerEvidence /\ attempt \in 1 .. MaxAttempts
  /\ seen = Nothing \/ (seen.id \in Ids /\ seen.at \in 0 .. clock)
  /\ DOMAIN dir \subseteq Ids /\ \A i \in DOMAIN dir : dir[i] \in Receipt
  /\ bundle = Nothing \/ DOMAIN bundle.receipts = Ids
  /\ draft # Nothing => DOMAIN draft.bundle.receipts = Ids

\* An acceptance comes from one attempt about one pair of evidence documents:
\* its report, its bundle and every receipt in it, whatever earlier attempts
\* left behind and whenever the evidence was replaced.
OneRun ==
  acceptance # Nothing =>
    LET p == acceptance.report IN
    /\ p.attempt = acceptance.attempt /\ p.evidence = acceptance.evidence
    /\ p.bundle.attempt = acceptance.attempt
    /\ DOMAIN p.bundle.receipts = Ids
    /\ \A i \in Ids : LET r == p.bundle.receipts[i] IN
         r.attempt = acceptance.attempt /\ r.evidence = acceptance.evidence

\* What an acceptance rests on was true when it says so: at the time of each
\* receipt its facts were as the evidence describes them, and what receipts
\* taken at different times both looked at had not changed from the one to the
\* other, up to the acceptance time, which is the last.
Held ==
  acceptance # Nothing =>
    LET p == acceptance.report  r == p.bundle.receipts IN
    /\ NotBefore <= p.checkedAt /\ p.checkedAt < ExpiresAt
    /\ \A i \in Ids : \A f \in Sees[i] :
         /\ r[i].at <= p.checkedAt
         /\ f \in DOMAIN Says[acceptance.evidence] =>
              was[r[i].at][f] = Says[acceptance.evidence][f]
         /\ f \in Sees[Final] => was[r[i].at][f] = was[p.checkedAt][f]
         /\ \A j \in Ids : f \in Sees[j] => was[r[i].at][f] = was[r[j].at][f]
=============================================================================

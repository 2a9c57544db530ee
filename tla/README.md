# A verification project for modulix-validation

This directory models the parts of `lightning-it/modulix-validation` whose
correctness depends on the order of events: on what other people, other
processes and failing calls do between two steps of a script. It holds TLA+
modules, TLC configurations and TLAPS proofs. Paths are relative to the
repository; `SH` stands for `.github/scripts/mlx90-final-acceptance.sh`,
`FIN` for `scripts/finalize-mlx90-delivery.py`, `GATE` for
`scripts/lit-push-ready.py`, `INCUS` for
`.github/scripts/aap-incus-matrix-run.sh`, `PGE` for
`.github/scripts/pge-confluence-conformance.py`, `WB` for
`.github/scripts/workbench-public-acceptance.py`, `MAT` for
`scripts/materialize-exact-revision-review.py` and `REV` for
`.github/workflows/release-bot-exact-head-review.yml`.

## 1. Inventory

| Component | State it keeps | Operations | Talks to | Status |
|---|---|---|---|---|
| MLX-90 verification job, `SH verify_mode` | downloaded files, listings, snapshots, receipts | 30 receipts' worth of checks, then the double collection | GitHub REST API, registries, cosign, finalizer | reads of the two releases: `FinalAcceptance` |
| MLX-90 persistence, `SH persist_mode` | release ID, listings, evidence files | find or create a draft, fill, compare, publish, verify, expose | GitHub releases | `Delivery`, `DurableEvidence` |
| MLX-90 callback, `SH callback_mode` | job inputs | derive and dispatch | consumer repository | `Delivery` |
| `.github/workflows/mlx90-final-acceptance.yml` | attempt number, artifacts, job outputs | run, re-run all or failed jobs | the three modes | `Delivery` |
| `FIN`: writers | output files, temporary files | `write_json`, `write_json_pair` | file system, other invocations | `OutputPair` |
| `FIN`: documents | receipt directory, observations file | `write-receipt`, `write-report`, `finalize` | releases and evidence that change | `Receipts` |
| `scripts/validate-mlx90-delivery.py`, `mlx90-verify-container-workflow-dag.py` | none | validate a document, a job graph | verification job | not modelled: stateless |
| Push-ready gate, `GATE` | HEAD, index, tree, refs, evidence file, integration worktree | `push-ready`, `validate`, `verify`, `pre-push`, `review` | git, checks, GitHub | all but `review`: `PushReady` |
| `PGE` | trees of the targets, snapshot | crawl, classify, judge, replay | Confluence, whose space people edit | `Crawl` |
| `WB` and `workbench-public-acceptance.yml` | one machine, profile phases, evidence, credential | preflight, full, cleanup-only, removal | Ansible playbooks on the machine | `Workbench` |
| `MAT` and `REV` | check runs on GitHub, the ledger of runs, one workspace per run | materialize, reserve, review, verify, publish, close, hand over | GitHub, the reviewer (Codex) | `ExactReview` |
| AAP Incus matrix runner, `INCUS` | instance, work directory, installer job | create, install, poll, clean up | Incus, AAP, RHSM | `IncusRun`, `InstanceLease` |
| `validation-evidence.py`, `main-promotion-authorization.py`, `lit-repository-quality.py`, ... | none | check and emit | workflows | mostly out of scope: stateless |
| other review, promotion and merge workflows | check runs, labels, pull requests | review, re-run once, merge, promote, sync | GitHub | not modelled |
| quality, Molecule and nightly workflows | one job each | lint, test | containers | out of scope: linear |

### How the components interact

The release App dispatches the MLX-90 workflow. `verify` reads the producer's
and the container's release, pull requests, check runs and images, writes typed
receipts with the finalizer, forms the delivered document and the acceptance
from them (`write_json_pair`), signs a checksum list, uploads the artifact
`...-<run id>-<attempt>` and sets the output `evidence-tag`, which derives from
the acceptance's digest. `persist` downloads the artifact, creates or resumes a
draft release under that tag, uploads what is missing, compares, publishes,
compares again, and exposes ten outputs. `post-delivery` dispatches the
consumer's promotion with four of them.

The release App dispatches `REV` for a base and a head of this repository. Its
first job runs `MAT` (twice before the review, twice after it), reserves the
review with a check on the head, has the head reviewed and publishes the result
as two checks; its second job asks the verifier on the base to look again. What
one run knows of another it reads from GitHub: the checks, and the runs and their
steps. `WB` and `INCUS` run playbooks of other repositories on a machine, `PGE`
reads a Confluence space; all three judge something that others may change
meanwhile.

### What is hard

* **Interleaving with people.** Releases, assets, tags and repository settings
  are shared with everybody who may write to them, and every reader makes
  dozens of calls with minutes in between.
* **Partial failure.** A call may take effect and its answer be lost; an upload
  may break off; `set -e` then ends the job wherever it is.
* **Re-runs.** Outputs and artifacts of earlier attempts survive; the attempt
  number is part of the artifact's name, of the acceptance and of the draft's
  owner marker.
* **File-system races.** Names are checked long before they are used, two links
  are not one, processes are killed between any two calls.
* **Long-running gates.** The push-ready gate runs checks for minutes on a
  repository that may change and whose base moves.
* **Deadlines, signals and clean-up.** The Incus runner must destroy what it
  created, and the Workbench acceptance undo what it accepted, whatever happened,
  within a budget in which one stuck playbook must not cost the others theirs.
* **Documents made of documents.** Thirty receipts are written one after the
  other, by a job that may run again over what it left, and joined twice.
* **Once only.** A review may be asked for once per input although checks vanish
  from lists, answers are lost, runners die and runs are repeated.
* **Paginated reads.** A tree is read page by page, target by target, while it is
  edited.

### What makes each component correct

* Verification: an emitted final receipt describes the bytes that were really
  verified (`CertifiedBytes`), one moment of both releases
  (`CoherentSnapshot`), and overlooks no revocation that stood throughout
  (`NoStandingRevocation`).
* Persistence, callback, workflow: an acceptance is reported only when an
  immutable release holds exactly its signed files at the workflow commit
  (`ReportedIsSealed`), promoted only when reported, and both for good
  (`DurableSpec`); an undisturbed run of all jobs delivers (`Delivers`).
* Writers: nothing is replaced (`NoClobber`), success means that every output
  is complete and stays (`SuccessIsComplete`), failure leaves nothing
  (`FailureLeavesNothing`), and competitors do not defeat one another
  (`ExactlyOneWins`).
* Receipt set: only receipts of one attempt about one evidence form an
  acceptance (`OneRun`), and what they say was so at the times they name, and
  the same at both times when two of them looked at it (`Held`).
* Push-ready: a push is accepted only for a commit whose integration passed its
  checks under the policy of the base (`AcceptedWasChecked`), with a base that
  is not older than the push (`AcceptedIsCurrent`), and runs that nobody
  disturbs succeed (`Delivers`).
* Incus runner: instances never overlap, and a success leaves none behind
  (`LeaseSpec`); the key of what is left stays (`KeyFitsInstance`); cleanup stops
  the playbook it finds recorded, so that only a missed or a killed run's one
  goes on (`CleanupStopsChild`), passes both collections of diagnostics before it
  destroys (`DiagnosedBeforeDestroyed`) and gives the subscription back
  (`SubscriptionReleased`); every run ends (`RunEnds`).
* Confluence audit: a passing verdict leaves no page out that any judged target
  saw (`Covered`); an inventory that nobody disturbed is the subtree (`Exact`).
* Workbench acceptance: evidence of success is true of the machine (`Proven`); no
  success and no reported cleanup leaves anything behind (`NoSilentResidue`);
  every profile has its cleanup tried (`EveryCleanupTried`); the job ends
  (`JobEnds`).
* Exact-revision review: no input is reviewed twice (`AskedOnce`), green means
  reviewed and proved (`GreenIsProven`), and a run leaves none of its checks open
  (`Settled`).

## 2. Modules

### FinalAcceptance

`verify_mode`, from the first download of the producer's evidence to
`write_receipt final-revocation`. `asset`, `releaseId`, `tagBound`, `revoked`
and `used` are GitHub; `got` are the local files, `listing` the latest asset
list of a side, `snapshot` the canonical snapshot of the initial listing, kept
by the receipt `<side>-revocation-initial`. One action per API call:
`Download` (with the digest or signature check of its result), `ResolveTagCommit`,
`BindProducerRelease`, `CheckContainerRelease`, `ListReleaseAssets`,
`TakeSnapshot`, then the final phase `CollectRelease`, `CollectListing`,
`CollectTag` (twice), `CompareSnapshots`, `Redownload`, `DecideFinal`,
`EmitFinalReceipt`. `FailClosed` may replace any of them.

Abstractions: an asset is its ID and name; bytes under an ID never change
(GitHub offers no such operation), so that the bytes are a function of the ID.
The owners of both releases may upload, delete, revoke, withdraw a revocation,
move the tag and recreate the release. The code requires the container release
to be immutable when it first reads it; the model lets its owner change it all
the same, so that nothing depends on that flag. The checks of pull requests,
check runs, images and profiles read other data and may only fail.

`standing` and `coherent` are history variables: steps write them, no guard
reads them.

### DurableEvidence and Delivery

`DurableEvidence` is what the two jobs promise to a reader of an acceptance:
a copy is sealed once, reported when the sealed copy is the signed evidence,
promoted when reported; `promoted` is a set, so that a second dispatch of the same
acceptance is a stuttering step. `Delivery` is the run: `VerifySucceeds` stands for the
verify job (its inside is `FinalAcceptance`), the actions `CheckEvidence` to
`ExposeOutputs` for the API calls of `persist_mode` in their order, `Callback`
for `callback_mode`, `RunAllAgain`, `RunPersistAgain` and `RunCallbackAgain`
for the three ways to run again. `Others` are the people with write access:
they plant drafts under a tag once the artifact is known, replace and delete
assets, edit notes, publish, unpublish, move tags and switch immutable releases
on and off. `Durable` maps the state of `Delivery` to `DurableEvidence`;
`DurableSpec` is the refinement.

Abstractions: the bytes of every file signed by attempt `a` are `a`; the owner
marker (title, body, target commit) is the attempt it names; the tag derived
from the digest of the acceptance is the attempt that signed it, because the
acceptance document names its attempt. Whether GitHub's lookup by tag shows a
draft is left open: `FindRelease` and `CreateDraft` are both possible. Releases
are not deleted; an immutable release keeps its assets, its tag and its
published state, which is what GitHub guarantees and the code relies on.

### OutputPair

`write_json` (one output) and `write_json_pair` (two), several invocations at
once. `SafeOutput`, `Create`, `WriteAll`, `Stat`, `Link`, `UndoStat`,
`UndoUnlink` and `Clean` are the system calls in the order of the code;
`SystemCallFails` is an `OSError` of any of them with the handler it reaches,
`Killed` a process that ends at once, `Elsewhere` another program.
`owner[w][k]` is the `os.stat_result` that `prepare_json_output` returns: a
temporary file whose write or `lstat` failed has none. Invocations may share a
process ID, as they do in different containers on one volume.

### PushReady

The commands `push-ready`, `validate`, `verify` and `pre-push` of `GATE`, run
by any number of gates (terminals, hooks) in one checkout. Shared are the base
branch on GitHub (`remote`), its remote-tracking ref (`base`), HEAD and the
working tree (`head`, `work`), the private integration directories (`private`,
`leftover`) and the evidence file. `job[g]` holds the local variables of a run,
`pc[g]` the next thing it reads or writes; `Continue(g)` is its next step.

| Code | Actions |
|---|---|
| `main`, first lines of a command | `Begin`, `CleanHead`, `Record` |
| `refresh_authoritative_base` | `RefreshAuthoritativeBase` |
| `planned_change` | `PlanFingerprint`, `ResolveBase`, `PlanHead`, `PlanDiff`, `PlanUnchanged` |
| `require_trusted_check_policy` | `RequireTrustedCheckPolicy` |
| `expected_integration_tree` | `OpenMerge`, `CloseMerge` |
| `execute_integration_checks` | the same, then `OpenChecks`, `ChecksPass` |
| `main` after the checks | `StillCleanHead`, `CompareOriginal` |
| `run_agent_reviews` | `Review`, `ReadStatus`, `OpenSnapshot`, `CloseSnapshot`, `ReviewLeftTree` |
| `write_evidence` | `StampEvidence`, `TruncateEvidence`, `WriteEvidence` |
| `verify_evidence`, `verify_pre_push_updates` | `ReadEvidence`, plan, policy and merge as above, `ReportReady`, `AcceptPush` |
| an exception, a failing check, a signal | `Abort` |

Abstractions. A base commit is its position in the history of the base branch,
which is protected: it only moves forward. `Fork[c]` is the merge base of `c`
with every base from there on. One fetch is one step, and so is one
`tree_fingerprint`. The integration of a base and a head stands for the merge
tree and for the synthetic commit, whose parents are the two. The trusted
policy files are compared as a whole; the bootstrap flag, which exempts the
fixture manifest, is off. There is one branch: what `pre-push` says of branch
names, remotes, deletions and fast-forwards only refuses, as do the age of the
evidence, the configuration and the reviews' secret scan, and refusing is
`Abort`. Two writers of the evidence file that overlap may leave the end of the
longer document (`Garbage`). The integration directories of other runs are
untracked directories below the root: `untracked_file_hashes` refuses them and
`require_clean_head` reports them, so that every fingerprint needs `Readable`.

`passed`, `succeeded`, `accepted`, `outcome` and `calm` are history variables.

### InstanceLease and IncusRun

`InstanceLease` is the promise to the runner host: a lease (a VM) is taken only
when none is held, and success is reported only when the lease was given back or
was to be kept. `IncusRun` is `INCUS`, in successive runs of one matrix entry;
`max-parallel: 1` and the concurrency group exclude runs at the same time.
`LeaseSpec` is the refinement.

| Code | Actions |
|---|---|
| checks, work directory, key, preflight | `Begin`, `MakeWorkDir`, `Preflight`, `Refuse` |
| `run_incus_lifecycle create`, `wait_for_incus_guest_ready` | `Create`, `WaitForGuest` |
| `rhel_prepare.yml`, `06-base-os-prepare.yml` | `PrepareGuest`, `PrepareBase` |
| `clear_aap_installer_jid`, `run_with_heartbeat` | `ClearJid`, `StartDeploy`, `RecordChild`, `DeployEnded` |
| `poll_aap_installer`, the loop of attempts | `FindJid`, `Poll`, `PollTimeout`, `Retry` |
| the verification | `StartVerify`, `RecordChild`, `VerifyEnded` |
| the traps | `Interrupt`; `Fail` after a failing command |
| `cleanup` | `StopChild`, `DiagnoseAap`, `DiagnoseIncus`, `Teardown`, `CleanRhsm`, `Destroy`, `RemoveWorkDir`, `Exit` |

Abstractions. A command is one step, which may fail on either side of its
effect; a signal that arrives during a foreground command takes effect when the
command has ended, as bash has it. `Killed` is everything that ends the script
without its traps, a second signal during `cleanup` included. Playbooks of other
repositories are modelled by what the script relies on: the deploy playbook
starts one installer job and puts its ID into the file, perhaps after it has
ended, because the script waits for the file; a second one may find the first
job still running. The work directory is the same for all runs of a matrix
entry and is reduced to its key; that the runner service may empty its temporary
directory between jobs is not modelled, `KeyFitsInstance` is about the script.
The preflight sees the VMs of one Incus project, and the matrix uses one. A
readiness attempt is one step; the daemon does not finish a creation after its
client was killed.

A playbook in the background is a process of its own (`child`), which the script
starts in one step and records in `active_child_pid` in the next (`recorded`). A
trap between the two finds nothing to stop: the run is then in `missed`, and its
playbook works on during the cleanup. It outlives the script, as does the one of
a run that is killed (`orphans`), until it ends; what it still does in the guest
of its old run concerns nobody, and that a later VM may get the address of the
old one is not modelled. `kill` and `wait` are one step (`StopChild`), about the
process itself: what it has started in the guest goes on there. The two collections
of diagnostics are steps that may find nothing to do: no inventory, `incus info`
failing, the switch `AAP_CI_COLLECT_FAILURE_DIAGNOSTICS`, a missing tool
(`Decline`). Their commands ignore failures, so that `asked` says that they were
run and not what they returned. The Incus diagnostics that a failed readiness
attempt collects as well are not counted.

Once cleanup starts, the loops' variables and the guest's jobs are forgotten
(`LoopsOver`), and when a run ends, those of its process (`Forget`): nobody reads
them again. `result`, `asked`, `declined`, `missed`, `unreleased` and `byHand` are
history variables.

### Receipts

The commands `write-receipt`, `write-report` and `finalize` of `FIN` and the job
around them. `world` holds the facts that receipts observe (asset lists, images,
approvals), `evidence` the container evidence file that all commands read;
`seen` is the observations file, `dir`, `bundle`, `report` and `acceptance` are
the documents. Each command is a process of its own, so that outside changes
(`Advance`, `Republish`) and a re-run over any part of the files (`Rerun`) may
come between any two.

| Code | Definitions |
|---|---|
| an observation of the job in `SH` | `Observe`, with `Sees`, the facts a receipt type looks at |
| `validate_receipt`, `validate_receipt_observations` | `ReceiptValid` |
| `validate_receipt_set` | `Complete`, `Agree`, `FinalIsLast`, `SetValid` |
| `validate_receipt_bundle`, `validate_verification_report` | `BundleValid`, `ReportValid` |
| `write-receipt` | `WriteReceipt` |
| `write-report` | `WriteBundle`, `WriteReport`, and `Kill` between the two files |
| `finalize` | `Finalize` |

Abstractions. A fact has a value, and what the two evidence documents say of it
is `Says`; a receipt's observation is one moment (`FinalAcceptance` takes the
most delicate of them apart, call by call). A digest names its document, so that
the report holds the bundle it was derived from. The attempt number of the report
is history: the document has no such field. `finalize` publishes what
`OutputPair` models, here as one step. `Attempt` stands for run and attempt; a
new run begins in an empty directory.

### Crawl

The live audit of `PGE`: a list of targets, each crawled by pages or by
descendants, then judged together. `parent` and `body` are the space, `listed`,
`others`, `read`, `pending` and `queue` one crawl, `trees` the finished ones.

| Code | Definitions |
|---|---|
| `Target.validate`, `read_config` | `ValidTarget`, `ValidConfig` (assumed of the instance) |
| `page` of the root, `descendants`, `direct_children`, `page` | `FetchRoot`, `ListDescendants`, `ListChildren`, `Fetch`, `NextParent`, `NextTarget` |
| `classified_subtree` | `Walk`, `Scope`, `Kind` |
| `validate_tree` | `CountError`, `DuplicateError`, `AuthorityError`, `RootError`, `ScopeError`, `BodyError` |
| `validate_delegated_coverage` | `CoverageError` |
| `ConformanceError`, verdict, replay of a snapshot | `Refuse`, `RequestFails`, `Judge`, `Replay` |

A paginated answer is any `Limit` nodes of what there is and was not returned
yet; once the space was edited during the listing, a node may be missed or
returned again (`Answer`). A page's body is its version and whether the document
rules hold of it. An ordinary target walks from page to page, as the code does:
pages below a folder are then not part of its inventory, and neither `Covered`
nor `Exact` says they are.

### Workbench

The job of `workbench-public-acceptance.yml` with the harness `WB` in its two
modes. `machine` and `residue` are the state of the target, `todo` the set of
phases still to run, each with its place in the order (`Now` is the next of them,
`Later` the others), `full` and `final` the two evidence files.

| Code | Definitions |
|---|---|
| steps of the job | `Materialize`, `EndStep`, `RemoveCredentials`, `LoseRunner` |
| `select_profiles`, `load_contract`, `validate_controller_environment`, `validate_inventory_payload` | `SelectionValid`, `ContractValid`, `ControllerValid`, `InventoryValid`, `Preflight` |
| `execute_full` | `Required`, `Now`, `RunPhase`, `AfterRequired` |
| `execute_cleanup_profiles` | `Cleanups`, `RunCleanup`, `AfterCleanup` |
| `run_phase`, `validate_and_aggregate_stats`, `require_phase_success` | `TargetStats`, `Succeeded`, `Acceptable`, `Limit` |
| `INT`, then `KILL` | `Cancel`, `Raise`, `Kill` |
| `write_evidence` | `WriteEvidence` |

A playbook belongs to another repository. What is assumed of it is `Effect`: one
that ran to its end with success statistics of the target has done its work
there, any other may have done a part or nothing. `wrong` are guards that would
not hold, at most one at a time, because each has to refuse by itself. That the
variables which `validate_inventory_payload` looks at are all that could lead a
playbook to another machine is neither modelled nor claimed: others, such as
`ansible_ssh_extra_args`, and delegation inside a playbook are decided elsewhere. Time
counts in the cleanup step, whose budget is in the assumption
`PreflightLimit + Len(Allowed) * CleanupLimit <= CleanupBudget`, as the workflow
and the checked-in matrix (900 s) set them; `load_contract` would accept a limit up
to 1800 s (`WB:303`), for which it would not hold. Tasks that a lost playbook left running on the machine
are not modelled, nor is residue of an earlier run: every run has its own run ID.

### ExactReview

`REV` with `MAT`, as successive runs about the inputs (base, head) of one pull
request. `checks` are the check runs on GitHub, each named by its kind and the
run that made it; `at` is where a run is, `mode`, `producer`, `held`, `neutral`
and `named` are the outputs of its steps, `codex` the outcome of its review step,
which other runs read in the ledger.

| Code | Actions |
|---|---|
| `workflow_dispatch`, `concurrency` | `Dispatch`, `Start` |
| `materialize`, twice; `bind_assets` | `Materialize`, `Bind` |
| step `dedupe`: checks | `CloseStale`, `Reuse`, `ReadLedger` |
| step `dedupe`: runs and their steps | `Ledger`, with `Prior`, `LedgerShows`, `Passed` |
| step `dedupe`: `create_reservation_once` | `Reserve`, `Detail` |
| step `neutral` | `FindNeutral`, `NoNeutral`, `PostNeutral` |
| the review | `Review`, `Answer` |
| `verify`, twice | `Verify` |
| publication | `Publish`, `Green` |
| the two fail-close steps | `CloseProtected`, `CloseNeutral` |
| `request-protected-verifier-reevaluation` | `Handoff` |
| a failing step, a lost runner, a re-run by hand | `Fail`, `Lose`, `Rerun` |
| the pull request; checks missing from lists | `Change`, `Reopen` |

Abstractions. A call that creates or completes a check may take effect or not and
be answered or not (`Known`); retries within one step are one call with the
outcome of the last. A listing is current, except that checks are missing after
the pull request was opened again (`Reopen`). `proved` collects inputs, not runs: a
`verify` that was left out only where a run reuses or recovers a green check would
not show. Tree, diff and review workspace are functions of the input;
their files only fail. There is one pull request in the instance; its heads share
no state but the base.

What the code does not promise, and the properties therefore leave out. A run
that is started again by hand counts as his who did it, and other runs ignore it:
with its check gone from the lists, the input may be reviewed once more, so
`AskedOnce` is about runs that nobody started again. A run that failed before its
review, or a second dispatch, blocks the input for good; the workflow forbids
automatic retries, and there is no liveness property. The checks of a lost runner
stay open until a later run meets the protected one (`CloseStale`); its neutral
check stays open, and `Settled` excuses it.

## 3. Runs

| Run | Instance and bounds | Shows |
|---|---|---|
| `final_acceptance` | 2 assets per side, 5 original and 1 re-signed ID, 3 changes | the three safety properties of the receipt |
| `delivery` | 2 of 6 files, 3 release IDs, 2 attempts, 3 changes | refinement of `DurableEvidence`, `ReportedIsSealed` |
| `delivery_live` | the same with 1 change, fairness | `Delivers` |
| `delivery_retry` | no change, 2 attempts | **violated**: a retry does not resume a draft |
| `output_pair` | 3 invocations, 2 paths, 2 process IDs, 1 foreign change | the five properties of the writers |
| `push_ready` | 2 gates, 3 runs, `push-ready` and `pre-push`, 2 commits, 2 base commits, 1 move | `AcceptedWasChecked`, `AcceptedIsCurrent` |
| `push_ready_live` | 1 gate, 3 runs, all commands, the same, fairness | `Delivers` |
| `incus_run` | 2 runs, 2 boot attempts, 2 installer attempts, 1 poll per attempt, fairness | refinement of `InstanceLease`, the four properties of cleanup, `RunEnds` |
| `receipts` | 4 of 30 receipt types, 2 changing facts of 2 values, 2 evidence documents, 3 changes, 2 attempts | `OneRun`, `Held` |
| `crawl` | 4 pages and a folder, 3 targets, answers of 2 nodes, 2 edits | `Covered`, `Exact` |
| `workbench` | 3 profiles, 6 selections, any one wrong guard, 1 drift, fairness | `Proven`, `NoSilentResidue`, `EveryCleanupTried`, `JobEnds` |
| `exact_review` | 3 runs, 1 head, 2 bases, 1 change besides re-opening, 1 re-run | `AskedOnce`, `GreenIsProven`, `Settled` |

The bounds. Three changes are what the longest disturbance of the receipt needs
(replace, restore, replace on the other side), and two assets are one that the
code trusts through a signature (different bytes verify) and one that it trusts
through a digest. Two attempts are a failed one and its re-run; three changes
are a planted draft, its publication and a replaced asset. Two files suffice
because the loop treats all six alike and a partial upload has one present and
one missing. Three release IDs are one per attempt and one planted; fewer would
block `CreateDraft`. Three invocations are two that want the same pair and one
that wants only the second output, which is what makes a withdrawal happen.
Two matrix runs are one that leaves something behind and one that finds it; two
attempts are one whose job survives it and one that meets that job; one poll is
enough to find the ID or miss it, and to meet a job in each of its states. Three
runs of the gate are a `push-ready`, another that fetches or writes the evidence
meanwhile, and the `pre-push` that reads it; the second base commit changes the
policy and the second commit is made on it, so that a plan before and a plan
after the move are both acceptable to the policy; a move of the base that leaves
the policy alone does not occur in the instances. One move is enough for that
and for an edit; the theorems cover more of each.
The four receipts are one of each side of every comparison that
`validate_receipt_set` makes: an initial and a final look at the same release, a
live signature and the materials that name the same image; the other types
compare in the same way or only with the evidence. Two attempts are one that
leaves files and one that finds them. In the space of the crawl one target
excludes a subtree and delegates another, which holds a folder, the target it
delegates to is crawled before or after it, and a third reads one page; answers
of two nodes make every listing span several, and two edits are enough to take a
page away from one target after it was counted and before the other arrives. The
three profiles of the Workbench are the real ones, with all kinds of selections;
its limits are the real ones in proportion, except that the cleanup budget is as
small as the assumption allows. Three runs of the review are one that asks, one
that finds what it left in the checks or in the ledger, and one that meets the
outcome of both; one head suffices because heads exclude one another by the
concurrency group and share nothing, and the theorems are for all.
Symmetry is used on release IDs, files, original asset IDs and gates, in runs
without temporal properties under fairness only.

Deadlock checking is off: all the systems stop (a finished job, an ended
invocation, the last run of the gate, of the matrix entry or of the review, a
verdict, a written acceptance or receipts that cannot form one).

Fairness. `delivery_live` and `delivery_retry` assume weak fairness of
`Progress`, the next step of the job that is running, and `push_ready_live` of
`Continue(g)`, the next step of a Python process that nobody stops.
`incus_run` assumes weak fairness of the script's next command and of the
end of each background playbook; that `ssh` and `ansible` calls end is what the
script relies on as well, within the timeout of the job. `workbench` assumes
weak fairness of each step of the job and the harness: every playbook and query
has a time limit in `WB` or in the workflow. A runner executes the
steps of its script one after the other until it ends or fails, and job
timeouts are failures. Nothing is assumed of other people, of re-runs or of the
success of calls; both `Delivers` excuse an attempt or a run in which a call
failed or somebody interfered (`calm`).

One run is expected to be violated: `delivery_retry` checks a sentence of
`docs/mlx90-final-acceptance.md` that the code does not keep; `PROJECT.json`
quotes it under `findings`. Other differences between text and code that the
modelling met, which no run is spent on:

* `FIN:702`, `unlink_owned` compares the owner and then removes by name: a file
  that replaces the output in between is removed.
* `FIN:684`, a temporary file stays when its write or `lstat` fails after the
  exclusive creation, or the process is killed.
* `GATE:4210`, the second plan of `push-ready` is made after the last clean-head
  check: an edit in between is planned, reviewed and reported as ready with the
  scope "clean-head", and only `pre-push`, which requires a clean HEAD again,
  refuses it.
* `REV:380`, the ledger that stands in for checks that vanished does not count
  runs that somebody started again, so that their input may be reviewed again.
* `INCUS:244`, a playbook is started and its process ID recorded by two commands:
  a trap in between tears the guest down while the playbook works on, although
  cleanup sets out to stop it (`INCUS:690`). `CleanupStopsChild` names the case as
  an exception.
* `docs/aap-incus-nightly.md:162`, "failed runs collect AAP and Incus diagnostics
  before destroying the VM": a run whose guest was never ready has no inventory
  and collects none of AAP (`INCUS:418`), one that `incus info` does not answer
  none of Incus (`INCUS:537`), and one whose only failure is the destruction,
  which may have removed the VM all the same, collects nothing (`INCUS:698`).
  `DiagnosedBeforeDestroyed` states what is left of the sentence.

## 4. Proofs

`FinalAcceptanceProofs` proves for all asset names, IDs, bytes and numbers of
changes:

* `TypeCorrect`: `TypeOK` is inductive by itself.
* `BytesAreCertified`: once a name is in `compared`, the bytes under its
  snapshot ID are the consumed bytes (`SameBytes` was a guard); `collect 2` is
  only reached with every name compared, and `DecideFinal` requires the last
  listing to equal the snapshot. The strengthening relates `compared` and
  `stage`.
* `SnapshotIsCoherent`: an ID, once replaced, is in `used` and never listed
  again, so an asset that equals its snapshot in the last listing has equalled
  it ever since the snapshot; both sides therefore held it when the last
  comparison ended.
* `StandingRevocationSeen`: while `standing[s]` holds the release is revoked,
  so that every listing read in the final phase shows it.

`DeliveryProofs` proves, for all files, release IDs, attempts and numbers of
changes, `TypeCorrect`, `ReportedSealed` and `ImplementsDurable`: every
behaviour of `Delivery` is one of `DurableEvidence`. The argument has two
halves. GitHub seals for good: no action changes the files, the tag or the
published state of an immutable release, so that a sealed copy of an attempt's
evidence stays one (`SealedCopy`). And `persist_mode` accumulates what it has
read: at each stage the invariant says which of "immutable", "published", "at
the tag", "with exactly these files" the run has read of the release it
reports; once immutability is among them, what was read still holds. The job
outputs and the callback then only carry an attempt for which a sealed copy
exists, which is the step condition of `DurableEvidence`. `PromotedSealed` states
what a reader of an acceptance gains from the promise.

`FinalizerProofs` is about both halves of `FIN`. Of the writers it proves, for all
invocations, paths and process IDs, `TypeCorrect`, `NothingReplaced`,
`SuccessComplete` and `FailureClean`. The
invariant relates each invocation's position to the files it has made: up to
the position they exist and are its own, afterwards they do not. It is stated
per invocation, and a step of another leaves it undisturbed because `Create` and
`Link` are exclusive and an unlink compares the owner.

`OneWins` proves `ExactlyOneWins` for invocations that `Compete`: all of them
want the same last output, as every delivery wants its acceptance. At most one
can succeed, since success means holding that output. That not all of them give
up needs an argument about every moment of the race (`Race`), as long as no call
fails and nobody else interferes. There are three claims: to have a temporary file
(`Holding`), to have one for the last output (`Sure`), to have succeeded.
Whoever gives up meets a file of somebody with a claim (`Favoured`): one without
a temporary file meets somebody who holds one, one with a temporary file meets
somebody who is sure, and one that withdraws its first output lost the last one
to somebody who succeeds. The lemmas follow the claims through a step: files at
the names come from invocations that want them (`FilesOfInvocations`), a step of
one invocation does not take another's claim away (`ClaimsStand`), its own claims
pass on (`ClaimsPass`), and whoever gives up does so in somebody's favour
(`GivesUpFairly`). Nobody succeeds without the common last output, and that all
link it last is what makes the claims comparable.

`PushReadyProofs` proves, for all gates, commits, base commits, policies and
numbers of runs, `TypeCorrect`, `PushWasChecked` and `PushIsCurrent`. No run can
rely on what it has read being still so; what it knows of its own variables
(`RunOK`) is what survives. After the checks its integration is in `passed`,
which only grows, and the evidence file holds such an integration or nothing a
run accepts. The change of that evidence may be of a later plan: what ties the
two together is that the verifying run plans and integrates by itself and
compares both, so that the integration is the one of the planned base and head,
and its policy step was for these two. The base of a push is at least the one
fetched at its beginning, because the remote-tracking ref only moves forward.

`IncusRunProofs` proves, for any number of runs, attempts, boots and polls,
`TypeCorrect`, `KeyFits`, `ChildStopped`, `Released`, `DiagnosedFirst` and
`ImplementsLease`. The preflight is the anchor (`Exclusive`): it runs before the
traps are set, so that a run that meets somebody else's VM ends without cleanup,
and a run that goes on is alone on the host. Only then may its cleanup remove
the work directory that all runs share. The remaining parts of the invariant
(`Subscriptions`, `Diagnosed`, `Reported`) carry what one step of cleanup has
established to the destruction and the exit status. `Children` follows a playbook:
it is recorded when cleanup begins or its run is in `missed`, and what outlives a
run keeps its excuse, because a run gets its result once. `LeaseKept` states the two
invariants of `InstanceLease` for the runs.

Of the documents `FinalizerProofs` proves, for any receipt types, facts, evidence
documents and numbers of changes, `ReceiptsTypeCorrect`, `AcceptanceOfOneRun` and
`AcceptanceHeld`; `Receipts` names its state machine `ReceiptsSpec` so that one
module can extend it and `OutputPair`. No proof about one uses the other.
Two things carry the argument. The past only grows: `was` gains entries and loses
none, and what a receipt or the observations file says is what `was` holds at its
time, whichever attempt wrote it. And `finalize` trusts nothing that is on the
disk: it validates report, bundle and every receipt again, with the evidence it
reads itself, so that the invariant of the files may be as weak as "every receipt
tells the truth about its time", and validity supplies the rest.

`WorkbenchProofs` proves, for any profiles, requests and limits, `TypeCorrect`,
`EvidenceProven`, `ResidueReported` and `CleanupTried`. The invariant
has a part per question. `Placed` ties the phases that are left to the step they
belong to. `Guarded`: phases only run after every guard has held, so that the
selection they are made from is valid. `Executed`: while phases run nothing has failed, and each
required phase that is behind the harness has shown its part on the target; only
that, and not the flags of the harness alone, makes evidence of success true.
`Remains`: as long as `cleaned` holds, the residue is of profiles whose cleanup is
still to come. `Budgeted`: the cleanup step has spent at most the preflight's
limit and one cleanup's limit for each profile tried, and every requested profile
was tried or is left; since there are at most `Len(Allowed)` of them, the step is
never killed over its budget (`BudgetSuffices`). That there is a next phase
(`NowIsLeft`) is the least element of a set of numbers.

`CrawlProofs` proves, for any configuration that `ValidConfig` admits, any plan,
space and number of edits, `TypeCorrect` and `NoPageLeftOut`. The invariant follows
one crawl (`InHand`): what was fetched is where the listing had it, every listed
node can be traced to a configured root, and every direct page is fetched or still
to be. A finished tree is therefore `Sound`, although it is classified once more
over the fetched parents, because a walk depends only on the parents it may pass
(`SameWalk`). The verdict then excludes that a page is passed on for ever: a tree
that delegates a subtree has more nodes than the tree it is delegated to, its own
root being one of them (`Delegation`, `WalkStops`), so that in the smallest judged
tree that holds the page, the page is judged or excluded (`SmallestTree`). This
needs the coverage check to compare both ways, and it holds for configurations
that delegate in a circle as well. `Exact` is about what a walk along the parents
of a whole space reaches; it is an induction over data and stays with TLC.

`ExactReviewProofs` proves, for any number of runs, inputs, changes and re-runs,
`TypeCorrect`, `NeverAskedTwice`, `GreenProven` and `ChecksSettled`. The runs of
one head exclude one another (`Alone`), so that what a run has read in the ledger
stays true until it asks: nobody else can ask for its input meanwhile
(`OnlyAsker`), and from that `AskedOnce` follows although the listed checks may
vanish at any time. What a run knows is described run by run (`RunOK`): what its
mode says of the producer, which checks exist and are its own, and which of them
are closed. A step of another run cannot disturb that, because a run creates
checks under its own name only and nobody takes a result back (`Harmless`,
`Undisturbed`); each action is then shown to be harmless and to fit (`Fits`,
`Lift`). That a head has one listed neutral check (`OneNeutral`) is what makes
the search by external ID in the last step find the right one.

Most assumptions on a constant (`...Assumption`, `...Bounds`) say only that sets
are not empty, bounds are natural numbers, functions have their type and the
markers of "nothing" are not values. Two say more: that of `Crawl` is what
`Target.validate` and `read_config` accept, and that of `Workbench` is how the time
limits of the workflow and the harness fit each other. TLC evaluates all of them in
each run.

Out of the prover's reach, and left to TLC: both `Delivers`, `RunEnds` and
`JobEnds` (liveness under fairness), and `Exact`. Every other property of the
passing runs is a theorem.

## 5. Plan

Order of importance; what is done is marked.

1. [done] `FinalAcceptance`, its run and proofs.
2. [done] `DurableEvidence`, `Delivery`, runs; proofs of the promise.
3. [done] `OutputPair`, runs; proofs.
4. [done] `PushReady`, runs; proofs. Left: the command `review` and the
   bootstrap flag.
5. [done] `Receipts`, run and proofs. Left: `prepare-plan`.
6. [done] `InstanceLease`, `IncusRun`, runs; proofs, the refinement included.
7. [done] `ExactReview`, run and proofs.
8. [done] `Workbench` and `Crawl`, runs and proofs. Left: `Exact`.
9. `RerunOnce`, `GuardedMerge`, `PromotionCycle`: the other review and promotion
   workflows as event handlers over pull requests that change.
10. `WorkflowGraph`: the reachability rule of the graph verifier, against a
    reference definition.

## 6. Not modelled

* Parsing, formatting, regular expressions, digests and signatures as
  computations (a digest identifies its bytes; a signature check is a set of
  trusted bytes); logging; the Python and shell runtimes.
* The checks of `verify_mode` that read data once and only accept or refuse, the
  content rules of one receipt, one page or one configuration file: they are
  functions of one document, which unit tests reach. This is most of the source
  of `FIN` and a good part of `PGE`.
* `validate-mlx90-delivery.py`, `mlx90-verify-container-workflow-dag.py`,
  `validation-evidence.py`, `lit-repository-quality.py` and
  `validate-embedded-code.py`: stateless validation, without an order of events.
* `main-promotion-authorization.py` and the review, promotion and merge workflows
  other than `REV`: short event handlers whose state is GitHub's; they are the
  next entry of the plan. The most delicate of them, `current-revision-rerun.yml`,
  reads metadata, waits minutes for a neutral check and then repeats a run once.
* A revocation that is attached between the last listing and `write_receipt`
  (`SH:2496`) is not seen by the code, nor can it be by one that reads and then
  writes.
* Liveness of the crawl, of the receipts and of the review: their answer to
  interference is to refuse.
* The linear quality, Molecule and nightly workflows.

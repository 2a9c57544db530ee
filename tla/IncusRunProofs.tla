----------------------------- MODULE IncusRunProofs -----------------------------
(***************************************************************************)
(* What the Incus matrix runs guarantee for any number of runs, attempts,  *)
(* boots and polls.                                                        *)
(*                                                                         *)
(* Everything rests on the preflight: from there on no VM but that of the  *)
(* current run can exist (Exclusive), so that the key in the work          *)
(* directory, which all runs share, can only be removed when no VM needs   *)
(* it (KeyKept).  The other parts follow a fact from the step of cleanup   *)
(* that establishes it to the destruction that relies on it.               *)
(***************************************************************************)
EXTENDS IncusRun, TLAPS

(* Runs come one after the other, and a run that is over never returns. *)
Sequential ==
    /\ pc # "idle" => run \in Run /\ result[run] = "none"
    /\ \A r \in Run : r > run => /\ result[r] = "none"
                                 /\ r \notin instances
                                 /\ r \notin keep

Exclusive ==
    /\ \A r, s \in instances : r = s
    /\ pc \notin Unarmed => instances \subseteq {run}
    /\ pc = "create" => instances = {}
    /\ pc = "prepare" \/ pc = "boot" => run \in instances
    /\ pc = "remove" => run \notin instances

Reported ==
    /\ pc = "exit" /\ rc = "ok" => run \in keep \/ run \notin instances
    /\ \A r \in Run : result[r] = "ok" => r \in keep \/ r \notin instances

KeyKept ==
    /\ pc \notin {"idle", "setup", "exit"} => key # None
    /\ \A r \in instances : key # None /\ keyOf[r] = key

Subscriptions ==
    /\ torn => pc \in {"destroy", "remove", "exit"}
    /\ torn /\ pc = "destroy" => run \notin registered
    /\ pc = "destroy" => run \notin registered \/ run \in unreleased
    /\ SubscriptionReleased

(* What cleanup passes on its way to the destruction, once a run has failed. *)
Diagnosed ==
    rc = "failed" =>
        /\ inventory /\ pc \in {"diagnoseIncus", "teardown", "rhsm", "destroy"}
             => "aap" \in asked \cup declined
        /\ pc \in {"teardown", "rhsm", "destroy"} => "incus" \in asked \cup declined

(* A playbook is recorded, about to be recorded, or missed. *)
Children ==
    /\ pc \notin {"deploying", "verifying", "stop"} \cup Cleanup => child = "none"
    /\ pc = "stop" /\ child \in Playbook => recorded \/ run \in missed
    /\ CleanupStopsChild

IInv ==
    /\ TypeOK
    /\ Sequential
    /\ Exclusive
    /\ Reported
    /\ KeyKept
    /\ Children
    /\ Subscriptions
    /\ Diagnosed

-----------------------------------------------------------------------------
(* Type correctness, one group of actions after the other. *)

(* A script that ends leaves a result and initial values. *)
LEMMA LeaveTypes ==
    ASSUME TypeOK, Sequential, pc # "idle",
           NEW v \in {"ok", "failed", "killed"}, Leave(v)
    PROVE  TypeOK'
<1>1. run \in Run
  BY DEF Sequential
<1>2. result' \in [Run -> {"none", "ok", "failed", "killed"}]
  BY <1>1 DEF Leave, TypeOK
<1>3. job' \in [Attempt -> JobState]
  BY DEF Leave, Forget, LoopsOver, NoJobs, JobState
<1>4. boots' \in 1..MaxBoots /\ attempt' \in Attempt /\ polls' \in 0..MaxPolls
  BY BoundsAssumption DEF Leave, Forget, LoopsOver, Attempt
<1>5. pc' \in Step
  BY DEF Leave, Forget, Step, Unarmed
<1>6. UNCHANGED <<host, run, keep, missed, unreleased, byHand>>
  BY DEF Leave
<1>7. orphans' \subseteq Run
  BY <1>1 DEF Leave, Forget, TypeOK
<1> QED BY <1>2, <1>3, <1>4, <1>5, <1>6, <1>7
           DEF TypeOK, host, Leave, Forget, LoopsOver

LEMMA SetupTypes == TypeOK /\ Setup /\ Sequential => TypeOK'
<1> SUFFICES ASSUME TypeOK, Sequential, Setup PROVE TypeOK'
  OBVIOUS
<1> USE DEF TypeOK, Sequential, Step, Unarmed, Armed, Cleanup, Succeeds, Leave, host,
            guest, loop, background, cleaning, diagnostics, history
<1>1. CASE Refuse
  BY <1>1, LeaveTypes DEF Refuse
<1>2. CASE MakeWorkDir
  BY <1>2 DEF MakeWorkDir
<1>3. CASE Preflight
  BY <1>3 DEF Preflight
<1> QED BY <1>1, <1>2, <1>3 DEF Setup

LEMMA MakeReadyTypes == TypeOK /\ MakeReady /\ Sequential => TypeOK'
<1> SUFFICES ASSUME TypeOK, Sequential, MakeReady PROVE TypeOK'
  OBVIOUS
<1> USE DEF TypeOK, Sequential, Step, Unarmed, Armed, Cleanup, Succeeds, Fail, host,
            guest, loop, background, cleaning, diagnostics, history
<1>1. CASE Create
  BY <1>1 DEF Create, MakeInstance
<1>2. CASE WaitForGuest
  <2>1. boots' \in 1..MaxBoots
    BY <1>2, BoundsAssumption DEF WaitForGuest
  <2>2. inventory' \in BOOLEAN
    BY <1>2 DEF WaitForGuest
  <2>3. rc' \in {"ok", "failed"} /\ pc' \in Step
    BY <1>2 DEF WaitForGuest
  <2>4. UNCHANGED <<host, guest, run, attempt, polls, jid, background, torn,
                    diagnostics, history>>
    BY <1>2 DEF WaitForGuest
  <2> QED BY <2>1, <2>2, <2>3, <2>4
<1>3. CASE PrepareGuest
  BY <1>3 DEF PrepareGuest
<1>4. CASE PrepareBase
  BY <1>4 DEF PrepareBase
<1> QED BY <1>1, <1>2, <1>3, <1>4 DEF MakeReady

LEMMA InstallTypes == TypeOK /\ Install => TypeOK'
<1> SUFFICES ASSUME TypeOK, Install PROVE TypeOK'
  OBVIOUS
<1> USE DEF TypeOK, Step, Unarmed, Armed, Cleanup, Succeeds, Fail, host, guest,
            loop, background, cleaning, diagnostics, history
<1>1. CASE ClearJid
  BY <1>1 DEF ClearJid
<1>2. CASE StartDeploy \/ RecordChild
  BY <1>2 DEF StartDeploy, RecordChild, Playbook
<1>3. CASE DeployEnded
  <2>1. polls' \in 0..MaxPolls
    BY <1>3, BoundsAssumption DEF DeployEnded
  <2>2. /\ child' = "none" /\ recorded' = FALSE /\ jid' = None
        /\ pc' \in Step /\ rc' \in {"ok", "failed"}
        /\ UNCHANGED <<host, guest, run, boots, attempt, cleaning, history>>
    BY <1>3 DEF DeployEnded
  <2> QED BY <2>1, <2>2
<1>4. CASE FindJid
  BY <1>4, BoundsAssumption DEF FindJid, Expired, WaitOn
<1>5. CASE Poll
  BY <1>5, BoundsAssumption DEF Poll, Expired, WaitOn
<1>6. CASE PollTimeout
  BY <1>6 DEF PollTimeout
<1>7. CASE Retry
  BY <1>7, BoundsAssumption DEF Retry, AttemptsLeft, NextAttempt, Attempt
<1>8. CASE StartVerify
  BY <1>8 DEF StartVerify, Playbook
<1>9. CASE VerifyEnded
  BY <1>9 DEF VerifyEnded
<1> QED BY <1>1, <1>2, <1>3, <1>4, <1>5, <1>6, <1>7, <1>8, <1>9 DEF Install

LEMMA CleanUpTypes == TypeOK /\ CleanUp /\ Sequential => TypeOK'
<1> SUFFICES ASSUME TypeOK, Sequential, CleanUp PROVE TypeOK'
  OBVIOUS
<1> USE DEF TypeOK, Sequential, Step, Unarmed, Armed, Cleanup, Succeeds, Leave, host,
            guest, loop, background, cleaning, diagnostics, history, Unregister
<1>1. CASE StopChild
  <2>1. job' \in [Attempt -> JobState]
    BY <1>1 DEF StopChild, LoopsOver, NoJobs, JobState
  <2>2. boots' \in 1..MaxBoots /\ attempt' \in Attempt /\ polls' \in 0..MaxPolls
    BY <1>1, BoundsAssumption DEF StopChild, LoopsOver, Attempt
  <2>3. /\ jidFile' = None /\ jid' = None
        /\ child' \in {"none", child} /\ recorded' = FALSE
        /\ pc' \in Step
        /\ UNCHANGED <<host, run, rc, cleaning, history>>
    BY <1>1 DEF StopChild, AfterStop, LoopsOver
  <2> QED BY <2>1, <2>2, <2>3
<1>2. CASE DiagnoseAap \/ DiagnoseIncus
  BY <1>2 DEF DiagnoseAap, DiagnoseIncus, Decline
<1>3. CASE Teardown
  BY <1>3 DEF Teardown, AfterTeardown
<1>4. CASE CleanRhsm
  BY <1>4 DEF CleanRhsm
<1>5. CASE Destroy
  BY <1>5 DEF Destroy, DestroyFailed
<1>6. CASE RemoveWorkDir
  BY <1>6 DEF RemoveWorkDir
<1>7. CASE Exit
  BY <1>7, LeaveTypes DEF Exit
<1> QED BY <1>1, <1>2, <1>3, <1>4, <1>5, <1>6, <1>7 DEF CleanUp

LEMMA OutsideTypes ==
    TypeOK /\ Sequential /\ (Begin \/ Interrupt \/ ChildEnds \/ Environment)
      => TypeOK'
<1> SUFFICES ASSUME TypeOK, Sequential, Begin \/ Interrupt \/ ChildEnds \/ Environment
             PROVE  TypeOK'
  OBVIOUS
<1> USE DEF TypeOK, Sequential, Step, Unarmed, Armed, Cleanup, Fail, Leave, host, guest,
            loop, background, cleaning, diagnostics, history, PublishJid, JobState
<1>1. CASE Begin
  <2>1. run' \in 1..MaxRuns
    BY <1>1, BoundsAssumption DEF Begin
  <2>2. run' \in 0..MaxRuns
    BY <2>1
  <2>3. keep' \subseteq Run
    BY <1>1, <2>1 DEF Begin, Run
  <2>4. pc' \in Step
    BY <1>1 DEF Begin, Succeeds
  <2>5. /\ UNCHANGED <<rc, host, guest, loop, background, cleaning>>
        /\ UNCHANGED <<result, orphans, missed, unreleased, byHand>>
    BY <1>1 DEF Begin, Succeeds
  <2> QED BY <2>2, <2>3, <2>4, <2>5
<1>2. CASE Interrupt
  <2>1. missed' \subseteq Run
    BY <1>2 DEF Interrupt
  <2> QED BY <1>2, <2>1 DEF Interrupt
<1>3. CASE DeployChildEnds
  BY <1>3 DEF DeployChildEnds
<1>4. CASE VerifyChildEnds
  BY <1>4 DEF VerifyChildEnds
<1>5. CASE JidAppears
  BY <1>5 DEF JidAppears
<1>6. CASE InstallerEnds
  BY <1>6 DEF InstallerEnds
<1>7. CASE Killed
  BY <1>7, LeaveTypes DEF Killed
<1>8. CASE RemoveStale
  BY <1>8 DEF RemoveStale
<1>9. CASE OrphanEnds
  BY <1>9 DEF OrphanEnds
<1> QED BY <1>1, <1>2, <1>3, <1>4, <1>5, <1>6, <1>7, <1>8, <1>9
           DEF ChildEnds, Environment

LEMMA TypesKept == TypeOK /\ Sequential /\ [Next]_vars => TypeOK'
<1>1. TypeOK /\ UNCHANGED vars => TypeOK'
  BY DEF TypeOK, vars, host, guest, loop, background, cleaning, diagnostics, history
<1> QED BY <1>1, SetupTypes, MakeReadyTypes, InstallTypes, CleanUpTypes, OutsideTypes
           DEF Next, Script
-----------------------------------------------------------------------------
(* Steps that leave the host and the history alone *)

Quiet == UNCHANGED <<host, run, torn, keep, result, unreleased, byHand>>

LEMMA InstallIsQuiet ==
    Install \/ Interrupt =>
        /\ Quiet
        /\ pc \in Armed \cup {"stop"}
        /\ pc' \in (Armed \cup {"stop"}) \ {"create", "boot", "prepare"}
<1> USE DEF Quiet, Armed, Succeeds, Fail, host, guest, loop, background, cleaning, diagnostics, history
<1>1. ASSUME ClearJid \/ StartDeploy \/ RecordChild \/ DeployEnded
      PROVE  /\ Quiet /\ pc \in Armed \cup {"stop"}
             /\ pc' \in (Armed \cup {"stop"}) \ {"create", "boot", "prepare"}
  BY <1>1 DEF ClearJid, StartDeploy, RecordChild, DeployEnded
<1>2. ASSUME FindJid \/ Poll \/ PollTimeout \/ Retry
      PROVE  /\ Quiet /\ pc \in Armed \cup {"stop"}
             /\ pc' \in (Armed \cup {"stop"}) \ {"create", "boot", "prepare"}
  BY <1>2 DEF FindJid, Poll, PollTimeout, Retry, WaitOn
<1>3. ASSUME StartVerify \/ VerifyEnded \/ Interrupt
      PROVE  /\ Quiet /\ pc \in Armed \cup {"stop"}
             /\ pc' \in (Armed \cup {"stop"}) \ {"create", "boot", "prepare"}
  BY <1>3 DEF StartVerify, VerifyEnded, Interrupt
<1> QED BY <1>1, <1>2, <1>3 DEF Install

LEMMA GuestIsQuiet ==
    ChildEnds \/ OrphanEnds \/ JidAppears \/ InstallerEnds \/ UNCHANGED vars
      => Quiet /\ UNCHANGED <<pc, rc, inventory, asked, declined>>
BY DEF ChildEnds, DeployChildEnds, VerifyChildEnds, OrphanEnds, JidAppears,
       InstallerEnds, Quiet,
       vars, host, guest, loop, background, cleaning, diagnostics, history

(* A run is over when its result is known; the next one starts afresh. *)
LEMMA SequentialKept ==
    TypeOK /\ Sequential /\ [Next]_vars
      => Sequential'
<1> SUFFICES ASSUME TypeOK, Sequential, [Next]_vars
             PROVE  Sequential'
  OBVIOUS
<1> USE DEF TypeOK, Sequential, Step, Unarmed, Armed, Cleanup, Succeeds, Fail,
            host, guest, loop, background, cleaning, diagnostics, history
<1>1. CASE Install \/ Interrupt
  BY <1>1, InstallIsQuiet DEF Quiet
<1>2. CASE ChildEnds \/ OrphanEnds \/ JidAppears \/ InstallerEnds \/ UNCHANGED vars
  BY <1>2, GuestIsQuiet DEF Quiet
<1>3. CASE Begin
  BY <1>3, BoundsAssumption DEF Begin, Run
<1>4. CASE Refuse
  BY <1>4 DEF Refuse, Leave, Forget
<1>5. CASE MakeWorkDir
  BY <1>5, BoundsAssumption DEF MakeWorkDir
<1>6. CASE Preflight
  BY <1>6 DEF Preflight
<1>7. CASE Create
  BY <1>7 DEF Create, MakeInstance
<1>8. CASE WaitForGuest
  BY <1>8 DEF WaitForGuest
<1>9. CASE PrepareGuest
  BY <1>9 DEF PrepareGuest
<1>10. CASE PrepareBase
  BY <1>10 DEF PrepareBase
<1>11. CASE StopChild
  BY <1>11 DEF StopChild, AfterStop
<1>12. CASE DiagnoseAap \/ DiagnoseIncus
  BY <1>12 DEF DiagnoseAap, DiagnoseIncus, Decline
<1>13. CASE Teardown
  BY <1>13 DEF Teardown, AfterTeardown, Unregister
<1>14. CASE CleanRhsm
  BY <1>14 DEF CleanRhsm, Unregister
<1>15. CASE Destroy
  BY <1>15 DEF Destroy, DestroyFailed
<1>16. CASE RemoveWorkDir
  BY <1>16 DEF RemoveWorkDir
<1>17. CASE Exit
  BY <1>17 DEF Exit, Leave, Forget
<1>18. CASE Killed
  BY <1>18 DEF Killed, Leave, Forget
<1>19. CASE RemoveStale
  BY <1>19 DEF RemoveStale
<1> QED BY <1>1, <1>2, <1>3, <1>4, <1>5, <1>6, <1>7, <1>8, <1>9, <1>10, <1>11,
           <1>12, <1>13, <1>14, <1>15, <1>16, <1>17, <1>18, <1>19
           DEF Next, Script, Setup, MakeReady, CleanUp, Environment

(* The preflight admits a run only when no VM exists, and nobody else makes one. *)
LEMMA ExclusiveKept ==
    TypeOK /\ Sequential /\ Exclusive /\ [Next]_vars
      => Exclusive'
<1> SUFFICES ASSUME TypeOK, Sequential, Exclusive, [Next]_vars
             PROVE  Exclusive'
  OBVIOUS
<1> USE DEF TypeOK, Sequential, Exclusive, Step, Unarmed, Armed, Cleanup,
            Succeeds, Fail, host, guest, loop, background, cleaning, diagnostics, history
<1>1. CASE Install \/ Interrupt
  BY <1>1, InstallIsQuiet DEF Quiet
<1>2. CASE ChildEnds \/ OrphanEnds \/ JidAppears \/ InstallerEnds \/ UNCHANGED vars
  BY <1>2, GuestIsQuiet DEF Quiet
<1>3. CASE Begin
  BY <1>3 DEF Begin, Run
<1>4. CASE Refuse
  BY <1>4 DEF Refuse, Leave, Forget
<1>5. CASE MakeWorkDir
  BY <1>5 DEF MakeWorkDir
<1>6. CASE Preflight
  BY <1>6 DEF Preflight
<1>7. CASE Create
  BY <1>7 DEF Create, MakeInstance
<1>8. CASE WaitForGuest
  BY <1>8 DEF WaitForGuest
<1>9. CASE PrepareGuest
  BY <1>9 DEF PrepareGuest
<1>10. CASE PrepareBase
  BY <1>10 DEF PrepareBase
<1>11. CASE StopChild
  BY <1>11 DEF StopChild, AfterStop
<1>12. CASE DiagnoseAap \/ DiagnoseIncus
  BY <1>12 DEF DiagnoseAap, DiagnoseIncus, Decline
<1>13. CASE Teardown
  BY <1>13 DEF Teardown, AfterTeardown, Unregister
<1>14. CASE CleanRhsm
  BY <1>14 DEF CleanRhsm, Unregister
<1>15. CASE Destroy
  BY <1>15 DEF Destroy, DestroyFailed
<1>16. CASE RemoveWorkDir
  BY <1>16 DEF RemoveWorkDir
<1>17. CASE Exit
  BY <1>17 DEF Exit, Leave, Forget
<1>18. CASE Killed
  BY <1>18 DEF Killed, Leave, Forget
<1>19. CASE RemoveStale
  BY <1>19 DEF RemoveStale
<1> QED BY <1>1, <1>2, <1>3, <1>4, <1>5, <1>6, <1>7, <1>8, <1>9, <1>10, <1>11,
           <1>12, <1>13, <1>14, <1>15, <1>16, <1>17, <1>18, <1>19
           DEF Next, Script, Setup, MakeReady, CleanUp, Environment

(* Success is reported by Exit only, after the VM is gone or with keep. *)
LEMMA ReportedKept ==
    TypeOK /\ Sequential /\ Exclusive /\ Reported /\ [Next]_vars
      => Reported'
<1> SUFFICES ASSUME TypeOK, Sequential, Exclusive, Reported, [Next]_vars
             PROVE  Reported'
  OBVIOUS
<1> USE DEF TypeOK, Sequential, Exclusive, Reported, Step, Unarmed, Armed,
            Cleanup, Succeeds, Fail, host, guest, loop, background, cleaning, diagnostics, history
<1>1. CASE Install \/ Interrupt
  BY <1>1, InstallIsQuiet DEF Quiet
<1>2. CASE ChildEnds \/ OrphanEnds \/ JidAppears \/ InstallerEnds \/ UNCHANGED vars
  BY <1>2, GuestIsQuiet DEF Quiet
<1>3. CASE Begin
  BY <1>3 DEF Begin, Run
<1>4. CASE Refuse
  BY <1>4 DEF Refuse, Leave, Forget
<1>5. CASE MakeWorkDir
  BY <1>5 DEF MakeWorkDir
<1>6. CASE Preflight
  BY <1>6 DEF Preflight
<1>7. CASE Create
  BY <1>7 DEF Create, MakeInstance
<1>8. CASE WaitForGuest
  BY <1>8 DEF WaitForGuest
<1>9. CASE PrepareGuest
  BY <1>9 DEF PrepareGuest
<1>10. CASE PrepareBase
  BY <1>10 DEF PrepareBase
<1>11. CASE StopChild
  BY <1>11 DEF StopChild, AfterStop
<1>12. CASE DiagnoseAap \/ DiagnoseIncus
  BY <1>12 DEF DiagnoseAap, DiagnoseIncus, Decline
<1>13. CASE Teardown
  BY <1>13 DEF Teardown, AfterTeardown, Unregister
<1>14. CASE CleanRhsm
  BY <1>14 DEF CleanRhsm, Unregister
<1>15. CASE Destroy
  BY <1>15 DEF Destroy, DestroyFailed
<1>16. CASE RemoveWorkDir
  BY <1>16 DEF RemoveWorkDir
<1>17. CASE Exit
  BY <1>17 DEF Exit, Leave, Forget
<1>18. CASE Killed
  BY <1>18 DEF Killed, Leave, Forget
<1>19. CASE RemoveStale
  BY <1>19 DEF RemoveStale
<1> QED BY <1>1, <1>2, <1>3, <1>4, <1>5, <1>6, <1>7, <1>8, <1>9, <1>10, <1>11,
           <1>12, <1>13, <1>14, <1>15, <1>16, <1>17, <1>18, <1>19
           DEF Next, Script, Setup, MakeReady, CleanUp, Environment

(* The work directory goes with the VM, or before there is one. *)
LEMMA KeyKeptKept ==
    TypeOK /\ Sequential /\ Exclusive /\ KeyKept /\ [Next]_vars
      => KeyKept'
<1> SUFFICES ASSUME TypeOK, Sequential, Exclusive, KeyKept, [Next]_vars
             PROVE  KeyKept'
  OBVIOUS
<1> USE DEF TypeOK, Sequential, Exclusive, KeyKept, Step, Unarmed, Armed,
            Cleanup, Succeeds, Fail, host, guest, loop, background, cleaning, diagnostics, history
<1>1. CASE Install \/ Interrupt
  BY <1>1, InstallIsQuiet DEF Quiet
<1>2. CASE ChildEnds \/ OrphanEnds \/ JidAppears \/ InstallerEnds \/ UNCHANGED vars
  BY <1>2, GuestIsQuiet DEF Quiet
<1>3. CASE Begin
  BY <1>3, NoneAssumption DEF Begin, Run
<1>4. CASE Refuse
  BY <1>4 DEF Refuse, Leave, Forget
<1>5. CASE MakeWorkDir
  BY <1>5, NoneAssumption DEF MakeWorkDir, Run
<1>6. CASE Preflight
  BY <1>6 DEF Preflight
<1>7. CASE Create
  BY <1>7 DEF Create, MakeInstance
<1>8. CASE WaitForGuest
  BY <1>8 DEF WaitForGuest
<1>9. CASE PrepareGuest
  BY <1>9 DEF PrepareGuest
<1>10. CASE PrepareBase
  BY <1>10 DEF PrepareBase
<1>11. CASE StopChild
  BY <1>11 DEF StopChild, AfterStop
<1>12. CASE DiagnoseAap \/ DiagnoseIncus
  BY <1>12 DEF DiagnoseAap, DiagnoseIncus, Decline
<1>13. CASE Teardown
  BY <1>13 DEF Teardown, AfterTeardown, Unregister
<1>14. CASE CleanRhsm
  BY <1>14 DEF CleanRhsm, Unregister
<1>15. CASE Destroy
  BY <1>15 DEF Destroy, DestroyFailed
<1>16. CASE RemoveWorkDir
  BY <1>16 DEF RemoveWorkDir
<1>17. CASE Exit
  BY <1>17 DEF Exit, Leave, Forget
<1>18. CASE Killed
  BY <1>18 DEF Killed, Leave, Forget
<1>19. CASE RemoveStale
  BY <1>19 DEF RemoveStale
<1> QED BY <1>1, <1>2, <1>3, <1>4, <1>5, <1>6, <1>7, <1>8, <1>9, <1>10, <1>11,
           <1>12, <1>13, <1>14, <1>15, <1>16, <1>17, <1>18, <1>19
           DEF Next, Script, Setup, MakeReady, CleanUp, Environment

(* Destruction comes after an attempt to unregister. *)
LEMMA SubscriptionsKept ==
    TypeOK /\ Sequential /\ Exclusive /\ Subscriptions /\ [Next]_vars
      => Subscriptions'
<1> SUFFICES ASSUME TypeOK, Sequential, Exclusive, Subscriptions, [Next]_vars
             PROVE  Subscriptions'
  OBVIOUS
<1> USE DEF TypeOK, Sequential, Exclusive, Subscriptions, SubscriptionReleased,
            Step, Unarmed, Armed, Cleanup, Succeeds, Fail, host, guest, loop,
            background, cleaning, diagnostics, history
<1>1. CASE Install \/ Interrupt
  BY <1>1, InstallIsQuiet DEF Quiet
<1>2. CASE ChildEnds \/ OrphanEnds \/ JidAppears \/ InstallerEnds \/ UNCHANGED vars
  BY <1>2, GuestIsQuiet DEF Quiet
<1>3. CASE Begin
  BY <1>3 DEF Begin, Run
<1>4. CASE Refuse
  BY <1>4 DEF Refuse, Leave, Forget
<1>5. CASE MakeWorkDir
  BY <1>5 DEF MakeWorkDir
<1>6. CASE Preflight
  BY <1>6 DEF Preflight
<1>7. CASE Create
  BY <1>7 DEF Create, MakeInstance
<1>8. CASE WaitForGuest
  BY <1>8 DEF WaitForGuest
<1>9. CASE PrepareGuest
  BY <1>9 DEF PrepareGuest
<1>10. CASE PrepareBase
  BY <1>10 DEF PrepareBase
<1>11. CASE StopChild
  BY <1>11 DEF StopChild, AfterStop
<1>12. CASE DiagnoseAap \/ DiagnoseIncus
  BY <1>12 DEF DiagnoseAap, DiagnoseIncus, Decline
<1>13. CASE Teardown
  BY <1>13 DEF Teardown, AfterTeardown, Unregister
<1>14. CASE CleanRhsm
  BY <1>14 DEF CleanRhsm, Unregister
<1>15. CASE Destroy
  BY <1>15 DEF Destroy, DestroyFailed
<1>16. CASE RemoveWorkDir
  BY <1>16 DEF RemoveWorkDir
<1>17. CASE Exit
  BY <1>17 DEF Exit, Leave, Forget
<1>18. CASE Killed
  BY <1>18 DEF Killed, Leave, Forget
<1>19. CASE RemoveStale
  BY <1>19 DEF RemoveStale
<1> QED BY <1>1, <1>2, <1>3, <1>4, <1>5, <1>6, <1>7, <1>8, <1>9, <1>10, <1>11,
           <1>12, <1>13, <1>14, <1>15, <1>16, <1>17, <1>18, <1>19
           DEF Next, Script, Setup, MakeReady, CleanUp, Environment

(* Failed runs pass Diagnose on their way to the teardown. *)
LEMMA DiagnosedKept ==
    TypeOK /\ Sequential /\ Diagnosed /\ [Next]_vars
      => Diagnosed'
<1> SUFFICES ASSUME TypeOK, Sequential, Diagnosed, [Next]_vars
             PROVE  Diagnosed'
  OBVIOUS
<1> USE DEF TypeOK, Sequential, Diagnosed, Step, Unarmed, Armed, Cleanup,
            Succeeds, Fail, host, guest, loop, background, cleaning, diagnostics, history
<1>1. CASE Install \/ Interrupt
  BY <1>1, InstallIsQuiet DEF Quiet
<1>2. CASE ChildEnds \/ OrphanEnds \/ JidAppears \/ InstallerEnds \/ UNCHANGED vars
  BY <1>2, GuestIsQuiet DEF Quiet
<1>3. CASE Begin
  BY <1>3 DEF Begin, Run
<1>4. CASE Refuse
  BY <1>4 DEF Refuse, Leave, Forget
<1>5. CASE MakeWorkDir
  BY <1>5 DEF MakeWorkDir
<1>6. CASE Preflight
  BY <1>6 DEF Preflight
<1>7. CASE Create
  BY <1>7 DEF Create, MakeInstance
<1>8. CASE WaitForGuest
  BY <1>8 DEF WaitForGuest
<1>9. CASE PrepareGuest
  BY <1>9 DEF PrepareGuest
<1>10. CASE PrepareBase
  BY <1>10 DEF PrepareBase
<1>11. CASE StopChild
  BY <1>11 DEF StopChild, AfterStop
<1>12. CASE DiagnoseAap \/ DiagnoseIncus
  BY <1>12 DEF DiagnoseAap, DiagnoseIncus, Decline
<1>13. CASE Teardown
  BY <1>13 DEF Teardown, AfterTeardown, Unregister
<1>14. CASE CleanRhsm
  BY <1>14 DEF CleanRhsm, Unregister
<1>15. CASE Destroy
  BY <1>15 DEF Destroy, DestroyFailed
<1>16. CASE RemoveWorkDir
  BY <1>16 DEF RemoveWorkDir
<1>17. CASE Exit
  BY <1>17 DEF Exit, Leave, Forget
<1>18. CASE Killed
  BY <1>18 DEF Killed, Leave, Forget
<1>19. CASE RemoveStale
  BY <1>19 DEF RemoveStale
<1> QED BY <1>1, <1>2, <1>3, <1>4, <1>5, <1>6, <1>7, <1>8, <1>9, <1>10, <1>11,
           <1>12, <1>13, <1>14, <1>15, <1>16, <1>17, <1>18, <1>19
           DEF Next, Script, Setup, MakeReady, CleanUp, Environment

(* The result of a run is given once, when it ends. *)
LEMMA OrphansKept ==
    TypeOK /\ Sequential /\ Children /\ [Next]_vars
      => \A r \in orphans' : r \in missed' \/ result'[r] = "killed"
<1> SUFFICES ASSUME TypeOK, Sequential, Children, [Next]_vars,
                    NEW r \in orphans'
             PROVE  r \in missed' \/ result'[r] = "killed"
  OBVIOUS
<1> USE DEF history
<1>1. \A o \in orphans : o \in missed \/ result[o] = "killed"
  BY DEF Children, CleanupStopsChild
<1>2. ASSUME NEW v \in {"ok", "failed", "killed"}, pc # "idle", Leave(v),
             child \in Playbook => v = "killed" \/ run \in missed
      PROVE  r \in missed' \/ result'[r] = "killed"
  <2>1. run \in Run /\ result[run] = "none" /\ missed' = missed
    BY <1>2 DEF Sequential, Leave
  <2>2. result' = [result EXCEPT ![run] = v]
    BY <1>2 DEF Leave
  <2>3. CASE r \in orphans
    <3>1. r \in missed \/ (r # run /\ result[r] = "killed")
      BY <1>1, <2>1, <2>3
    <3>2. r \in Run
      BY <2>3 DEF TypeOK
    <3> QED BY <2>1, <2>2, <3>1, <3>2 DEF TypeOK
  <2>4. CASE r \notin orphans
    <3>1. r = run /\ child \in Playbook
      BY <1>2, <2>4 DEF Leave, Forget
    <3> QED BY <1>2, <2>1, <2>2, <3>1 DEF TypeOK
  <2> QED BY <2>3, <2>4
<1>3. ASSUME orphans' \subseteq orphans, missed \subseteq missed', result' = result
      PROVE  r \in missed' \/ result'[r] = "killed"
  BY <1>1, <1>3
<1>4. CASE Refuse
  BY <1>2, <1>4 DEF Refuse, Children, Cleanup, Playbook
<1>5. CASE Exit
  BY <1>2, <1>5 DEF Exit, TypeOK, Children, CleanupStopsChild, Cleanup
<1>6. CASE Killed
  BY <1>2, <1>6 DEF Killed
<1>7. CASE Begin \/ MakeWorkDir \/ Preflight \/ MakeReady
  BY <1>3, <1>7 DEF Begin, MakeWorkDir, Preflight, MakeReady, Create, WaitForGuest,
                    PrepareGuest, PrepareBase
<1>8. CASE Install \/ Interrupt
  <2>1. CASE ClearJid \/ StartDeploy \/ RecordChild \/ DeployEnded \/ Interrupt
    BY <1>3, <2>1 DEF ClearJid, StartDeploy, RecordChild, DeployEnded, Interrupt
  <2>2. CASE FindJid \/ Poll \/ PollTimeout \/ Retry \/ StartVerify \/ VerifyEnded
    BY <1>3, <2>2 DEF FindJid, Poll, PollTimeout, Retry, StartVerify, VerifyEnded
  <2> QED BY <1>8, <2>1, <2>2 DEF Install
<1>9. CASE StopChild \/ DiagnoseAap \/ DiagnoseIncus \/ Teardown
  BY <1>3, <1>9 DEF StopChild, DiagnoseAap, DiagnoseIncus, Teardown
<1>10. CASE CleanRhsm \/ Destroy \/ RemoveWorkDir
  BY <1>3, <1>10 DEF CleanRhsm, Destroy, RemoveWorkDir
<1>11. CASE ChildEnds \/ OrphanEnds \/ JidAppears \/ InstallerEnds \/ RemoveStale
  BY <1>3, <1>11 DEF ChildEnds, DeployChildEnds, VerifyChildEnds, OrphanEnds,
                     JidAppears, InstallerEnds, RemoveStale
<1>12. CASE UNCHANGED vars
  BY <1>3, <1>12 DEF vars
<1> QED BY <1>4, <1>5, <1>6, <1>7, <1>8, <1>9, <1>10, <1>11, <1>12
           DEF Next, Script, Setup, CleanUp, Environment

(* Children live from StartDeploy or StartVerify to StopChild at the latest,
   unless they are missed. *)
LEMMA ChildrenKept ==
    TypeOK /\ Sequential /\ Children /\ [Next]_vars => Children'
<1> SUFFICES ASSUME TypeOK, Sequential, Children, [Next]_vars
             PROVE  Children'
  OBVIOUS
<1> DEFINE Stopped ==
      /\ pc \notin {"deploying", "verifying", "stop"} \cup Cleanup => child = "none"
      /\ pc = "stop" /\ child \in Playbook => recorded \/ run \in missed
      /\ pc \in Cleanup /\ child \in Playbook => run \in missed
<1>1. Stopped
  BY DEF Children, CleanupStopsChild
<1>2. Stopped'
  <2> USE <1>1 DEF Playbook, Unarmed, Armed, Cleanup, Succeeds, Fail, Leave, Forget,
                   background, history
  <2>1. CASE Begin \/ Setup \/ Killed \/ Exit
    BY <2>1 DEF Begin, Setup, Refuse, MakeWorkDir, Preflight, Killed, Exit
  <2>2. CASE MakeReady
    BY <2>2 DEF MakeReady, Create, WaitForGuest, PrepareGuest, PrepareBase
  <2>3. CASE ClearJid \/ StartDeploy \/ RecordChild \/ DeployEnded
    BY <2>3 DEF ClearJid, StartDeploy, RecordChild, DeployEnded
  <2>4. CASE FindJid \/ Poll \/ PollTimeout \/ Retry
    BY <2>4 DEF FindJid, Poll, PollTimeout, Retry, WaitOn
  <2>5. CASE StartVerify \/ VerifyEnded
    BY <2>5 DEF StartVerify, VerifyEnded
  <2>6. CASE Interrupt
    BY <2>6 DEF Interrupt
  <2>7. CASE StopChild \/ DiagnoseAap \/ DiagnoseIncus
    BY <2>7 DEF StopChild, AfterStop, DiagnoseAap, DiagnoseIncus
  <2>8. CASE Teardown \/ CleanRhsm \/ Destroy \/ RemoveWorkDir
    BY <2>8 DEF Teardown, AfterTeardown, CleanRhsm, Destroy, DestroyFailed, RemoveWorkDir
  <2>9. CASE ChildEnds
    BY <2>9 DEF ChildEnds, DeployChildEnds, VerifyChildEnds
  <2>10. CASE (Environment /\ ~Killed) \/ UNCHANGED vars
    BY <2>10 DEF Environment, OrphanEnds, JidAppears, InstallerEnds, RemoveStale, vars
  <2> QED BY <2>1, <2>2, <2>3, <2>4, <2>5, <2>6, <2>7, <2>8, <2>9, <2>10
             DEF Next, Script, Install, CleanUp
<1> QED BY <1>2, OrphansKept DEF Children, CleanupStopsChild

-----------------------------------------------------------------------------
LEMMA Invariance == Spec => []IInv
<1>1. Init => IInv
  <2> SUFFICES ASSUME Init PROVE IInv
    OBVIOUS
  <2> USE DEF NoScript
  <2>1. TypeOK
    <3>1. job \in [Attempt -> JobState]
      BY DEF Init, NoJobs, JobState
    <3>2. run \in 0..MaxRuns /\ boots \in 1..MaxBoots /\ attempt \in Attempt
          /\ polls \in 0..MaxPolls
      BY BoundsAssumption DEF Init, Attempt
    <3> QED BY <3>1, <3>2 DEF Init, TypeOK, Step, Unarmed
  <2>2. Sequential /\ Exclusive /\ Reported /\ KeyKept
    BY DEF Init, Sequential, Exclusive, Reported, KeyKept, Unarmed
  <2>3. Children /\ Subscriptions /\ Diagnosed
    BY DEF Init, Children, CleanupStopsChild, Playbook, Subscriptions,
           SubscriptionReleased, Diagnosed
  <2> QED BY <2>1, <2>2, <2>3 DEF IInv
<1>2. IInv /\ [Next]_vars => IInv'
  BY TypesKept, SequentialKept, ExclusiveKept, ReportedKept, KeyKeptKept,
     ChildrenKept, SubscriptionsKept, DiagnosedKept DEF IInv
<1> QED BY <1>1, <1>2, PTL DEF Spec

(* Host, guest and script stay well typed for any number of runs, attempts,
   boots and polls: no counter passes its limit. *)
THEOREM TypeCorrect == Spec => []TypeOK
<1>1. IInv => TypeOK
  BY DEF IInv
<1> QED BY <1>1, Invariance, PTL

(* The key of every VM that exists is the one in the work directory, although
   all runs of a matrix entry share that directory and each may remove it. *)
THEOREM KeyFits == Spec => []KeyFitsInstance
<1>1. IInv => KeyFitsInstance
  BY DEF IInv, KeyKept, KeyFitsInstance
<1> QED BY <1>1, Invariance, PTL

(* cleanup works on a guest that no playbook of the run is working on, and no
   playbook outlives its run, unless a trap missed it or the run was killed. *)
THEOREM ChildStopped == Spec => []CleanupStopsChild
<1>1. IInv => CleanupStopsChild
  BY DEF IInv, Children
<1> QED BY <1>1, Invariance, PTL

(* A run destroys a registered guest only when both ways to unregister it
   have failed. *)
THEOREM Released == Spec => []SubscriptionReleased
<1>1. IInv => SubscriptionReleased
  BY DEF IInv, Subscriptions
<1> QED BY <1>1, Invariance, PTL

-----------------------------------------------------------------------------
(* Only Destroy and the operator make a VM disappear. *)
LEMMA WhoRemoves ==
    ASSUME IInv, [Next]_vars
    PROVE  \/ instances \subseteq instances'
           \/ /\ pc = "destroy"
              /\ \E r \in instances : r = run /\ instances' = instances \ {r}
              /\ UNCHANGED <<keep, result>>
           \/ /\ \E r \in instances : /\ instances' = instances \ {r}
                                     /\ byHand' = byHand \cup {r}
              /\ UNCHANGED <<keep, result>>
<1> USE DEF host, history
<1>1. CASE Install \/ Interrupt
  BY <1>1, InstallIsQuiet DEF Quiet
<1>2. CASE ChildEnds \/ OrphanEnds \/ JidAppears \/ InstallerEnds \/ UNCHANGED vars
  BY <1>2, GuestIsQuiet DEF Quiet
<1>3. CASE Begin \/ Setup
  BY <1>3 DEF Begin, Setup, Refuse, Leave, MakeWorkDir, Preflight
<1>4. CASE MakeReady
  BY <1>4 DEF MakeReady, Create, MakeInstance, WaitForGuest, PrepareGuest, PrepareBase
<1>5. CASE StopChild \/ DiagnoseAap \/ DiagnoseIncus \/ Teardown \/ CleanRhsm
  BY <1>5 DEF StopChild, DiagnoseAap, DiagnoseIncus, Teardown, CleanRhsm
<1>6. CASE Destroy
  BY <1>6 DEF Destroy
<1>7. CASE RemoveWorkDir \/ Exit \/ Killed
  BY <1>7 DEF RemoveWorkDir, Exit, Killed, Leave
<1>8. CASE RemoveStale
  BY <1>8 DEF RemoveStale
<1> QED BY <1>1, <1>2, <1>3, <1>4, <1>5, <1>6, <1>7, <1>8
           DEF Next, Script, CleanUp, Environment

(* A run that has failed when it destroys its VM has collected the diagnostics
   of Incus before, and those of AAP if it has an inventory of the guest, as far
   as `incus info`, the switch and the tools allow. *)
THEOREM DiagnosedFirst == Spec => DiagnosedBeforeDestroyed
<1>1. IInv /\ [Next]_vars =>
        [\A r \in instances \ instances' : rc = "failed" /\ r \notin byHand' =>
            /\ "incus" \in asked \cup declined
            /\ inventory => "aap" \in asked \cup declined]_vars
  BY WhoRemoves DEF IInv, Diagnosed
<1> QED BY <1>1, Invariance, PTL DEF Spec, DiagnosedBeforeDestroyed
-----------------------------------------------------------------------------
(* The refinement: a lease is a VM. *)

LEMMA LeaseSteps ==
    ASSUME IInv, [Next]_vars
    PROVE  Lease!Next \/ UNCHANGED <<instances, keep, result>>
<1> USE DEF host, history
<1>1. CASE Install \/ Interrupt
  BY <1>1, InstallIsQuiet DEF Quiet
<1>2. CASE ChildEnds \/ OrphanEnds \/ JidAppears \/ InstallerEnds \/ UNCHANGED vars
  BY <1>2, GuestIsQuiet DEF Quiet
<1>3. CASE Begin
  <2>1. run + 1 \in Run /\ run + 1 > run
    <3>1. run \in 0..MaxRuns /\ run < MaxRuns
      BY <1>3 DEF IInv, TypeOK, Begin
    <3> QED BY <3>1, BoundsAssumption DEF Run
  <2>2. result[run + 1] = "none" /\ run + 1 \notin instances
    BY <2>1 DEF IInv, Sequential
  <2>3. Lease!AskToKeep(run + 1) \/ UNCHANGED <<instances, keep, result>>
    BY <1>3, <2>2 DEF Begin, Lease!AskToKeep
  <2> QED BY <2>1, <2>3 DEF Lease!Next
<1>4. ASSUME NEW v \in {"ok", "failed", "killed"}, pc # "idle", Leave(v),
             v = "ok" => run \in keep \/ run \notin instances
      PROVE  Lease!Next
  <2>1. run \in Run /\ result[run] = "none"
    BY <1>4 DEF IInv, Sequential
  <2>2. Lease!Report(run, v)
    BY <1>4, <2>1 DEF Lease!Report, Leave
  <2> QED BY <2>1, <2>2 DEF Lease!Next
<1>5. CASE Refuse
  BY <1>4, <1>5 DEF Refuse
<1>6. CASE MakeWorkDir \/ Preflight
  BY <1>6 DEF MakeWorkDir, Preflight
<1>7. CASE Create
  <2>1. run \in Run /\ result[run] = "none" /\ instances = {}
    BY <1>7 DEF Create, IInv, Sequential, Exclusive
  <2>2. Lease!Acquire(run) \/ UNCHANGED <<instances, keep, result>>
    BY <1>7, <2>1 DEF Create, MakeInstance, Lease!Acquire
  <2> QED BY <2>1, <2>2 DEF Lease!Next
<1>8. CASE WaitForGuest \/ PrepareGuest \/ PrepareBase
  BY <1>8 DEF WaitForGuest, PrepareGuest, PrepareBase
<1>9. CASE \/ StopChild \/ DiagnoseAap \/ DiagnoseIncus \/ Teardown \/ CleanRhsm
           \/ RemoveWorkDir
  BY <1>9 DEF StopChild, DiagnoseAap, DiagnoseIncus, Teardown, CleanRhsm, RemoveWorkDir
<1>10. ASSUME NEW r \in instances, instances' = instances \ {r},
              UNCHANGED <<keep, result>>
       PROVE  Lease!Next
  <2>1. r \in Run
    BY <1>10 DEF IInv, TypeOK
  <2>2. Lease!Release(r)
    BY <1>10 DEF Lease!Release
  <2> QED BY <2>1, <2>2 DEF Lease!Next
<1>11. CASE Destroy
  BY <1>10, <1>11 DEF Destroy
<1>12. CASE RemoveStale
  BY <1>10, <1>12 DEF RemoveStale
<1>13. CASE Exit
  BY <1>4, <1>13 DEF Exit, IInv, TypeOK, Reported
<1>14. CASE Killed
  BY <1>4, <1>14 DEF Killed
<1> QED BY <1>1, <1>2, <1>3, <1>5, <1>6, <1>7, <1>8, <1>9, <1>11, <1>12, <1>13, <1>14
           DEF Next, Script, Setup, MakeReady, CleanUp, Environment

(* Every behaviour of the matrix runs is one of InstanceLease: VMs never
   overlap, and success is reported only when the VM is gone or was to be
   kept. *)
THEOREM ImplementsLease == Spec => LeaseSpec
<1>1. Init => Lease!Init
  BY DEF Init, Lease!Init
<1>2. IInv /\ [Next]_vars => [Lease!Next]_(Lease!vars)
  BY LeaseSteps DEF Lease!vars
<1> QED BY <1>1, <1>2, Invariance, PTL DEF Spec, LeaseSpec, Lease!Spec

(* What InstanceLease promises holds of the VMs: there is never more than one,
   and a successful run that was not asked to keep its VM has left none. *)
THEOREM LeaseKept == Spec => [](Lease!OneInstance /\ Lease!SuccessLeavesNothing)
<1>1. IInv => Lease!OneInstance /\ Lease!SuccessLeavesNothing
  BY DEF IInv, Exclusive, Reported, Lease!OneInstance, Lease!SuccessLeavesNothing
<1> QED BY <1>1, Invariance, PTL
=============================================================================

---------------------------- MODULE PrimaryTerm ----------------------------
(***************************************************************************)
(* internal/cli/server_runtime.go: what one process does with a term.      *)
(* runOwnerElection polls the election; a winner runs startPrimaryTerm,    *)
(* renews while its loops (API, channels, orchestrator) run, and leaves    *)
(* through stopFor, which first waits for every loop and only then hands   *)
(* the lease over or releases it.                                          *)
(*                                                                         *)
(* A server process is slow at will: nothing bounds the time between two   *)
(* of its steps, so a heartbeat may go stale while its loops run, during   *)
(* startup and during the drain.  Requests to a detached worker carry the  *)
(* term they were sent under and may outlive the process that sent them.   *)
(***************************************************************************)
EXTENDS Election, FiniteSets

CONSTANTS
  Socket,      \* the processes started with --socket
  MaxRequest   \* bound: worker requests in flight at once

ASSUME PrimaryTermAssumption ==
  /\ Socket \subseteq Proc
  /\ MaxRequest \in Nat

VARIABLES
  server,      \* server[p]: where runOwnerElection of p stands
  requests     \* <<controller, term>> of the requests a worker has yet to fence

serverVars == <<electionVars, server, requests>>

-----------------------------------------------------------------------------

Phase == {"secondary",  \* polling, no term
          "starting",   \* inside startPrimaryTerm: the lease is ours, no loops
          "primary",    \* loops run
          "stopping",   \* stopFor: cancelled, waiting for the loops
          "releasing",  \* stopFor: loops are gone, the lease is next
          "aborting",   \* startPrimaryTerm failed: the lease is next
          "closing",    \* stopFor: the deferred service.Close
          "exited"}     \* runOwnerElection returned, or the process died

Server == [phase : Phase, term : Nat,
           target : Proc \cup {NoProc},   \* stopFor's targetID
           failed : BOOLEAN]              \* an error will end runOwnerElection

Polling == [phase |-> "secondary", term |-> 0, target |-> NoProc,
            failed |-> FALSE]

ServerTypeOK ==
  /\ TypeOK
  /\ server \in [Proc -> Server]
  /\ requests \subseteq Proc \X Nat

ServerInit ==
  /\ Init
  /\ server = [p \in Proc |-> Polling]
  /\ requests = {}

In(p, phase) == server[p].phase = phase

Term(p) == server[p].term

Enter(p, phase) == server' = [server EXCEPT ![p].phase = phase]

\* Owner-only code of p may be running: its scanner and, once startup succeeded,
\* its loops.
Works(p) == server[p].phase \in {"starting", "primary", "stopping"}

\* stopFor begins.
Stop(p, target, failed) ==
  server' = [server EXCEPT ![p].phase = "stopping",
                           ![p].target = target,
                           ![p].failed = failed]

\* What follows a term: an error, or ctx.Done, ends the election loop.
After(failed) == IF failed THEN [Polling EXCEPT !.phase = "exited"] ELSE Polling

\* Where p goes once the lease is dealt with: stopFor still has its deferred
\* Close, the failure path of step has closed the service already.
Settle(p, failed) ==
  LET bad == failed \/ server[p].failed
  IN server' = [server EXCEPT
       ![p] = IF @.phase = "aborting" THEN After(bad)
              ELSE [@ EXCEPT !.phase = "closing", !.failed = bad]]

-----------------------------------------------------------------------------
(* runOwnerElection's step. *)

AttemptReleasedOnlyMutant(p) ==
  /\ In(p, "secondary")
  /\ ~Published \/ lease.handoff = p
  /\ TryAcquire(p)
  /\ server' = [server EXCEPT ![p] = [Polling EXCEPT !.phase = "starting",
                                                     !.term = nextTerm]]
  /\ UNCHANGED requests

\* Current and CanTakeOver only save a pointless attempt: TryAcquire decides.
Attempt(p) ==
  /\ In(p, "secondary")
  /\ TryAcquire(p)
  /\ server' = [server EXCEPT ![p] = [Polling EXCEPT !.phase = "starting",
                                                     !.term = nextTerm]]
  /\ UNCHANGED requests

\* --socket needs a new primary: a healthy owner ends the process.
SocketRefused(p) ==
  /\ p \in Socket
  /\ In(p, "secondary")
  /\ Published /\ ~MayAcquire(p)
  /\ Enter(p, "exited")
  /\ UNCHANGED <<electionVars, requests>>

\* The Renew that ends a successful startup.
StartSucceeds(p) ==
  /\ In(p, "starting")
  /\ Renew(p, Term(p))
  /\ Enter(p, "primary")
  /\ UNCHANGED requests

\* Startup outlasted the lease and another contender replaced it.
StartLosesOwnership(p) ==
  /\ In(p, "starting")
  /\ section = Unlocked
  /\ ~MayRenew(p, Term(p))
  /\ Enter(p, "aborting")
  /\ UNCHANGED <<electionVars, requests>>

\* Configuration, worker binding or channels failed; service.Close has waited
\* for a recovery scan in progress.
StartFails(p) ==
  /\ In(p, "starting")
  /\ section.by # p
  /\ server' = [server EXCEPT ![p].phase = "aborting", ![p].failed = TRUE]
  /\ UNCHANGED <<electionVars, requests>>

RenewTickBlindMutant(p) ==
  /\ In(p, "primary")
  /\ section = Unlocked
  /\ lease' = LeaseOf(p, Term(p))
  /\ UNCHANGED <<fence, section, nextTerm, tokens, admitted, server, requests>>

RenewTick(p) ==
  /\ In(p, "primary")
  /\ Renew(p, Term(p))
  /\ UNCHANGED <<server, requests>>

RenewRefusedMissingOnlyMutant(p) ==
  /\ In(p, "primary")
  /\ section = Unlocked
  /\ ~Published
  /\ Stop(p, NoProc, FALSE)
  /\ UNCHANGED <<electionVars, requests>>

RenewRefused(p) ==
  /\ In(p, "primary")
  /\ section = Unlocked
  /\ ~MayRenew(p, Term(p))
  /\ Stop(p, NoProc, FALSE)
  /\ UNCHANGED <<electionVars, requests>>

\* The renewal failed, the API stopped, or the worker is gone.
LoopFails(p) ==
  /\ In(p, "primary")
  /\ Stop(p, NoProc, FALSE)
  /\ UNCHANGED <<electionVars, requests>>

HandoffRequestedReservesFirstMutant(p, q) ==
  /\ In(p, "primary")
  /\ q # p
  /\ Handoff(p, Term(p), q)
  /\ Stop(p, q, FALSE)
  /\ UNCHANGED requests

\* /primary from the TUI of instance q.
HandoffRequested(p, q) ==
  /\ In(p, "primary")
  /\ q # p
  /\ Stop(p, q, FALSE)
  /\ UNCHANGED <<electionVars, requests>>

Shutdown(p) ==
  /\ \/ In(p, "primary") /\ Stop(p, NoProc, TRUE)
     \/ In(p, "secondary") /\ Enter(p, "exited")
  /\ UNCHANGED <<electionVars, requests>>

-----------------------------------------------------------------------------
(* stopFor. *)

\* The recovery scanner, the API, the channels, the orchestrator and its
\* dispatches have all returned.
Drained(p) ==
  /\ In(p, "stopping")
  /\ section.by # p
  /\ Enter(p, "releasing")
  /\ UNCHANGED <<electionVars, requests>>

HandedOff(p) ==
  /\ In(p, "releasing")
  /\ server[p].target # NoProc
  /\ Handoff(p, Term(p), server[p].target)
  /\ Settle(p, FALSE)
  /\ UNCHANGED requests

\* errOwnershipLost: the code still tries to release.
HandoffRefused(p) ==
  /\ In(p, "releasing")
  /\ server[p].target # NoProc
  /\ section = Unlocked
  /\ ~MayHandOff(p, Term(p))
  /\ server' = [server EXCEPT ![p].target = NoProc, ![p].failed = TRUE]
  /\ UNCHANGED <<electionVars, requests>>

ReleasesUndrainedMutant(p) ==
  \/ In(p, "aborting")
  \/ /\ In(p, "releasing") \/ In(p, "stopping")
     /\ server[p].target = NoProc

Releases(p) ==
  \/ In(p, "aborting")
  \/ /\ In(p, "releasing")
     /\ server[p].target = NoProc

BeginRelease(p) ==
  /\ Releases(p)
  /\ ReleaseFence(p, Term(p))
  /\ UNCHANGED <<server, requests>>

FinishRelease(p) ==
  /\ Releases(p)
  /\ ReleaseRemove(p)
  /\ Settle(p, FALSE)
  /\ UNCHANGED requests

\* A successor has the lease, or it is gone: nothing to remove.
NothingToRelease(p) ==
  /\ Releases(p)
  /\ section = Unlocked
  /\ ~Holds(p, Term(p))
  /\ Settle(p, FALSE)
  /\ UNCHANGED <<electionVars, requests>>

ReleaseFailsQuietlyMutant(p) ==
  /\ Releases(p)
  /\ Abandon(p)
  /\ Settle(p, FALSE)
  /\ UNCHANGED requests

\* The fence is written and the removal fails.
ReleaseFails(p) ==
  /\ Releases(p)
  /\ Abandon(p)
  /\ Settle(p, TRUE)
  /\ UNCHANGED requests

Closed(p) ==
  /\ In(p, "closing")
  /\ server' = [server EXCEPT ![p] = After(@.failed)]
  /\ UNCHANGED <<electionVars, requests>>

\* The process dies anywhere, and the kernel drops its lock.
Crash(p) ==
  /\ ~In(p, "exited")
  /\ server' = [server EXCEPT ![p] = After(TRUE)]
  /\ IF section.by = p THEN Abandon(p) ELSE UNCHANGED electionVars
  /\ UNCHANGED requests

-----------------------------------------------------------------------------
(* Fenced work. *)

\* The orchestrator and the recovery scanner call the worker ...
Request(p) ==
  /\ Works(p)
  /\ Cardinality(requests) < MaxRequest
  /\ requests' = requests \cup {<<p, Term(p)>>}
  /\ UNCHANGED <<electionVars, server>>

ServeUnfencedMutant(c, r) ==
  /\ r \in requests
  /\ section = Unlocked
  /\ section' = [kind |-> "owner", by |-> c]
  /\ admitted' = r[2]
  /\ requests' = requests \ {r}
  /\ UNCHANGED <<lease, fence, nextTerm, tokens, server>>

\* ... which applies a request inside the exact term it carries ...
Serve(c, r) ==
  /\ r \in requests
  /\ BeginAdmission(c, r[1], r[2])
  /\ requests' = requests \ {r}
  /\ UNCHANGED server

\* ... and drops one whose term is over, or whose caller has gone.
Drop(r) ==
  /\ r \in requests
  /\ requests' = requests \ {r}
  /\ UNCHANGED <<electionVars, server>>

\* RunWhileOwner and RunOwned inside the server process.
Admit(p) ==
  /\ Works(p)
  /\ BeginAdmission(p, p, Term(p))
  /\ UNCHANGED <<server, requests>>

\* Ownerless cleanup belongs to one-shot commands, which never contend.
Fenced(c) ==
  /\ \/ EndAdmission(c)
     \/ c \in Worker /\ (BeginOwnerless(c) \/ Abandon(c))
     \/ EndOwnerless(c)
  /\ UNCHANGED <<server, requests>>

Clock == Tick /\ UNCHANGED <<server, requests>>

ElectionStep(p) ==
  \/ Attempt(p) \/ SocketRefused(p)
  \/ StartSucceeds(p) \/ StartLosesOwnership(p) \/ StartFails(p)
  \/ RenewTick(p) \/ RenewRefused(p) \/ LoopFails(p)
  \/ \E q \in Proc : HandoffRequested(p, q)
  \/ Shutdown(p)

StopStep(p) ==
  \/ Drained(p)
  \/ HandedOff(p) \/ HandoffRefused(p)
  \/ BeginRelease(p) \/ FinishRelease(p) \/ NothingToRelease(p)
  \/ ReleaseFails(p)
  \/ Closed(p)

ServerNext ==
  \/ \E p \in Proc : ElectionStep(p) \/ StopStep(p) \/ Crash(p)
                     \/ Request(p) \/ Admit(p)
  \/ \E r \in requests : Drop(r) \/ \E c \in Worker : Serve(c, r)
  \/ \E c \in Participant : Fenced(c)
  \/ Clock

ServerSpec == ServerInit /\ [][ServerNext]_serverVars

\* What the scheduler owes.  The clock advances and fenced work ends.  A live
\* process polls, starts up, renews and stops; the lock it needs for that may be
\* taken again and again by others, and the kernel serves whoever waits.
Fairness ==
  /\ WF_serverVars(Clock)
  /\ \A c \in Participant :
       WF_serverVars((EndAdmission(c) \/ EndOwnerless(c))
                     /\ UNCHANGED <<server, requests>>)
  /\ \A p \in Proc :
       /\ SF_serverVars(Attempt(p))
       /\ SF_serverVars(StartSucceeds(p) \/ StartLosesOwnership(p))
       /\ SF_serverVars(RenewTick(p) \/ RenewRefused(p))
       /\ SF_serverVars(StopStep(p))

FairServerSpec == ServerSpec /\ Fairness

-----------------------------------------------------------------------------
(* Properties. *)

\* The lease is reserved for a successor only once every owner-only loop of the
\* term has returned (the order of steps in stopFor; Handoff's comment).
ReservedMeansDrained ==
  Published /\ lease.handoff # NoProc =>
    \A p \in Proc : lease.owner = p /\ lease.term = Term(p) => ~Works(p)

\* A process in the middle of its owner-only work loses the lease in one way
\* only, by letting its heartbeat go stale: neither its own stop nor anything an
\* older owner or another contender does takes a fresh lease from under it.
WorkerLosesOnlyStaleLease ==
  [][ \A p \in Proc :
        /\ Works(p)
        /\ Holds(p, Term(p))
        /\ lease'.term # lease.term
        => Stale ]_serverVars

\* Durable work is admitted in the order of terms: a request sent by an owner
\* that has been superseded is never applied after one of its successor's
\* (RunForOwner against requests that outlive their sender).
AdmissionsFollowTerms == [][admitted' >= admitted]_serverVars

\* A process that polls as a secondary has no lease of its own standing in its
\* way: every way out of a term deals with the lease, or ends the process.
SecondaryOwnsNothing ==
  \A p \in Proc :
    In(p, "secondary") =>
      ~(Published /\ lease.owner = p /\ lease.handoff = NoProc)

\* The server processes use the election as Election allows.
ImplementsElection == Spec

\* An owner that has been replaced notices and stops its owner-only work.
SupersededStops ==
  \A p \in Proc : In(p, "primary") /\ ~Holds(p, Term(p)) ~> ~Works(p)

\* Ownership comes back: after a crash, a failed startup, a lost target or a
\* clean exit, some process runs the workspace again, unless none is left (or
\* the bound on terms is used up).
OwnershipReturns ==
  (\E p \in Proc : ~In(p, "exited")) ~>
    \/ \E p \in Proc : In(p, "primary")
    \/ \A p \in Proc : In(p, "exited")
    \/ nextTerm > MaxTerm
=============================================================================

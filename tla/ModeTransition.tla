--------------------------- MODULE ModeTransition ---------------------------
(***************************************************************************)
(* The trading-mode controller, one-shot transition approvals, and the     *)
(* guarded state machine that moves the trading service between DEMO and   *)
(* LIVE (src/src/gaon/control/trading_mode.py, approval.py, transition.py).*)
(*                                                                         *)
(* execute() works on a copy of the controller's state, step after step;   *)
(* the copy becomes the controller's state when the caller adopts the      *)
(* result.  Every call it makes to the outside (the service manager and    *)
(* the four verifiers) may answer, answer no, or raise.  Verifications are *)
(* recorded, tickets issued and time passes between any two steps.         *)
(***************************************************************************)
EXTENDS Naturals

CONSTANTS
    Tickets,      \* approval ids
    NoTicket,     \* an attempt made without an approval id
    MaxNow,       \* bound of the clock
    Ttl           \* lifetimes a ticket is issued with

ASSUME TicketAssumption == NoTicket \notin Tickets
ASSUME ClockAssumption == MaxNow \in Nat /\ Ttl \subseteq Nat \ {0}

VARIABLES
    ctl,          \* the controller's state: what every consumer reads
    service,      \* the trading service itself: is it up, in which mode
    run,          \* the transition attempt in progress
    issued,       \* the tickets issued so far
    consumed,     \* approval ids already used
    completed,    \* history: attempts to LIVE each ticket completed
    now           \* the clock

vars == <<ctl, service, run, issued, consumed, completed, now>>

-----------------------------------------------------------------------------
Known == {"demo", "live"}
Mode == Known \cup {"unknown"}

\* The steps of execute() that make a call.  (ENTRY_BLOCKED makes none: it is
\* recorded and left in one go.)
Steps == {"requested", "source_verified", "positions_verified", "service_stopped",
          "target_verified", "service_started", "effective_mode_verified"}
TransitionState == Steps \cup {"idle", "complete", "failed_closed"}

ControllerState == [effective: Mode, service: {"running", "stopped", "unknown"},
                    transition: TransitionState, blocked: BOOLEAN,
                    guard: {"ok", "triggered", "unknown"}]

Unknown == [effective |-> "unknown", service |-> "unknown", transition |-> "idle",
            blocked |-> TRUE, guard |-> "unknown"]

IsFailClosed(s) == s.effective = "unknown" \/ s.transition = "failed_closed"

EntryAllowed(s) == ~s.blocked /\ ~IsFailClosed(s) /\ s.guard = "ok"

\* A run is the local state of execute(): its copy of the controller's state,
\* and whether the service has been touched.  `failed' and `up' are history:
\* did the last start() of this attempt raise, and did the attempt find the
\* service running.
Idle == [at |-> "idle", state |-> Unknown, source |-> "unknown", target |-> "demo",
         ticket |-> NoTicket, touched |-> FALSE, failed |-> FALSE, up |-> FALSE]

Runs == [at: {"idle", "done"} \cup Steps, state: ControllerState, source: Mode,
         target: Known, ticket: Tickets \cup {NoTicket}, touched: BOOLEAN,
         failed: BOOLEAN, up: BOOLEAN]

Unissued == [to |-> "none", expires |-> 0]
Ticket == [to: {"none", "live", "other"}, expires: Nat]

TypeOK ==
    /\ ctl \in ControllerState
    /\ service \in [up: BOOLEAN, mode: Known]
    /\ run \in Runs
    /\ issued \in [Tickets -> Ticket]
    /\ consumed \subseteq Tickets
    /\ completed \in [Tickets -> Nat]
    /\ now \in Nat

Init ==
    /\ ctl = Unknown
    /\ service \in [up: {TRUE}, mode: Known]
    /\ run = Idle
    /\ issued = [t \in Tickets |-> Unissued]
    /\ consumed = {}
    /\ completed = [t \in Tickets |-> 0]
    /\ now = 0

-----------------------------------------------------------------------------
(* What the verifiers may observe of the service.                          *)
Observable == {"unknown"} \cup IF service.up THEN {service.mode} ELSE {}

(* issue(): a ticket for DEMO -> LIVE with the LIVE intent, or for any     *)
(* other transition or intent.  Its id is fresh.                           *)
Issue(t, to, ttl) ==
    /\ issued[t] = Unissued
    /\ issued' = [issued EXCEPT ![t] = [to |-> to, expires |-> now + ttl]]
    /\ UNCHANGED <<ctl, service, run, consumed, completed, now>>

\* Mutant: a good observation lifts the block and clears the failure.
VerifyUnblocks(mode, guard) ==
    /\ mode \in Observable
    /\ ctl' = [ctl EXCEPT !.effective = mode, !.guard = guard, !.blocked = FALSE,
                          !.service = IF service.up THEN "running" ELSE "stopped",
                          !.transition = "idle"]
    /\ UNCHANGED <<service, run, issued, consumed, completed, now>>

(* record_verification(): fold an observation into the controller's state. *)
Verify(mode, guard) ==
    /\ mode \in Observable
    /\ ctl' = [ctl EXCEPT !.effective = mode, !.guard = guard,
                          !.service = IF service.up THEN "running" ELSE "stopped"]
    /\ UNCHANGED <<service, run, issued, consumed, completed, now>>

Tick ==
    /\ now < MaxNow
    /\ now' = now + 1
    /\ UNCHANGED <<ctl, service, run, issued, consumed, completed>>

-----------------------------------------------------------------------------
(* The steps of execute().  A step is recorded before its call is made:    *)
(* run.at is the step whose call has not returned yet.                     *)

At(step) == run.at = step

Advance(step) ==
    run' = [run EXCEPT !.at = step, !.state = [@ EXCEPT !.transition = step]]

(* The attempt takes its copy of the controller's state.                   *)
Request(target, t) ==
    /\ At("idle")
    /\ run' = [Idle EXCEPT !.at = "requested", !.target = target, !.ticket = t,
                           !.state = [ctl EXCEPT !.transition = "requested"],
                           !.source = ctl.effective, !.up = service.up]
    /\ UNCHANGED <<ctl, service, issued, consumed, completed, now>>

(* The state a finished attempt returns.                                   *)
Result(transition, effective, blocked) ==
    [run.state EXCEPT !.transition = transition, !.effective = effective,
                      !.blocked = blocked]

(* The FAILED_CLOSED result.  left is the service as the failing call left *)
(* it: if it was touched it is started again, in whatever mode it is       *)
(* configured for, and a start that raises is swallowed.                   *)
FailClosed(effective, left) ==
    /\ \E raises \in BOOLEAN, mode \in Known :
          /\ service' = IF run.touched /\ ~raises
                        THEN [up |-> TRUE, mode |-> mode] ELSE left
          /\ run' = [run EXCEPT !.at = "done",
                                !.state = Result("failed_closed", effective, TRUE),
                                !.failed = run.touched /\ raises]
    /\ UNCHANGED <<ctl, issued, completed, now>>

\* Mutant: the service's state is reported as the mode.
StepFailureMixesUp == FailClosed(IF run.touched THEN "stopped" ELSE run.source, service)

(* A step that answers no keeps the source mode if nothing was touched; a  *)
(* call that raises leaves the mode unknown.                               *)
StepFailure == FailClosed(IF run.touched THEN "unknown" ELSE run.source, service)

Raised(left) == FailClosed("unknown", left)

(* validate_and_consume() with the DEMO -> LIVE transition and intent.     *)
Valid(t) ==
    /\ t \in Tickets
    /\ t \notin consumed
    /\ now <= issued[t].expires
    /\ issued[t].to = "live"

\* Mutant: a ticket is checked and never used up.
ConsumeNothing(t) == UNCHANGED consumed

Consume(t) == consumed' = consumed \cup {t}

Approve ==
    /\ At("requested")
    /\ run.target = "live" => Valid(run.ticket)
    /\ IF run.target = "live" THEN Consume(run.ticket) ELSE UNCHANGED consumed
    /\ run' = [run EXCEPT !.at = "source_verified",
                          !.state = [@ EXCEPT !.transition = "source_verified",
                                              !.blocked = TRUE]]
    /\ UNCHANGED <<ctl, service, issued, completed, now>>

ApproveFails ==
    /\ At("requested")
    /\ run.target = "live" /\ ~Valid(run.ticket)
    /\ StepFailure
    /\ UNCHANGED consumed

VerifySource ==
    /\ At("source_verified")
    /\ run.source \in Observable
    /\ Advance("positions_verified")
    /\ UNCHANGED <<ctl, service, issued, consumed, completed, now>>

\* Mutant: the stop is not remembered as touching the service.
VerifyPositionsUntouched ==
    /\ At("positions_verified")
    /\ Advance("service_stopped")
    /\ UNCHANGED <<ctl, service, issued, consumed, completed, now>>

(* The service counts as touched before stop() is called.                  *)
VerifyPositions ==
    /\ At("positions_verified")
    /\ run' = [run EXCEPT !.at = "service_stopped", !.touched = TRUE,
                          !.state = [@ EXCEPT !.transition = "service_stopped"]]
    /\ UNCHANGED <<ctl, service, issued, consumed, completed, now>>

StopService ==
    /\ At("service_stopped")
    /\ service' = [service EXCEPT !.up = FALSE]
    /\ Advance("target_verified")
    /\ UNCHANGED <<ctl, issued, consumed, completed, now>>

VerifyTarget ==
    /\ At("target_verified")
    /\ Advance("service_started")
    /\ UNCHANGED <<ctl, service, issued, consumed, completed, now>>

StartService ==
    /\ At("service_started")
    /\ \E mode \in Known : service' = [up |-> TRUE, mode |-> mode]
    /\ Advance("effective_mode_verified")
    /\ UNCHANGED <<ctl, issued, consumed, completed, now>>

\* Mutant: the mode after the restart is not verified.
ObservedAnything == TRUE

(* The observed mode must be the target.                                   *)
ObservedIsTarget == run.target \in Observable

Complete ==
    /\ At("effective_mode_verified")
    /\ ObservedIsTarget
    /\ run' = [run EXCEPT !.at = "done",
                          !.state = Result("complete", run.target, FALSE)]
    /\ completed' = [t \in Tickets |->
                        IF run.target = "live" /\ t = run.ticket
                        THEN completed[t] + 1 ELSE completed[t]]
    /\ UNCHANGED <<ctl, service, issued, consumed, now>>

(* The verifier of the current step answers no.                            *)
VerifierSaysNo ==
    /\ \/ At("source_verified") /\ \E seen \in Observable : seen # run.source
       \/ At("positions_verified")
       \/ At("target_verified")
       \/ At("effective_mode_verified") /\ \E seen \in Observable : seen # run.target
    /\ StepFailure
    /\ UNCHANGED consumed

(* The call of the current step raises.  stop() may raise after it stopped *)
(* the service.                                                            *)
CallRaises ==
    /\ run.at \in Steps \ {"requested"}
    /\ \/ Raised(service)
       \/ At("service_stopped") /\ Raised([service EXCEPT !.up = FALSE])
    /\ UNCHANGED consumed

(* The caller takes the returned state as the controller's.                *)
Adopt ==
    /\ At("done")
    /\ ctl' = run.state
    /\ run' = Idle
    /\ UNCHANGED <<service, issued, consumed, completed, now>>

-----------------------------------------------------------------------------
Next ==
    \/ \E t \in Tickets, to \in {"live", "other"}, ttl \in Ttl : Issue(t, to, ttl)
    \/ \E mode \in Mode, guard \in {"ok", "triggered", "unknown"} : Verify(mode, guard)
    \/ Tick
    \/ \E target \in Known, t \in Tickets \cup {NoTicket} : Request(target, t)
    \/ Approve
    \/ ApproveFails
    \/ VerifySource
    \/ VerifyPositions
    \/ StopService
    \/ VerifyTarget
    \/ StartService
    \/ Complete
    \/ VerifierSaysNo
    \/ CallRaises
    \/ Adopt

Spec == Init /\ [][Next]_vars

-----------------------------------------------------------------------------
(* Whenever no attempt is under way and the controller lets entries        *)
(* through, the service is up, in the mode the controller reports          *)
(* (trading_mode.py:8, effective_mode is what has been observed): a failed *)
(* stop, start or verification, with its best-effort restart, never leaves *)
(* entries open over a service that is down or in the other mode.          *)
EntryMatchesService ==
    At("idle") /\ EntryAllowed(ctl) => service.up /\ service.mode = ctl.effective

(* A ticket turns the system LIVE at most once, however often it is        *)
(* presented and however the attempts that presented it ended              *)
(* (approval.py:8, one-shot).                                              *)
OneTicketOneLive ==
    \A t \in Tickets : completed[t] <= 1

(* An attempt that found the service running leaves it down only if the    *)
(* last start() it made raised (transition.py:195, "not left dark").       *)
NotLeftDark ==
    At("done") /\ run.up /\ ~service.up => run.failed

(* A FAILED_CLOSED controller lets entries through again only by adopting  *)
(* a completed transition, never by a verification recorded in between     *)
(* (transition.py:9).                                                      *)
FailedStaysClosed ==
    [][ctl.transition = "failed_closed" /\ EntryAllowed(ctl')
          => run.state.transition = "complete" /\ ctl' = run.state]_vars

-----------------------------------------------------------------------------
(* The inductive invariant behind these properties.                        *)

(* A ticket has been consumed before the attempt that presented it can     *)
(* complete, and one ticket is presented successfully by one attempt only: *)
(* the attempt in progress is the one completion still to come.            *)
Pending(t) == run.at \in Steps \ {"requested"} /\ run.target = "live" /\ run.ticket = t

TicketInv ==
    \A t \in Tickets :
        /\ completed[t] <= 1
        /\ completed[t] = 1 \/ Pending(t) => t \in consumed
        /\ Pending(t) => completed[t] = 0

(* The result that is about to be adopted is as true of the service as the *)
(* controller's state is when no attempt is in progress.                   *)
Matches(s) == EntryAllowed(s) => service.up /\ service.mode = s.effective

GateInv ==
    /\ At("idle") => Matches(ctl)
    /\ At("done") => Matches(run.state)
    /\ At("done") => run.state.transition \in {"complete", "failed_closed"}

(* A service that is down in the middle of an attempt which found it up    *)
(* has been touched by the attempt.                                        *)
AfterStop == {"service_stopped", "target_verified", "service_started",
              "effective_mode_verified"}

DarkInv ==
    /\ run.at \in AfterStop => run.touched
    /\ run.at \in Steps /\ run.up /\ ~service.up => run.touched
    /\ NotLeftDark

ModeInv == TypeOK /\ TicketInv /\ GateInv /\ DarkInv
=============================================================================

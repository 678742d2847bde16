------------------------ MODULE ModeTransitionProofs ------------------------
(***************************************************************************)
(* Proofs about ModeTransition: typing, the one-shot tickets, and the      *)
(* fail-closed controller, for any tickets, lifetimes and clock bound.     *)
(***************************************************************************)
EXTENDS ModeTransition, TLAPS

-----------------------------------------------------------------------------
(* FailClosed is the end of an attempt, whichever step failed.             *)

USE DEF Known, Mode, Steps, TransitionState

LEMMA ResultType ==
    ASSUME run \in Runs, NEW step \in TransitionState, NEW mode \in Mode, NEW b \in BOOLEAN
    PROVE  /\ Result(step, mode, b) \in ControllerState
           /\ Result(step, mode, b).transition = step
           /\ Result(step, mode, b).effective = mode
<1>1. run.state \in ControllerState
      BY DEF Runs
<1>2. QED BY <1>1 DEF Result, ControllerState

LEMMA FailClosedType ==
    ASSUME TypeOK, NEW effective \in Mode, NEW left \in [up: BOOLEAN, mode: Known],
           FailClosed(effective, left)
    PROVE  /\ service' \in [up: BOOLEAN, mode: Known]
           /\ run' \in Runs
           /\ run'.at = "done"
           /\ run'.state.transition = "failed_closed"
           /\ run'.up = run.up
           /\ run'.failed \/ service'.up \/ (~run.touched /\ service' = left)
           /\ UNCHANGED <<ctl, issued, completed, now>>
<1>1. PICK raises \in BOOLEAN, mode \in Known :
          /\ service' = IF run.touched /\ ~raises
                        THEN [up |-> TRUE, mode |-> mode] ELSE left
          /\ run' = [run EXCEPT !.at = "done",
                                !.state = Result("failed_closed", effective, TRUE),
                                !.failed = run.touched /\ raises]
      BY DEF FailClosed
<1>2. service' \in [up: BOOLEAN, mode: Known]
      BY <1>1
<1>3. run \in Runs /\ run.state \in ControllerState
      BY DEF TypeOK, Runs
<1> DEFINE res == Result("failed_closed", effective, TRUE)
           lost == run.touched /\ raises
<1>a. res \in ControllerState /\ res.transition = "failed_closed"
      BY <1>3, ResultType
<1>b. lost \in BOOLEAN
      OBVIOUS
<1>c. run' = [run EXCEPT !.at = "done", !.state = res, !.failed = lost]
      BY <1>1
<1> HIDE DEF res, lost
<1>4. run' \in Runs /\ run'.at = "done" /\ run'.up = run.up
      BY <1>a, <1>b, <1>c, <1>3 DEF Runs
<1>5. run'.state.transition = "failed_closed"
      BY <1>a, <1>c, <1>3 DEF Runs
<1> USE DEF res, lost
<1>6. run'.failed \/ service'.up \/ (~run.touched /\ service' = left)
      BY <1>1, <1>3 DEF Runs
<1>7. QED BY <1>2, <1>4, <1>5, <1>6 DEF FailClosed

(* Every way an attempt can fail is one FailClosed.                        *)
Fails == ApproveFails \/ VerifierSaysNo \/ CallRaises

LEMMA FailsIsFailClosed ==
    ASSUME TypeOK, Fails
    PROVE  /\ run.at \in Steps
           /\ UNCHANGED consumed
           /\ \E effective \in Mode, left \in [up: BOOLEAN, mode: Known] :
                 /\ FailClosed(effective, left)
                 /\ left = service \/ (At("service_stopped") /\ ~left.up)
<1>1. service \in [up: BOOLEAN, mode: Known] /\ run \in Runs
      BY DEF TypeOK
<1> DEFINE e == IF run.touched THEN "unknown" ELSE run.source
           down == [service EXCEPT !.up = FALSE]
<1>2. e \in Mode /\ "unknown" \in Mode
      BY <1>1 DEF Runs
<1>3. down \in [up: BOOLEAN, mode: Known] /\ ~down.up
      BY <1>1
<1>4. CASE ApproveFails
      BY <1>4, <1>1, <1>2 DEF ApproveFails, StepFailure, At
<1>5. CASE VerifierSaysNo
      BY <1>5, <1>1, <1>2 DEF VerifierSaysNo, StepFailure, At
<1>6. CASE CallRaises
      BY <1>6, <1>1, <1>2, <1>3 DEF CallRaises, Raised, At
<1>7. QED BY <1>4, <1>5, <1>6 DEF Fails

-----------------------------------------------------------------------------
LEMMA ModeInitInv == TicketAssumption /\ Init => ModeInv
<1> SUFFICES ASSUME Init PROVE ModeInv
    BY TicketAssumption
<1>1. TypeOK
      BY ClockAssumption DEF Init, TypeOK, Unknown, Idle, Unissued, ControllerState, Runs, Ticket
<1>2. TicketInv
  <2>1. run.at = "idle"
        BY DEF Init, Idle
  <2>2. ASSUME NEW t \in Tickets PROVE completed[t] = 0 /\ ~Pending(t)
    <3>1. completed[t] = 0
          BY DEF Init
    <3>2. "idle" \notin Steps
          OBVIOUS
    <3>3. QED BY <2>1, <3>1, <3>2 DEF Pending
  <2>3. SUFFICES ASSUME NEW t \in Tickets
                 PROVE  /\ completed[t] <= 1
                        /\ completed[t] = 1 \/ Pending(t) => t \in consumed
                        /\ Pending(t) => completed[t] = 0
        BY DEF TicketInv
  <2>4. completed[t] = 0 /\ ~Pending(t)
        BY <2>2
  <2>5. completed[t] <= 1 /\ completed[t] # 1
        BY <2>4
  <2>6. QED BY <2>4, <2>5
<1>3. GateInv
      BY DEF Init, GateInv, Matches, EntryAllowed, IsFailClosed, Unknown, Idle, At
<1>4. DarkInv
  <2>1. run.at = "idle"
        BY DEF Init, Idle
  <2>2. QED BY <2>1 DEF DarkInv, NotLeftDark, At, AfterStop
<1>5. QED BY <1>1, <1>2, <1>3, <1>4 DEF ModeInv

LEMMA TypeStep == TypeOK /\ [Next]_vars => TypeOK'
<1> SUFFICES ASSUME TypeOK, [Next]_vars PROVE TypeOK'
    OBVIOUS
<1>0. /\ ctl \in ControllerState /\ service \in [up: BOOLEAN, mode: Known]
      /\ run \in Runs /\ issued \in [Tickets -> Ticket] /\ consumed \subseteq Tickets
      /\ completed \in [Tickets -> Nat] /\ now \in Nat
      BY DEF TypeOK
<1>00. run.state \in ControllerState
      BY <1>0 DEF Runs
<1>1. CASE \E t \in Tickets, to \in {"live", "other"}, ttl \in Ttl : Issue(t, to, ttl)
  <2>1. PICK t \in Tickets, to \in {"live", "other"}, ttl \in Ttl : Issue(t, to, ttl)
        BY <1>1
  <2>2. [to |-> to, expires |-> now + ttl] \in Ticket
        BY <1>0, ClockAssumption DEF Ticket
  <2>3. issued' \in [Tickets -> Ticket]
        BY <1>0, <2>1, <2>2 DEF Issue
  <2>4. QED BY <1>0, <2>1, <2>3 DEF Issue, TypeOK
<1>2. CASE \E mode \in Mode, guard \in {"ok", "triggered", "unknown"} : Verify(mode, guard)
  <2>1. ctl' \in ControllerState
        BY ZenonT(40), <1>0, <1>2 DEF Verify, ControllerState
  <2>2. QED BY <1>0, <1>2, <2>1 DEF Verify, TypeOK
<1>3. CASE Tick
      BY <1>0, <1>3 DEF Tick, TypeOK
<1>4. CASE \E target \in Known, t \in Tickets \cup {NoTicket} : Request(target, t)
  <2>1. PICK target \in Known, t \in Tickets \cup {NoTicket} : Request(target, t)
        BY <1>4
  <2> DEFINE s == [ctl EXCEPT !.transition = "requested"]
  <2>2. s \in ControllerState
        BY <1>0 DEF ControllerState
  <2>3. Idle \in Runs
        BY DEF Idle, Runs, Unknown, ControllerState
  <2>4. ctl.effective \in Mode /\ service.up \in BOOLEAN
        BY <1>0 DEF ControllerState
  <2>5. run' = [Idle EXCEPT !.at = "requested", !.target = target, !.ticket = t,
                            !.state = s, !.source = ctl.effective, !.up = service.up]
        BY <2>1 DEF Request
  <2> HIDE DEF s
  <2>6. run' \in Runs
        BY <2>2, <2>3, <2>4, <2>5 DEF Runs
  <2>7. QED BY <1>0, <2>1, <2>6 DEF Request, TypeOK
<1>5. CASE Approve
  <2>1. run' \in Runs
        BY <1>0, <1>00, <1>5 DEF Approve, Runs, ControllerState
  <2>2. consumed' \subseteq Tickets
        BY <1>0, <1>5 DEF Approve, Consume, Valid
  <2>3. QED BY <1>0, <1>5, <2>1, <2>2 DEF Approve, TypeOK
<1>6. CASE VerifySource
  <2>1. run' \in Runs
        BY <1>0, <1>00, <1>6 DEF VerifySource, Advance, Runs, ControllerState
  <2>2. QED BY <1>0, <1>6, <2>1 DEF VerifySource, TypeOK
<1>7. CASE VerifyPositions
  <2>1. run' \in Runs
        BY <1>0, <1>00, <1>7 DEF VerifyPositions, Runs, ControllerState
  <2>2. QED BY <1>0, <1>7, <2>1 DEF VerifyPositions, TypeOK
<1>8. CASE StopService
  <2>1. run' \in Runs
        BY <1>0, <1>00, <1>8 DEF StopService, Advance, Runs, ControllerState
  <2>2. QED BY <1>0, <1>8, <2>1 DEF StopService, TypeOK
<1>9. CASE VerifyTarget
  <2>1. run' \in Runs
        BY <1>0, <1>00, <1>9 DEF VerifyTarget, Advance, Runs, ControllerState
  <2>2. QED BY <1>0, <1>9, <2>1 DEF VerifyTarget, TypeOK
<1>10. CASE StartService
  <2>1. run' \in Runs
        BY <1>0, <1>00, <1>10 DEF StartService, Advance, Runs, ControllerState
  <2>2. QED BY <1>0, <1>10, <2>1 DEF StartService, TypeOK
<1>11. CASE Complete
  <2> DEFINE res == Result("complete", run.target, FALSE)
  <2>0. res \in ControllerState
        BY <1>0, ResultType DEF Runs
  <2>1. run' \in Runs
    <3>1. run' = [run EXCEPT !.at = "done", !.state = res]
          BY <1>11 DEF Complete
    <3> HIDE DEF res
    <3>2. QED BY <1>0, <2>0, <3>1 DEF Runs
  <2>2. completed' \in [Tickets -> Nat]
        BY <1>0, <1>11 DEF Complete
  <2>3. QED BY <1>0, <1>11, <2>1, <2>2 DEF Complete, TypeOK
<1>12. CASE Fails
  <2>1. PICK effective \in Mode, left \in [up: BOOLEAN, mode: Known] :
            FailClosed(effective, left)
        BY <1>12, FailsIsFailClosed
  <2>2. UNCHANGED consumed
        BY <1>12, FailsIsFailClosed
  <2>3. /\ service' \in [up: BOOLEAN, mode: Known] /\ run' \in Runs
        /\ UNCHANGED <<ctl, issued, completed, now>>
        BY <2>1, FailClosedType
  <2>4. QED BY <1>0, <2>2, <2>3 DEF TypeOK
<1>13. CASE Adopt
  <2>1. Idle \in Runs
        BY DEF Idle, Runs, Unknown, ControllerState
  <2>2. QED BY <1>0, <1>00, <1>13, <2>1 DEF Adopt, TypeOK
<1>14. CASE UNCHANGED vars
      BY <1>0, <1>14 DEF vars, TypeOK
<1>15. QED
      BY <1>1, <1>2, <1>3, <1>4, <1>5, <1>6, <1>7, <1>8, <1>9, <1>10, <1>11, <1>12,
         <1>13, <1>14 DEF Next, Fails

LEMMA TicketStep == TypeOK /\ TicketInv /\ [Next]_vars => TicketInv'
<1> SUFFICES ASSUME TypeOK, TicketInv, [Next]_vars, NEW t \in Tickets
             PROVE  /\ completed'[t] <= 1
                    /\ completed'[t] = 1 \/ Pending(t)' => t \in consumed'
                    /\ Pending(t)' => completed'[t] = 0
    BY DEF TicketInv
<1>0. /\ completed \in [Tickets -> Nat] /\ run \in Runs
      /\ completed[t] <= 1
      /\ completed[t] = 1 \/ Pending(t) => t \in consumed
      /\ Pending(t) => completed[t] = 0
      BY DEF TypeOK, TicketInv
<1>1. CASE /\ run' = run /\ completed' = completed /\ consumed' = consumed
      BY <1>0, <1>1 DEF Pending
<1>2. CASE \E target \in Known, u \in Tickets \cup {NoTicket} : Request(target, u)
      BY <1>0, <1>2 DEF Request, Pending, Idle
<1>3. CASE Approve
  <2>1. run'.target = run.target /\ run'.ticket = run.ticket
        BY <1>0, <1>3 DEF Approve, Runs
  <2>2. CASE run.target = "live" /\ run.ticket = t
    <3>1. t \notin consumed /\ t \in consumed'
          BY <1>3, <2>2 DEF Approve, Valid, Consume
    <3>2. completed[t] = 0
          BY <1>0, <3>1
    <3>3. QED BY <3>1, <3>2, <1>3 DEF Approve
  <2>3. CASE ~(run.target = "live" /\ run.ticket = t)
    <3>1. ~Pending(t)'
          BY <2>1, <2>3 DEF Pending
    <3>2. consumed \subseteq consumed' /\ completed' = completed
          BY <1>3 DEF Approve, Consume
    <3>3. QED BY <1>0, <3>1, <3>2
  <2>4. QED BY <2>2, <2>3
<1>4. CASE VerifySource \/ VerifyPositions \/ StopService \/ VerifyTarget \/ StartService
  <2>1. run'.target = run.target /\ run'.ticket = run.ticket /\ run.at \in Steps \ {"requested"}
        BY <1>0, <1>4 DEF VerifySource, VerifyPositions, StopService, VerifyTarget,
                          StartService, Advance, Runs, At
  <2>2. UNCHANGED <<consumed, completed>>
        BY <1>4 DEF VerifySource, VerifyPositions, StopService, VerifyTarget, StartService
  <2>3. Pending(t)' => Pending(t)
        BY <2>1 DEF Pending
  <2>4. QED BY <1>0, <2>2, <2>3
<1>5. CASE Complete
  <2>1. ~Pending(t)'
        BY <1>0, <1>5 DEF Complete, Pending, Runs
  <2>2. consumed' = consumed
        BY <1>5 DEF Complete
  <2>3. completed'[t] = IF run.target = "live" /\ t = run.ticket
                        THEN completed[t] + 1 ELSE completed[t]
        BY <1>0, <1>5 DEF Complete
  <2>4. run.target = "live" /\ t = run.ticket => Pending(t)
        BY <1>5 DEF Complete, At, Pending
  <2>5. QED BY <1>0, <2>1, <2>2, <2>3, <2>4
<1>6. CASE Fails
  <2>1. PICK effective \in Mode, left \in [up: BOOLEAN, mode: Known] :
            FailClosed(effective, left)
        BY <1>6, FailsIsFailClosed
  <2>2. run'.at = "done" /\ completed' = completed
        BY <2>1, FailClosedType
  <2>3. consumed' = consumed
        BY <1>6, FailsIsFailClosed
  <2>4. QED BY <1>0, <2>2, <2>3 DEF Pending
<1>7. CASE Adopt
      BY <1>0, <1>7 DEF Adopt, Pending, Idle
<1>8. QED
      BY <1>1, <1>2, <1>3, <1>4, <1>5, <1>6, <1>7
      DEF Next, Fails, vars, Issue, Verify, Tick

LEMMA GateStep == TypeOK /\ GateInv /\ [Next]_vars => GateInv'
<1> SUFFICES ASSUME TypeOK, GateInv, [Next]_vars PROVE GateInv'
    OBVIOUS
<1> USE DEF At
<1>0. run \in Runs /\ ctl \in ControllerState /\ service \in [up: BOOLEAN, mode: Known]
      BY DEF TypeOK
<1>00. run.state \in ControllerState
      BY <1>0 DEF Runs
<1>1. CASE UNCHANGED <<ctl, service, run>>
      BY <1>1 DEF GateInv, Matches
<1>2. CASE \E mode \in Mode, guard \in {"ok", "triggered", "unknown"} : Verify(mode, guard)
  <2>1. PICK mode \in Mode, guard \in {"ok", "triggered", "unknown"} : Verify(mode, guard)
        BY <1>2
  <2>2. ctl'.effective = mode
        BY <1>0, <2>1 DEF Verify, ControllerState
  <2>3. mode = "unknown" \/ (service.up /\ mode = service.mode)
        BY <2>1 DEF Verify, Observable
  <2>4. UNCHANGED <<service, run>>
        BY <2>1 DEF Verify
  <2>5. Matches(ctl)'
        BY <2>2, <2>3, <2>4 DEF Matches, EntryAllowed, IsFailClosed
  <2>6. QED BY <2>4, <2>5 DEF GateInv, Matches
<1>3. CASE \E target \in Known, u \in Tickets \cup {NoTicket} : Request(target, u)
      BY <1>0, <1>3 DEF Request, GateInv, Idle
<1>4. CASE Approve \/ VerifySource \/ VerifyPositions \/ StopService \/ VerifyTarget
           \/ StartService
  <2>1. run'.at \in Steps
        BY <1>0, <1>4 DEF Approve, VerifySource, VerifyPositions, StopService, VerifyTarget,
                          StartService, Advance, Runs
  <2>2. QED BY <2>1 DEF GateInv
<1>5. CASE Complete
  <2>1. /\ run'.at = "done" /\ run'.state.transition = "complete"
        /\ run'.state.effective = run.target
    <3> DEFINE res == Result("complete", run.target, FALSE)
    <3>0. run.target \in Mode /\ FALSE \in BOOLEAN /\ "complete" \in TransitionState
          BY <1>0 DEF Runs
    <3>1. res.transition = "complete" /\ res.effective = run.target
          BY <1>0, <1>00, <3>0 DEF Result, ControllerState
    <3>2. run' = [run EXCEPT !.at = "done", !.state = res]
          BY <1>5 DEF Complete
    <3> HIDE DEF res
    <3>3. QED BY <1>0, <3>1, <3>2 DEF Runs
  <2>2. run.target \in Known /\ run.target \in Observable
        BY <1>0, <1>5 DEF Complete, ObservedIsTarget, Runs
  <2>3. service.up /\ service.mode = run.target /\ service' = service
        BY <2>2, <1>5 DEF Observable, Complete
  <2>4. QED BY <2>1, <2>3 DEF GateInv, Matches
<1>6. CASE Fails
  <2>1. PICK effective \in Mode, left \in [up: BOOLEAN, mode: Known] :
            FailClosed(effective, left)
        BY <1>6, FailsIsFailClosed
  <2>2. run'.at = "done" /\ run'.state.transition = "failed_closed"
        BY <2>1, FailClosedType
  <2>3. ~EntryAllowed(run'.state)
        BY <2>2 DEF EntryAllowed, IsFailClosed
  <2>4. QED BY <2>2, <2>3 DEF GateInv, Matches
<1>7. CASE Adopt
      BY <1>7 DEF Adopt, GateInv, Matches, Idle
<1>8. QED
      BY <1>1, <1>2, <1>3, <1>4, <1>5, <1>6, <1>7 DEF Next, Fails, vars, Issue, Tick

LEMMA DarkStep == TypeOK /\ DarkInv /\ [Next]_vars => DarkInv'
<1> SUFFICES ASSUME TypeOK, DarkInv, [Next]_vars PROVE DarkInv'
    OBVIOUS
<1> USE DEF At
<1>0. run \in Runs /\ service \in [up: BOOLEAN, mode: Known]
      BY DEF TypeOK
<1>1. CASE UNCHANGED <<service, run>>
      BY <1>1 DEF DarkInv, NotLeftDark
<1>2. CASE \E target \in Known, u \in Tickets \cup {NoTicket} : Request(target, u)
  <2>1. run'.at = "requested" /\ run'.up = service.up /\ service' = service
        BY <1>2 DEF Request, Idle
  <2>2. QED BY <2>1 DEF DarkInv, NotLeftDark, AfterStop
<1>3. CASE Approve \/ VerifySource
  <2>1. /\ run'.at \in Steps \ AfterStop
        /\ run'.touched = run.touched /\ run'.up = run.up
        /\ run.at \in Steps /\ service' = service
        BY <1>0, <1>3 DEF Approve, VerifySource, Advance, Runs, AfterStop
  <2>2. QED BY <2>1 DEF DarkInv, NotLeftDark
<1>4. CASE VerifyPositions
  <2>1. run'.at \in Steps /\ run'.touched
        BY <1>0, <1>4 DEF VerifyPositions, Runs
  <2>2. QED BY <2>1 DEF DarkInv, NotLeftDark
<1>5. CASE StopService \/ VerifyTarget \/ StartService
  <2>1. run.at \in AfterStop /\ run'.at \in Steps /\ run'.touched = run.touched
        BY <1>0, <1>5 DEF StopService, VerifyTarget, StartService, Advance, Runs, AfterStop
  <2>2. run'.touched
        BY <2>1 DEF DarkInv
  <2>3. QED BY <2>1, <2>2 DEF DarkInv, NotLeftDark
<1>6. CASE Complete
  <2>1. run'.at = "done" /\ service' = service
        BY <1>0, <1>6 DEF Complete, Runs
  <2>2. run.target \in Known /\ run.target \in Observable
        BY <1>0, <1>6 DEF Complete, ObservedIsTarget, Runs
  <2>3. service.up
        BY <2>2 DEF Observable
  <2>4. QED BY <2>1, <2>3 DEF DarkInv, NotLeftDark, AfterStop
<1>7. CASE Fails
  <2>1. PICK effective \in Mode, left \in [up: BOOLEAN, mode: Known] :
            /\ FailClosed(effective, left)
            /\ left = service \/ (At("service_stopped") /\ ~left.up)
        BY <1>7, FailsIsFailClosed
  <2>2. /\ run'.at = "done" /\ run'.up = run.up
        /\ run'.failed \/ service'.up \/ (~run.touched /\ service' = left)
        BY <2>1, FailClosedType
  <2>3. run.at \in Steps
        BY <1>7, FailsIsFailClosed
  <2>4. ~run.touched => left = service
        BY <2>1 DEF DarkInv, AfterStop
  <2>5. run.up /\ ~service'.up => run'.failed
        BY <2>2, <2>3, <2>4 DEF DarkInv
  <2>6. QED BY <2>2, <2>5 DEF DarkInv, NotLeftDark, AfterStop
<1>8. CASE Adopt
      BY <1>8 DEF Adopt, DarkInv, NotLeftDark, Idle, AfterStop
<1>9. CASE \E mode \in Mode, guard \in {"ok", "triggered", "unknown"} : Verify(mode, guard)
      BY <1>1, <1>9 DEF Verify
<1>10. QED
      BY <1>1, <1>2, <1>3, <1>4, <1>5, <1>6, <1>7, <1>8, <1>9
      DEF Next, Fails, vars, Issue, Tick

(* Behind the tickets, the gate and the service there is one invariant:    *)
(* whichever call refuses or raises, a ticket in use has completed nothing *)
(* yet, a result about to be adopted is true of the service, and a service *)
(* that is down was touched by the attempt (transition.py:149-215).        *)
THEOREM ModeInvariant == Spec => []ModeInv
<1>1. Init => ModeInv
      BY ModeInitInv, TicketAssumption
<1>2. ModeInv /\ [Next]_vars => ModeInv'
      BY TypeStep, TicketStep, GateStep, DarkStep DEF ModeInv
<1>3. QED BY <1>1, <1>2, PTL DEF Spec

-----------------------------------------------------------------------------
(* Typing.                                                                 *)
THEOREM ModeTyping == Spec => []TypeOK
<1>1. ModeInv => TypeOK
      BY DEF ModeInv
<1>2. QED BY <1>1, ModeInvariant, PTL

(* Entries are open only over a running service in the reported mode       *)
(* (trading_mode.py:8).                                                    *)
THEOREM EntriesMatch == Spec => []EntryMatchesService
<1>1. ModeInv => EntryMatchesService
      BY DEF ModeInv, GateInv, Matches, EntryMatchesService
<1>2. QED BY <1>1, ModeInvariant, PTL

(* An approval is a one-shot ticket (approval.py:8).                       *)
THEOREM OneShot == Spec => []OneTicketOneLive
<1>1. ModeInv => OneTicketOneLive
      BY DEF ModeInv, TicketInv, OneTicketOneLive
<1>2. QED BY <1>1, ModeInvariant, PTL

(* A failed attempt leaves the box dark only if the restart itself raised  *)
(* (transition.py:195).                                                    *)
THEOREM BroughtBackUp == Spec => []NotLeftDark
<1>1. ModeInv => NotLeftDark
      BY DEF ModeInv, DarkInv
<1>2. QED BY <1>1, ModeInvariant, PTL

(* FAILED_CLOSED ends with a completed transition and with nothing else    *)
(* (transition.py:9).                                                      *)
THEOREM FailedClosedSticks == Spec => FailedStaysClosed
<1>1. ModeInv /\ [Next]_vars =>
        [ctl.transition = "failed_closed" /\ EntryAllowed(ctl')
           => run.state.transition = "complete" /\ ctl' = run.state]_vars
  <2> SUFFICES ASSUME ModeInv, [Next]_vars,
                      ctl.transition = "failed_closed", EntryAllowed(ctl')
               PROVE  run.state.transition = "complete" /\ ctl' = run.state
      OBVIOUS
  <2>0. ctl \in ControllerState /\ run \in Runs
        BY DEF ModeInv, TypeOK
  <2>1. ctl'.transition # "failed_closed"
        BY DEF EntryAllowed, IsFailClosed
  <2>2. ctl' # ctl
        BY <2>1
  <2>3. ASSUME NEW mode \in Mode, NEW guard \in {"ok", "triggered", "unknown"},
               Verify(mode, guard)
        PROVE  FALSE
        BY <2>0, <2>1, <2>3 DEF Verify, ControllerState
  <2>4. Fails => ctl' = ctl
    <3> SUFFICES ASSUME Fails PROVE ctl' = ctl
        OBVIOUS
    <3>1. PICK effective \in Mode, left \in [up: BOOLEAN, mode: Known] :
              FailClosed(effective, left)
          BY FailsIsFailClosed DEF ModeInv
    <3>2. QED BY <3>1 DEF FailClosed
  <2>5. Adopt
        BY <2>2, <2>3, <2>4
        DEF Next, Fails, vars, Issue, Tick, Request, Approve, VerifySource, VerifyPositions,
            StopService, VerifyTarget, StartService, Complete
  <2>6. QED BY <2>1, <2>5 DEF Adopt, ModeInv, GateInv, At
<1>2. QED BY <1>1, ModeInvariant, PTL DEF Spec, FailedStaysClosed
=============================================================================

------------------------ MODULE PaneBindingProofs -------------------------
(***************************************************************************)
(* Proofs about PaneBinding: types, and that between passes the binding,   *)
(* the card, the route and the watcher are of one session.  The inductive  *)
(* invariant says what they are at every step within a pass; OneWatcher    *)
(* follows from it, because a watcher is started in one place only.        *)
(***************************************************************************)
EXTENDS PaneBinding, TLAPS

\* Where no pass is under way.
Resting ==
    /\ plan = None
    /\ route = bound /\ watcher \in {bound, None}

\* An unbind, or the first half of a rebind: the old session loses its watcher,
\* then its route, and keeps its card.
Unbinding ==
    /\ bound # None
    /\ plan \in Sessions \cup {None}
    /\ step = "unbinding" => route = bound /\ watcher \in {bound, None}
    /\ step = "stopping" => route = bound /\ watcher = None
    /\ step \in {"unrouting", "unbound"} => route = None /\ watcher = None

\* A bind, or the second half of a rebind: the planned session has its card, and
\* gets its watcher and then its route.
Binding ==
    /\ bound = None /\ route = None
    /\ plan \in Adopted
    /\ watcher = IF step = "routing" THEN plan ELSE None

\* The session the card belongs to at each step.
CardOwner == IF step \in {"seeding", "starting", "routing"} THEN plan ELSE bound

Stages ==
    /\ step = "rest" => Resting
    /\ step \in {"unbinding", "stopping", "unrouting", "unbound"} => Unbinding
    /\ step \in {"seeding", "starting", "routing"} => Binding
    /\ card.of = CardOwner
    /\ card.of = None => card = NoCard

\* Only a request of a session of its own, and a refusal against a bound one,
\* is under way.
Refusing == \A s \in Sessions : writer[s] = "refused" => against[s] \in Sessions

IInv == TypeOK /\ Stages /\ Refusing

Steps == {"rest", "unbinding", "stopping", "unrouting", "unbound",
          "seeding", "starting", "routing"}

-----------------------------------------------------------------------------
\* The invariant holds before the first report.
LEMMA InitIInv == Init => IInv
  BY BindingAssumption DEF Init, IInv, TypeOK, Stages, Refusing, Resting, Unbinding,
     Binding, CardOwner, NoCard, NoRefusal

\* Every step keeps the types.
LEMMA StepType == TypeOK /\ Refusing /\ [Next]_vars => TypeOK'
<1> SUFFICES ASSUME TypeOK, Refusing, [Next]_vars
             PROVE  TypeOK'
  OBVIOUS
<1> USE BindingAssumption DEF TypeOK
<1> DEFINE Session == Sessions \cup {None}
<1>1. ASSUME NEW x \in Sessions \cup {"bare", "gone"}, HerdrReports(x) PROVE TypeOK'
  BY <1>1 DEF HerdrReports, loop, binding, requests
<1>2. CASE Exit
  BY <1>2 DEF Exit, NoCard
<1>3. CASE Restart
  BY <1>3 DEF Restart, loop, binding, requests
<1>4. CASE Pass
  <2>1. CASE SeesUnbind
    BY <2>1 DEF SeesUnbind, At, herdr, binding, requests
  <2>2. CASE SeesRebind
    BY <2>2 DEF SeesRebind, At, herdr, binding, requests
  <2>3. CASE SeesBind
    BY <2>3 DEF SeesBind, At, herdr, requests
  <2>4. CASE StopWatcher
    BY <2>4 DEF StopWatcher, At, herdr, requests
  <2>5. CASE RemoveRoute
    BY <2>5 DEF RemoveRoute, At, herdr, requests
  <2>6. CASE RemoveRefusal
    BY <2>6 DEF RemoveRefusal, At, herdr, binding, requests, NoRefusal
  <2>7. CASE ForgetPane
    BY <2>7 DEF ForgetPane, At, herdr, requests, NoCard
  <2>8. CASE ReplaceSession
    BY <2>8 DEF ReplaceSession, At, herdr, requests, Fresh
  <2>9. CASE Seed
    BY <2>9 DEF Seed, At, herdr, binding, requests
  <2>10. CASE StartWatcher
    BY <2>10 DEF StartWatcher, At, herdr, requests
  <2>11. CASE BindRoute
    BY <2>11 DEF BindRoute, At, herdr, requests
  <2> QED
    BY <1>4, <2>1, <2>2, <2>3, <2>4, <2>5, <2>6, <2>7, <2>8, <2>9, <2>10, <2>11
       DEF Pass
<1>5. CASE UnbindFails
  BY <1>5 DEF UnbindFails, At, herdr, requests
<1>6. CASE BindFails
  BY <1>6 DEF BindFails, herdr, requests, NoCard, NoRefusal
<1>7. CASE ReadStatus
  BY <1>7 DEF ReadStatus, herdr, loop, binding, requests
<1>8. CASE Record
  BY <1>8 DEF Record, herdr, loop, requests, NoCard
<1>9. ASSUME NEW s \in Sessions, Request(s) PROVE TypeOK'
  <2>1. CASE Ask(s)
    BY <2>1 DEF Ask, herdr, loop, binding
  <2>2. CASE Refuse(s)
    BY <2>2 DEF Refuse, Refusing, herdr, loop, binding
  <2>3. CASE LookUp(s)
    BY <2>3 DEF LookUp, herdr, loop, binding
  <2>4. CASE Grant(s)
    BY <2>4 DEF Grant, herdr, loop, binding, NoRefusal
  <2>5. CASE WriteStatus(s)
    BY <2>5 DEF WriteStatus, herdr, loop, binding
  <2> QED
    BY <1>9, <2>1, <2>2, <2>3, <2>4, <2>5 DEF Request
<1>10. CASE UNCHANGED vars
  BY <1>10 DEF vars, herdr, loop, binding, requests
<1> QED
  BY <1>1, <1>2, <1>3, <1>4, <1>5, <1>6, <1>7, <1>8, <1>9, <1>10 DEF Next, Failure

\* Every step keeps what is refused a session.
LEMMA StepRefusing == TypeOK /\ Refusing /\ [Next]_vars => Refusing'
<1> SUFFICES ASSUME TypeOK, Refusing, [Next]_vars,
                    NEW r \in Sessions, writer'[r] = "refused"
             PROVE  against'[r] \in Sessions
  BY DEF Refusing
<1>1. CASE Exit
  BY <1>1 DEF Exit, TypeOK
<1>2. ASSUME NEW s \in Sessions, Request(s) PROVE against'[r] \in Sessions
  <2>1. CASE Ask(s)
    BY <2>1, BindingAssumption DEF Ask, TypeOK, Refusing
  <2>2. CASE Refuse(s)
    BY <2>2 DEF Refuse, TypeOK, Refusing
  <2>3. CASE LookUp(s) \/ Grant(s) \/ WriteStatus(s)
    BY <2>3 DEF LookUp, Grant, WriteStatus, TypeOK, Refusing
  <2> QED
    BY <1>2, <2>1, <2>2, <2>3 DEF Request
<1>3. CASE UNCHANGED requests
  BY <1>3 DEF requests, Refusing
<1>4. ASSUME NEW x \in Sessions \cup {"bare", "gone"}, HerdrReports(x) PROVE UNCHANGED requests
  BY <1>4 DEF HerdrReports
<1>5. Restart \/ Pass \/ Failure \/ ReadStatus \/ Record => UNCHANGED requests
  BY DEF Restart, Pass, Failure, ReadStatus, Record, SeesUnbind, SeesRebind, SeesBind,
     StopWatcher, RemoveRoute, RemoveRefusal, ForgetPane, ReplaceSession, Seed,
     StartWatcher, BindRoute, UnbindFails, BindFails
<1>6. CASE UNCHANGED vars
  BY <1>6, <1>3 DEF vars
<1> QED
  BY <1>1, <1>2, <1>3, <1>4, <1>5, <1>6 DEF Next

\* Every step keeps each stage of a pass what it should be.
LEMMA StepStages == TypeOK /\ Stages /\ [Next]_vars => Stages'
<1> SUFFICES ASSUME TypeOK, Stages, [Next]_vars
             PROVE  Stages'
  OBVIOUS
<1> USE BindingAssumption DEF TypeOK, Stages, Resting, Unbinding, Binding, CardOwner, NoCard
<1>1. ASSUME NEW x \in Sessions \cup {"bare", "gone"}, HerdrReports(x) PROVE Stages'
  BY <1>1 DEF HerdrReports, loop, binding
<1>2. CASE Exit
  BY <1>2 DEF Exit
<1>3. CASE Restart
  BY <1>3 DEF Restart, loop, binding
<1>4. CASE Pass
  <2>1. CASE SeesUnbind
    BY <2>1 DEF SeesUnbind, At, binding
  <2>2. CASE SeesRebind
    BY <2>2 DEF SeesRebind, At, binding
  <2>3. CASE SeesBind
    BY <2>3 DEF SeesBind, At
  <2>4. CASE StopWatcher
    BY <2>4 DEF StopWatcher, At
  <2>5. CASE RemoveRoute
    BY <2>5 DEF RemoveRoute, At
  <2>6. CASE RemoveRefusal
    BY <2>6 DEF RemoveRefusal, At, binding
  <2>7. CASE ForgetPane
    BY <2>7 DEF ForgetPane, At
  <2>8. CASE ReplaceSession
    BY <2>8 DEF ReplaceSession, At, Fresh
  <2>9. CASE Seed
    BY <2>9 DEF Seed, At, binding
  <2>10. CASE StartWatcher
    BY <2>10 DEF StartWatcher, At
  <2>11. CASE BindRoute
    BY <2>11 DEF BindRoute, At
  <2> QED
    BY <1>4, <2>1, <2>2, <2>3, <2>4, <2>5, <2>6, <2>7, <2>8, <2>9, <2>10, <2>11
       DEF Pass
<1>5. CASE UnbindFails
  BY <1>5 DEF UnbindFails, At
<1>6. CASE BindFails
  BY <1>6 DEF BindFails
<1>7. CASE ReadStatus
  BY <1>7 DEF ReadStatus, loop, binding
<1>8. CASE Record
  BY <1>8 DEF Record, loop
<1>9. ASSUME NEW s \in Sessions, Request(s) PROVE Stages'
  BY <1>9 DEF Request, Ask, Refuse, LookUp, Grant, WriteStatus, loop, binding
<1>10. CASE UNCHANGED vars
  BY <1>10 DEF vars, loop, binding
<1> QED
  BY <1>1, <1>2, <1>3, <1>4, <1>5, <1>6, <1>7, <1>8, <1>9, <1>10 DEF Next, Failure

\* The invariant of the reconcile loop (daemon/run.rs) holds in every state.
THEOREM Invariance == Spec => []IInv
<1>1. Init => IInv
  BY InitIInv
<1>2. IInv /\ [Next]_vars => IInv'
  BY StepType, StepRefusing, StepStages DEF IInv
<1> QED
  BY <1>1, <1>2, PTL DEF Spec

-----------------------------------------------------------------------------
\* Every reachable state of a pane has its type.
THEOREM TypeCorrect == Spec => []TypeOK
<1>1. IInv => TypeOK
  BY DEF IInv
<1> QED
  BY <1>1, Invariance, PTL

\* Between passes of the loop the binding, the card, the route and the watcher
\* are those of one session, whatever failed or came late (daemon/run.rs).
THEOREM PaneIsWhole == Spec => []RestIsWhole
<1>1. IInv => RestIsWhole
  BY DEF IInv, Stages, Resting, CardOwner, RestIsWhole
<1> QED
  BY <1>1, Invariance, PTL

\* A rebind never leaves two watchers on one pane (daemon/run.rs, rebind).
THEOREM NoSecondWatcher == Spec => OneWatcher
<1>1. IInv /\ [Next]_vars
        => [watcher' \notin {watcher, None} => watcher = None /\ route = None]_vars
  <2> SUFFICES ASSUME IInv, [Next]_vars, watcher' \notin {watcher, None}
               PROVE  watcher = None /\ route = None
    OBVIOUS
  <2>1. CASE StartWatcher
    BY <2>1 DEF StartWatcher, At, IInv, Stages, Binding
  <2>2. [Next]_vars => StartWatcher \/ watcher' \in {watcher, None}
    BY DEF Next, vars, herdr, loop, binding, requests, Pass, Failure, Request,
       HerdrReports, Exit, Restart, SeesUnbind, SeesRebind, SeesBind, StopWatcher,
       RemoveRoute, RemoveRefusal, ForgetPane, ReplaceSession, Seed, BindRoute,
       UnbindFails, BindFails, ReadStatus, Record, Ask, Refuse, LookUp, Grant,
       WriteStatus
  <2> QED
    BY <2>1, <2>2
<1> QED
  BY <1>1, Invariance, PTL DEF Spec, OneWatcher
=============================================================================

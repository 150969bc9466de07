---------------------------- MODULE ServerProofs ----------------------------
(***************************************************************************)
(* Theorems about Server for every set of goroutines that call Run, every  *)
(* set of routes and requests, and every set of shutdown timeouts.         *)
(***************************************************************************)
EXTENDS Server, TLAPS

\* Every action keeps the types.
LEMMA TypeStep == TypeOK /\ [Next]_vars => TypeOK'
<1> SUFFICES ASSUME TypeOK, [Next]_vars PROVE TypeOK'
  OBVIOUS
<1> USE DEF TypeOK,
            apiVars, runVars, timeVars, chanVars, serveVars, stopVars
<1>1. ASSUME NEW p \in Patterns, Handle(p) PROVE TypeOK'
  BY <1>1 DEF Handle
<1>2. ASSUME NEW d \in Timeouts \cup {0}, UpdateShutdownTimeout(d)
      PROVE  TypeOK'
  BY <1>2, TimeoutsAssumption DEF UpdateShutdownTimeout
<1>3. CASE Cancel
  BY <1>3 DEF Cancel
<1>4. CASE Tick
  BY <1>4 DEF Tick
<1>5. ASSUME NEW c \in Callers, RunAgain(c) PROVE TypeOK'
  BY <1>5 DEF RunAgain
<1>6. ASSUME NEW c \in Callers, ListenFails(c) PROVE TypeOK'
  BY <1>6 DEF ListenFails
<1>7. ASSUME NEW c \in Callers, Listen(c) PROVE TypeOK'
  BY <1>7 DEF Listen
<1>8. ASSUME NEW c \in Callers, CtxDone(c) PROVE TypeOK'
  BY <1>8, TimeoutsAssumption DEF CtxDone
<1>9. ASSUME NEW c \in Callers, ServeEnds(c) PROVE TypeOK'
  BY <1>9 DEF ServeEnds, Return
<1>10. ASSUME NEW c \in Callers, ShutdownDone(c) PROVE TypeOK'
  BY <1>10 DEF ShutdownDone
<1>11. ASSUME NEW c \in Callers, DeadlinePasses(c) PROVE TypeOK'
  BY <1>11 DEF DeadlinePasses
<1>12. ASSUME NEW c \in Callers, ServeDrained(c) PROVE TypeOK'
  BY <1>12 DEF ServeDrained, Return, ShutdownResult
<1>13. ASSUME NEW c \in Callers, DrainEnds(c) PROVE TypeOK'
  BY <1>13 DEF DrainEnds, Return, ShutdownResult
<1>14. CASE ServeStarts
  BY <1>14 DEF ServeStarts
<1>15. CASE AcceptFails
  BY <1>15 DEF AcceptFails
<1>16. ASSUME NEW q \in Requests, Accept(q) PROVE TypeOK'
  BY <1>16 DEF Accept
<1>17. ASSUME NEW q \in Requests, RequestDone(q) PROVE TypeOK'
  BY <1>17 DEF RequestDone
<1>18. CASE ShutdownCloses
  BY <1>18 DEF ShutdownCloses
<1>19. CASE ShutdownWaits
  BY <1>19 DEF ShutdownWaits
<1>20. CASE ShutdownReturns
  BY <1>20 DEF ShutdownReturns
<1>21. CASE CloseStarts
  BY <1>21 DEF CloseStarts
<1>22. CASE CloseEnds
  BY <1>22 DEF CloseEnds
<1>23. CASE UNCHANGED vars
  BY <1>23 DEF vars
<1> QED
  BY <1>1, <1>2, <1>3, <1>4, <1>5, <1>6, <1>7, <1>8, <1>9, <1>10, <1>11, <1>12,
     <1>13, <1>14, <1>15, <1>16, <1>17, <1>18, <1>19, <1>20, <1>21, <1>22,
     <1>23
  DEF Next, Run, GracefulShutdown, NetHTTP

\* Run gets past its guard while no other call has.
LEMMA OneRunStep ==
  TypeOK /\ OneRun /\ PhaseInv /\ [Next]_vars => OneRun'
<1> SUFFICES ASSUME TypeOK, OneRun, PhaseInv, [Next]_vars
    PROVE  OneRun'
  OBVIOUS
<1> USE DEF OneRun, PhaseInv, TypeOK,
            apiVars, runVars, timeVars, chanVars, serveVars, stopVars
<1>1. ASSUME NEW p \in Patterns, Handle(p) PROVE OneRun'
  BY <1>1 DEF Handle
<1>2. ASSUME NEW d \in Timeouts \cup {0}, UpdateShutdownTimeout(d)
      PROVE  OneRun'
  BY <1>2 DEF UpdateShutdownTimeout
<1>3. CASE Cancel
  BY <1>3 DEF Cancel
<1>4. CASE Tick
  BY <1>4 DEF Tick
<1>5. ASSUME NEW c \in Callers, RunAgain(c) PROVE OneRun'
  BY <1>5 DEF RunAgain
<1>6. ASSUME NEW c \in Callers, ListenFails(c) PROVE OneRun'
  BY <1>6 DEF ListenFails
<1>7. ASSUME NEW c \in Callers, Listen(c) PROVE OneRun'
  BY <1>7 DEF Listen
<1>8. ASSUME NEW c \in Callers, CtxDone(c) PROVE OneRun'
  BY <1>8 DEF CtxDone
<1>9. ASSUME NEW c \in Callers, ServeEnds(c) PROVE OneRun'
  BY <1>9 DEF ServeEnds, Return
<1>10. ASSUME NEW c \in Callers, ShutdownDone(c) PROVE OneRun'
  BY <1>10 DEF ShutdownDone
<1>11. ASSUME NEW c \in Callers, DeadlinePasses(c) PROVE OneRun'
  BY <1>11 DEF DeadlinePasses
<1>12. ASSUME NEW c \in Callers, ServeDrained(c) PROVE OneRun'
  BY <1>12 DEF ServeDrained, Return, ShutdownResult
<1>13. ASSUME NEW c \in Callers, DrainEnds(c) PROVE OneRun'
  BY <1>13 DEF DrainEnds, Return, ShutdownResult
<1>14. CASE ServeStarts
  BY <1>14 DEF ServeStarts
<1>15. CASE AcceptFails
  BY <1>15 DEF AcceptFails
<1>16. ASSUME NEW q \in Requests, Accept(q) PROVE OneRun'
  BY <1>16 DEF Accept
<1>17. ASSUME NEW q \in Requests, RequestDone(q) PROVE OneRun'
  BY <1>17 DEF RequestDone
<1>18. CASE ShutdownCloses
  BY <1>18 DEF ShutdownCloses
<1>19. CASE ShutdownWaits
  BY <1>19 DEF ShutdownWaits
<1>20. CASE ShutdownReturns
  BY <1>20 DEF ShutdownReturns
<1>21. CASE CloseStarts
  BY <1>21 DEF CloseStarts
<1>22. CASE CloseEnds
  BY <1>22 DEF CloseEnds
<1>23. CASE UNCHANGED vars
  BY <1>23 DEF vars
<1> QED
  BY <1>1, <1>2, <1>3, <1>4, <1>5, <1>6, <1>7, <1>8, <1>9, <1>10, <1>11, <1>12,
     <1>13, <1>14, <1>15, <1>16, <1>17, <1>18, <1>19, <1>20, <1>21, <1>22,
     <1>23
  DEF Next, Run, GracefulShutdown, NetHTTP

\* The shutdown begins once, from the select of the only Run.
LEMMA PhaseInvStep ==
  TypeOK /\ OneRun /\ PhaseInv /\ QuietInv /\ [Next]_vars => PhaseInv'
<1> SUFFICES ASSUME TypeOK, OneRun, PhaseInv, QuietInv, [Next]_vars
    PROVE  PhaseInv'
  OBVIOUS
<1> USE DEF OneRun, PhaseInv, QuietInv, TypeOK,
            apiVars, runVars, timeVars, chanVars, serveVars, stopVars
<1>1. ASSUME NEW p \in Patterns, Handle(p) PROVE PhaseInv'
  BY <1>1 DEF Handle
<1>2. ASSUME NEW d \in Timeouts \cup {0}, UpdateShutdownTimeout(d)
      PROVE  PhaseInv'
  BY <1>2 DEF UpdateShutdownTimeout
<1>3. CASE Cancel
  BY <1>3 DEF Cancel
<1>4. CASE Tick
  BY <1>4 DEF Tick
<1>5. ASSUME NEW c \in Callers, RunAgain(c) PROVE PhaseInv'
  BY <1>5 DEF RunAgain
<1>6. ASSUME NEW c \in Callers, ListenFails(c) PROVE PhaseInv'
  BY <1>6 DEF ListenFails
<1>7. ASSUME NEW c \in Callers, Listen(c) PROVE PhaseInv'
  BY <1>7 DEF Listen
<1>8. ASSUME NEW c \in Callers, CtxDone(c) PROVE PhaseInv'
  BY <1>8 DEF CtxDone
<1>9. ASSUME NEW c \in Callers, ServeEnds(c) PROVE PhaseInv'
  BY <1>9 DEF ServeEnds, Return
<1>10. ASSUME NEW c \in Callers, ShutdownDone(c) PROVE PhaseInv'
  BY <1>10 DEF ShutdownDone
<1>11. ASSUME NEW c \in Callers, DeadlinePasses(c) PROVE PhaseInv'
  BY <1>11 DEF DeadlinePasses
<1>12. ASSUME NEW c \in Callers, ServeDrained(c) PROVE PhaseInv'
  BY <1>12 DEF ServeDrained, Return, ShutdownResult
<1>13. ASSUME NEW c \in Callers, DrainEnds(c) PROVE PhaseInv'
  BY <1>13 DEF DrainEnds, Return, ShutdownResult
<1>14. CASE ServeStarts
  BY <1>14 DEF ServeStarts
<1>15. CASE AcceptFails
  BY <1>15 DEF AcceptFails
<1>16. ASSUME NEW q \in Requests, Accept(q) PROVE PhaseInv'
  BY <1>16 DEF Accept
<1>17. ASSUME NEW q \in Requests, RequestDone(q) PROVE PhaseInv'
  BY <1>17 DEF RequestDone
<1>18. CASE ShutdownCloses
  BY <1>18 DEF ShutdownCloses
<1>19. CASE ShutdownWaits
  BY <1>19 DEF ShutdownWaits
<1>20. CASE ShutdownReturns
  BY <1>20 DEF ShutdownReturns
<1>21. CASE CloseStarts
  BY <1>21 DEF CloseStarts
<1>22. CASE CloseEnds
  BY <1>22 DEF CloseEnds
<1>23. CASE UNCHANGED vars
  BY <1>23 DEF vars
<1> QED
  BY <1>1, <1>2, <1>3, <1>4, <1>5, <1>6, <1>7, <1>8, <1>9, <1>10, <1>11, <1>12,
     <1>13, <1>14, <1>15, <1>16, <1>17, <1>18, <1>19, <1>20, <1>21, <1>22,
     <1>23
  DEF Next, Run, GracefulShutdown, NetHTTP

\* Once Shutdown has seen the server quiet, it stays so.
LEMMA QuietInvStep ==
  TypeOK /\ OneRun /\ PhaseInv /\ QuietInv /\ [Next]_vars => QuietInv'
<1> SUFFICES ASSUME TypeOK, OneRun, PhaseInv, QuietInv, [Next]_vars
    PROVE  QuietInv'
  OBVIOUS
<1> USE DEF OneRun, PhaseInv, QuietInv, Quiet, TypeOK,
            apiVars, runVars, timeVars, chanVars, serveVars, stopVars
<1>1. ASSUME NEW p \in Patterns, Handle(p) PROVE QuietInv'
  BY <1>1 DEF Handle
<1>2. ASSUME NEW d \in Timeouts \cup {0}, UpdateShutdownTimeout(d)
      PROVE  QuietInv'
  BY <1>2 DEF UpdateShutdownTimeout
<1>3. CASE Cancel
  BY <1>3 DEF Cancel
<1>4. CASE Tick
  BY <1>4 DEF Tick
<1>5. ASSUME NEW c \in Callers, RunAgain(c) PROVE QuietInv'
  BY <1>5 DEF RunAgain
<1>6. ASSUME NEW c \in Callers, ListenFails(c) PROVE QuietInv'
  BY <1>6 DEF ListenFails
<1>7. ASSUME NEW c \in Callers, Listen(c) PROVE QuietInv'
  BY <1>7 DEF Listen
<1>8. ASSUME NEW c \in Callers, CtxDone(c) PROVE QuietInv'
  BY <1>8 DEF CtxDone
<1>9. ASSUME NEW c \in Callers, ServeEnds(c) PROVE QuietInv'
  BY <1>9 DEF ServeEnds, Return
<1>10. ASSUME NEW c \in Callers, ShutdownDone(c) PROVE QuietInv'
  BY <1>10 DEF ShutdownDone
<1>11. ASSUME NEW c \in Callers, DeadlinePasses(c) PROVE QuietInv'
  BY <1>11 DEF DeadlinePasses
<1>12. ASSUME NEW c \in Callers, ServeDrained(c) PROVE QuietInv'
  BY <1>12 DEF ServeDrained, Return, ShutdownResult
<1>13. ASSUME NEW c \in Callers, DrainEnds(c) PROVE QuietInv'
  BY <1>13 DEF DrainEnds, Return, ShutdownResult
<1>14. CASE ServeStarts
  BY <1>14 DEF ServeStarts
<1>15. CASE AcceptFails
  BY <1>15 DEF AcceptFails
<1>16. ASSUME NEW q \in Requests, Accept(q) PROVE QuietInv'
  BY <1>16 DEF Accept
<1>17. ASSUME NEW q \in Requests, RequestDone(q) PROVE QuietInv'
  BY <1>17 DEF RequestDone
<1>18. CASE ShutdownCloses
  BY <1>18 DEF ShutdownCloses
<1>19. CASE ShutdownWaits
  BY <1>19 DEF ShutdownWaits
<1>20. CASE ShutdownReturns
  BY <1>20 DEF ShutdownReturns
<1>21. CASE CloseStarts
  BY <1>21 DEF CloseStarts
<1>22. CASE CloseEnds
  BY <1>22 DEF CloseEnds
<1>23. CASE UNCHANGED vars
  BY <1>23 DEF vars
<1> QED
  BY <1>1, <1>2, <1>3, <1>4, <1>5, <1>6, <1>7, <1>8, <1>9, <1>10, <1>11, <1>12,
     <1>13, <1>14, <1>15, <1>16, <1>17, <1>18, <1>19, <1>20, <1>21, <1>22,
     <1>23
  DEF Next, Run, GracefulShutdown, NetHTTP

\* Only Tick moves time, from left to elapsed.
LEMMA DeadlineInvStep ==
  TypeOK /\ OneRun /\ PhaseInv /\ DeadlineInv /\ [Next]_vars => DeadlineInv'
<1> SUFFICES ASSUME TypeOK, OneRun, PhaseInv, DeadlineInv, [Next]_vars
    PROVE  DeadlineInv'
  OBVIOUS
<1> USE DEF OneRun, PhaseInv, DeadlineInv, TypeOK,
            apiVars, runVars, timeVars, chanVars, serveVars, stopVars
<1>1. ASSUME NEW p \in Patterns, Handle(p) PROVE DeadlineInv'
  BY <1>1 DEF Handle
<1>2. ASSUME NEW d \in Timeouts \cup {0}, UpdateShutdownTimeout(d)
      PROVE  DeadlineInv'
  BY <1>2 DEF UpdateShutdownTimeout
<1>3. CASE Cancel
  BY <1>3 DEF Cancel
<1>4. CASE Tick
  BY <1>4 DEF Tick
<1>5. ASSUME NEW c \in Callers, RunAgain(c) PROVE DeadlineInv'
  BY <1>5 DEF RunAgain
<1>6. ASSUME NEW c \in Callers, ListenFails(c) PROVE DeadlineInv'
  BY <1>6 DEF ListenFails
<1>7. ASSUME NEW c \in Callers, Listen(c) PROVE DeadlineInv'
  BY <1>7, TimeoutsAssumption DEF Listen
<1>8. ASSUME NEW c \in Callers, CtxDone(c) PROVE DeadlineInv'
  BY <1>8, TimeoutsAssumption DEF CtxDone
<1>9. ASSUME NEW c \in Callers, ServeEnds(c) PROVE DeadlineInv'
  BY <1>9 DEF ServeEnds, Return
<1>10. ASSUME NEW c \in Callers, ShutdownDone(c) PROVE DeadlineInv'
  BY <1>10 DEF ShutdownDone
<1>11. ASSUME NEW c \in Callers, DeadlinePasses(c) PROVE DeadlineInv'
  BY <1>11 DEF DeadlinePasses
<1>12. ASSUME NEW c \in Callers, ServeDrained(c) PROVE DeadlineInv'
  BY <1>12 DEF ServeDrained, Return, ShutdownResult
<1>13. ASSUME NEW c \in Callers, DrainEnds(c) PROVE DeadlineInv'
  BY <1>13 DEF DrainEnds, Return, ShutdownResult
<1>14. CASE ServeStarts
  BY <1>14 DEF ServeStarts
<1>15. CASE AcceptFails
  BY <1>15 DEF AcceptFails
<1>16. ASSUME NEW q \in Requests, Accept(q) PROVE DeadlineInv'
  BY <1>16 DEF Accept
<1>17. ASSUME NEW q \in Requests, RequestDone(q) PROVE DeadlineInv'
  BY <1>17 DEF RequestDone
<1>18. CASE ShutdownCloses
  BY <1>18 DEF ShutdownCloses
<1>19. CASE ShutdownWaits
  BY <1>19 DEF ShutdownWaits
<1>20. CASE ShutdownReturns
  BY <1>20 DEF ShutdownReturns
<1>21. CASE CloseStarts
  BY <1>21 DEF CloseStarts
<1>22. CASE CloseEnds
  BY <1>22 DEF CloseEnds
<1>23. CASE UNCHANGED vars
  BY <1>23 DEF vars
<1> QED
  BY <1>1, <1>2, <1>3, <1>4, <1>5, <1>6, <1>7, <1>8, <1>9, <1>10, <1>11, <1>12,
     <1>13, <1>14, <1>15, <1>16, <1>17, <1>18, <1>19, <1>20, <1>21, <1>22,
     <1>23
  DEF Next, Run, GracefulShutdown, NetHTTP

\* The inductive invariant.
LEMMA Invariant ==
  Spec => [](TypeOK /\ OneRun /\ PhaseInv /\ QuietInv /\ DeadlineInv)
<1>1. Init => TypeOK /\ OneRun /\ PhaseInv /\ QuietInv /\ DeadlineInv
  <2> SUFFICES ASSUME Init
      PROVE  TypeOK /\ OneRun /\ PhaseInv /\ QuietInv /\ DeadlineInv
    OBVIOUS
  <2>1. TypeOK
    BY TimeoutsAssumption DEF Init, TypeOK
  <2>2. OneRun /\ PhaseInv
    BY DEF Init, OneRun, PhaseInv
  <2>3. QuietInv
    BY DEF Init, QuietInv
  <2>4. DeadlineInv
    BY DEF Init, DeadlineInv
  <2> QED BY <2>1, <2>2, <2>3, <2>4
<1>2. /\ TypeOK /\ OneRun /\ PhaseInv /\ QuietInv /\ DeadlineInv
      /\ [Next]_vars
      => TypeOK' /\ OneRun' /\ PhaseInv' /\ QuietInv' /\ DeadlineInv'
  BY TypeStep, OneRunStep, PhaseInvStep, QuietInvStep, DeadlineInvStep
<1> QED BY <1>1, <1>2, PTL DEF Spec

\* Every variable stays in its range.
THEOREM TypeCorrect == Spec => []TypeOK
BY Invariant, PTL

\* One Run at most gets past the guard (server.go Run, ErrAlreadyRunning).
THEOREM SingleRun == Spec => []OneRun
BY Invariant, PTL

\* A nil from Run means a drained server (server.go Run, gracefulShutdown).
THEOREM NilMeansGraceful == Spec => []NilIsGraceful
<1>1. TypeOK /\ PhaseInv /\ QuietInv => NilIsGraceful
  BY DEF TypeOK, PhaseInv, QuietInv, Quiet, NilIsGraceful
<1> QED BY Invariant, <1>1, PTL

\* The two waits share one deadline, the one loaded on entry (server.go
\* gracefulShutdown, UpdateShutdownTimeout).
THEOREM ShutdownInTime == Spec => []DeadlineKept
<1>1. TypeOK /\ PhaseInv /\ DeadlineInv => DeadlineKept
  <2> SUFFICES ASSUME TypeOK, PhaseInv, DeadlineInv PROVE DeadlineKept
    OBVIOUS
  <2>1. elapsed <= granted /\ (left = 0 => elapsed = granted)
    BY DEF TypeOK, DeadlineInv
  <2>2. \A c \in Callers : outcome[c] = "shutdownTimeout" => left = 0 /\ granted > 0
    BY DEF PhaseInv, DeadlineInv
  <2> QED BY <2>1, <2>2 DEF DeadlineKept
<1> QED BY Invariant, <1>1, PTL

\* The route table is fixed while the server serves (server.go Handle).
THEOREM RoutesFixed == Spec => RoutesFrozen
<1>1. PhaseInv /\ [Next]_vars =>
        (serve # "none" \/ active # {} => UNCHANGED routes)
  <2> SUFFICES ASSUME PhaseInv, [Next]_vars, serve # "none" \/ active # {}
      PROVE  UNCHANGED routes
    OBVIOUS
  <2>1. ASSUME NEW p \in Patterns, Handle(p) PROVE FALSE
    BY <2>1 DEF Handle, PhaseInv
  <2> QED
    BY <2>1
    DEF Next, Run, GracefulShutdown, NetHTTP, UpdateShutdownTimeout, Cancel,
        Tick, RunAgain, ListenFails, Listen, CtxDone, ServeEnds, ShutdownDone,
        DeadlinePasses, ServeDrained, DrainEnds, ServeStarts, AcceptFails,
        Accept, RequestDone, ShutdownCloses, ShutdownWaits, ShutdownReturns,
        CloseStarts, CloseEnds, vars, apiVars
<1> QED BY <1>1, Invariant, PTL DEF Spec, RoutesFrozen

-----------------------------------------------------------------------------
(* The Server implements ServerService.                                    *)

SInv == TypeOK /\ OneRun /\ PhaseInv /\ QuietInv /\ DeadlineInv

\* Callers that do not move leave the phase as it is.
LEMMA SamePhase ==
  ASSUME pc' = pc, started' = started
  PROVE  Phase' = Phase /\ Inside' = Inside
BY DEF Phase, Inside

LEMMA FreshPhase ==
  ASSUME SInv
  PROVE  Phase = "fresh" <=> ~started
BY DEF SInv, PhaseInv, Phase

\* The phase, read off the caller that is inside.
LEMMA PhaseOf ==
  ASSUME SInv, NEW c \in Callers, pc[c] # "idle"
  PROVE  /\ Inside = {c}
         /\ started
         /\ pc[c] = "select" => Phase = "serving"
         /\ pc[c] \in {"shutdown", "drain"} => Phase = "shutting"
<1>1. \A d \in Callers : pc[d] # "idle" => d = c
  BY DEF SInv, OneRun
<1>2. started
  BY DEF SInv, PhaseInv
<1> QED BY <1>1, <1>2 DEF Inside, Phase

\* Run returns: nobody is inside any more.
LEMMA ReturnLeaves ==
  ASSUME SInv, NEW c \in Callers, pc[c] # "idle", NEW err, Return(c, err),
         UNCHANGED <<apiVars, serve, active, inShutdown, timeVars>>
  PROVE  Service!Leave(c, err)
<1>1. Inside = {c} /\ started
  BY PhaseOf
<1>2. pc' = [pc EXCEPT ![c] = "idle"] /\ outcome' = [outcome EXCEPT ![c] = err]
  BY DEF Return
<1>3. \A d \in Callers : pc'[d] = "idle"
  BY <1>1, <1>2 DEF Inside, SInv, TypeOK
<1>4. Inside' = {} /\ Phase' = "stopped"
  BY <1>1, <1>3 DEF Inside, Phase, apiVars
<1>5. Accepting' = Accepting
  BY DEF Accepting
<1> QED
  BY <1>1, <1>2, <1>4, <1>5
  DEF Service!Leave, Service!confVars, Service!workVars, Service!timeVars,
      apiVars, timeVars, Return

\* Every step of the Server is a step of the service, or none.
LEMMA ServiceStep ==
  ASSUME SInv, [Next]_vars
  PROVE  [Service!Next]_(Service!vars)
<1> USE DEF apiVars, runVars, timeVars, chanVars, serveVars, stopVars,
            Service!confVars, Service!runVars, Service!workVars,
            Service!timeVars
<1>1. ASSUME NEW p \in Patterns, Handle(p) PROVE Service!Register(p)
  <2>1. Phase = "fresh" /\ Phase' = Phase /\ Inside' = Inside
    BY <1>1, SamePhase, FreshPhase DEF Handle
  <2>2. Accepting' = Accepting
    BY <1>1 DEF Handle, Accepting
  <2> QED BY <1>1, <2>1, <2>2 DEF Handle, Service!Register
<1>2. ASSUME NEW d \in Timeouts \cup {0}, UpdateShutdownTimeout(d)
      PROVE  d \in Timeouts /\ Service!Update(d)
  <2>1. Phase' = Phase /\ Inside' = Inside
    BY <1>2, SamePhase DEF UpdateShutdownTimeout
  <2>2. Accepting' = Accepting
    BY <1>2 DEF UpdateShutdownTimeout, Accepting
  <2>3. d \in Timeouts
    BY <1>2 DEF UpdateShutdownTimeout
  <2> QED BY <1>2, <2>1, <2>2, <2>3 DEF UpdateShutdownTimeout, Service!Update
<1>3. CASE Cancel
  <2>1. Phase' = Phase /\ Inside' = Inside
    BY <1>3, SamePhase DEF Cancel
  <2>2. Accepting' = Accepting
    BY <1>3 DEF Cancel, Accepting
  <2>3. Service!Cancel
    BY <1>3, <2>1, <2>2 DEF Cancel, Service!Cancel
  <2> QED BY <2>3 DEF Service!Next
<1>4. CASE Tick
  <2>1. Phase' = Phase /\ Inside' = Inside
    BY <1>4, SamePhase DEF Tick
  <2>2. Accepting' = Accepting
    BY <1>4 DEF Tick, Accepting
  <2>3. elapsed < granted
    BY <1>4 DEF Tick, SInv, TypeOK, DeadlineInv
  <2>4. Service!Pass
    BY <1>4, <2>1, <2>2, <2>3 DEF Tick, Service!Pass
  <2> QED BY <2>4 DEF Service!Next
<1>5. ASSUME NEW c \in Callers, RunAgain(c) \/ ListenFails(c)
      PROVE  Service!Refuse(c)
  <2>1. Phase' = Phase /\ Inside' = Inside
    BY <1>5, SamePhase DEF RunAgain, ListenFails
  <2>2. Accepting' = Accepting
    BY <1>5 DEF RunAgain, ListenFails, Accepting
  <2>3. c \notin Inside /\ (Phase = "fresh" <=> ~started)
    BY <1>5, FreshPhase DEF RunAgain, ListenFails, Inside
  <2>4. CASE RunAgain(c)
    BY <2>1, <2>2, <2>3, <2>4 DEF RunAgain, Service!Refuse
  <2>5. CASE ListenFails(c)
    BY <2>1, <2>2, <2>3, <2>5 DEF ListenFails, Service!Refuse
  <2> QED BY <1>5, <2>4, <2>5
<1>6. ASSUME NEW c \in Callers, Listen(c) PROVE Service!Serve(c)
  <2>1. Phase = "fresh"
    BY <1>6, FreshPhase DEF Listen
  <2>2. ~inShutdown /\ active = {} /\ \A d \in Callers : pc[d] = "idle"
    BY <1>6 DEF Listen, SInv, PhaseInv
  <2>3. pc' = [pc EXCEPT ![c] = "select"] /\ started'
    BY <1>6 DEF Listen
  <2>4. pc'[c] = "select" /\ \A d \in Callers \ {c} : pc'[d] = "idle"
    BY <2>2, <2>3 DEF SInv, TypeOK
  <2>5. Inside' = {c} /\ Phase' = "serving"
    BY <2>3, <2>4 DEF Inside, Phase
  <2>6. Accepting'
    BY <1>6, <2>2 DEF Listen, Accepting
  <2> QED BY <1>6, <2>1, <2>5, <2>6 DEF Listen, Service!Serve, Accepting
<1>7. ASSUME NEW c \in Callers, CtxDone(c) PROVE Service!BeginShutdown
  <2>1. Inside = {c} /\ started /\ Phase = "serving"
    BY <1>7, PhaseOf DEF CtxDone
  <2>2. pc' = [pc EXCEPT ![c] = "shutdown"] /\ started' = started
    BY <1>7 DEF CtxDone
  <2>3. pc'[c] = "shutdown" /\ \A d \in Callers \ {c} : pc'[d] = "idle"
    BY <2>1, <2>2 DEF Inside, SInv, TypeOK
  <2>4. Inside' = {c} /\ Phase' = "shutting"
    BY <2>1, <2>2, <2>3 DEF Inside, Phase
  <2>5. Accepting' = Accepting
    BY <1>7 DEF CtxDone, Accepting
  <2> QED BY <1>7, <2>1, <2>4, <2>5 DEF CtxDone, Service!BeginShutdown
<1>8. ASSUME NEW c \in Callers, ServeEnds(c) PROVE Service!Fail(c)
  <2>1. Phase = "serving"
    BY <1>8, PhaseOf DEF ServeEnds
  <2>2. serve = "returned" /\ serveErrCh = "err"
    BY <1>8 DEF ServeEnds, SInv, TypeOK, PhaseInv, QuietInv
  <2>3. Service!Leave(c, "serveFailed")
    BY <1>8, <2>2, ReturnLeaves DEF ServeEnds
  <2>4. ~Accepting
    BY <2>2 DEF Accepting
  <2> QED BY <2>1, <2>3, <2>4 DEF Service!Fail
<1>9. ASSUME NEW c \in Callers, ShutdownDone(c) \/ DeadlinePasses(c)
      PROVE  UNCHANGED Service!vars
  <2>1. Inside = {c} /\ started /\ Phase = "shutting"
    BY <1>9, PhaseOf DEF ShutdownDone, DeadlinePasses
  <2>2. pc' = [pc EXCEPT ![c] = "drain"] /\ started' = started
    BY <1>9 DEF ShutdownDone, DeadlinePasses
  <2>3. pc'[c] = "drain" /\ \A d \in Callers \ {c} : pc'[d] = "idle"
    BY <2>1, <2>2 DEF Inside, SInv, TypeOK
  <2>4. Inside' = {c} /\ Phase' = "shutting"
    BY <2>1, <2>2, <2>3 DEF Inside, Phase
  <2>5. Accepting' = Accepting
    BY <1>9 DEF ShutdownDone, DeadlinePasses, Accepting
  <2> QED
    BY <1>9, <2>1, <2>4, <2>5 DEF ShutdownDone, DeadlinePasses, Service!vars
<1>10. ASSUME NEW c \in Callers, ServeDrained(c) \/ DrainEnds(c)
       PROVE  Service!Fail(c) \/ Service!StopGracefully(c) \/ Service!StopLate(c)
  <2>1. Phase = "shutting" /\ pc[c] = "drain"
    BY <1>10, PhaseOf DEF ServeDrained, DrainEnds
  <2>2. Service!Leave(c, ShutdownResult)
    BY <1>10, ReturnLeaves DEF ServeDrained, DrainEnds
  <2>3. CASE shutdownErr = "nil"
    BY <2>1, <2>2, <2>3
    DEF ShutdownResult, SInv, QuietInv, Quiet, Accepting, Service!StopGracefully
  <2>4. CASE shutdownErr = "deadline"
    <3>1. elapsed = granted
      BY <2>4 DEF SInv, TypeOK, DeadlineInv
    <3> QED BY <2>1, <2>2, <2>4, <3>1 DEF ShutdownResult, Service!StopLate
  <2>5. CASE shutdownErr = "closeError"
    BY <2>1, <2>2, <2>5 DEF ShutdownResult, Service!Fail
  <2> QED BY <2>3, <2>4, <2>5 DEF SInv, TypeOK
<1>11. ASSUME NEW q \in Requests, Accept(q) PROVE Service!Accept(q)
  <2>1. Phase' = Phase /\ Inside' = Inside
    BY <1>11, SamePhase DEF Accept
  <2> QED BY <1>11, <2>1 DEF Accept, Service!Accept, Accepting
<1>12. ASSUME NEW q \in Requests, RequestDone(q) PROVE Service!Finish(q)
  <2>1. Phase' = Phase /\ Inside' = Inside
    BY <1>12, SamePhase DEF RequestDone
  <2> QED BY <1>12, <2>1 DEF RequestDone, Service!Finish, Accepting
<1>13. CASE \/ ServeStarts \/ AcceptFails
            \/ ShutdownCloses \/ ShutdownWaits \/ ShutdownReturns \/ CloseStarts
  <2>1. pc' = pc /\ started' = started
    BY <1>13
    DEF ServeStarts, AcceptFails, ShutdownCloses, ShutdownWaits,
        ShutdownReturns, CloseStarts
  <2>2. /\ UNCHANGED <<routes, timeout, cancelled, outcome, active, granted,
                       elapsed>>
        /\ Phase' = Phase /\ Inside' = Inside
    BY <1>13, <2>1, SamePhase
    DEF ServeStarts, AcceptFails, ShutdownCloses, ShutdownWaits,
        ShutdownReturns, CloseStarts
  <2>3. Accepting' => Accepting
    BY <1>13
    DEF ServeStarts, AcceptFails, ShutdownCloses, ShutdownWaits,
        ShutdownReturns, CloseStarts, Accepting
  <2>4. serve # "none" => Phase # "fresh"
    BY FreshPhase DEF SInv, PhaseInv
  <2>5. CASE Accepting' <=> Accepting
    <3>1. Accepting' = Accepting
      BY <2>5, Zenon DEF Accepting
    <3> QED BY <2>2, <3>1 DEF Service!vars
  <2>6. CASE ~(Accepting' <=> Accepting)
    <3>1. Accepting /\ ~Accepting'
      BY <2>3, <2>6
    <3>2. Phase # "fresh"
      BY <2>4, <3>1 DEF Accepting
    <3>3. Service!StopAccepting
      BY <2>2, <3>1, <3>2 DEF Service!StopAccepting
    <3> QED BY <3>3 DEF Service!Next
  <2> QED BY <2>5, <2>6
<1>14. CASE CloseEnds
  <2>1. Phase' = Phase /\ Inside' = Inside
    BY <1>14, SamePhase DEF CloseEnds
  <2>2. Accepting' = Accepting /\ ~Accepting
    BY <1>14 DEF CloseEnds, Accepting, SInv, QuietInv
  <2>3. elapsed = granted
    BY <1>14 DEF CloseEnds, SInv, TypeOK, DeadlineInv
  <2>4. shutting # "none" /\ started /\ \A c \in Callers : pc[c] # "select"
    BY <1>14 DEF CloseEnds, SInv, PhaseInv
  <2>5. Phase \in {"shutting", "stopped"}
    BY <2>4 DEF Phase
  <2>6. Service!CutOff
    BY <1>14, <2>1, <2>2, <2>3, <2>5 DEF CloseEnds, Service!CutOff
  <2> QED BY <2>6 DEF Service!Next
<1>15. CASE UNCHANGED vars
  <2>1. Phase' = Phase /\ Inside' = Inside
    BY <1>15, SamePhase DEF vars
  <2> QED BY <1>15, <2>1 DEF vars, Service!vars, Accepting
<1> QED
  BY <1>1, <1>2, <1>3, <1>4, <1>5, <1>6, <1>7, <1>8, <1>9, <1>10, <1>11, <1>12,
     <1>13, <1>14, <1>15
  DEF Next, Run, GracefulShutdown, NetHTTP, Service!Next

\* Run, gracefulShutdown and their goroutines are the server of ServerService:
\* each step is a step of the service or a stutter (server.go Run, Handle,
\* gracefulShutdown).
THEOREM ServerImplementsService == Spec => ImplementsService
<1>1. Init => Service!Init
  <2> SUFFICES ASSUME Init PROVE Service!Init
    OBVIOUS
  <2>1. Phase = "fresh" /\ Inside = {} /\ Accepting = FALSE
    BY DEF Init, Phase, Inside, Accepting
  <2> QED BY <2>1 DEF Init, Service!Init
<1>2. SInv /\ [Next]_vars => [Service!Next]_(Service!vars)
  BY ServiceStep
<1> QED
  BY <1>1, <1>2, Invariant, PTL DEF Spec, SInv, ImplementsService, Service!Spec

-----------------------------------------------------------------------------
(* How Run ends, as far as safety goes, and what its goroutines leave      *)
(* behind.                                                                 *)

InShutdown(c) == pc[c] \in {"shutdown", "drain"}

\* The steps of gracefulShutdown and of the clock that are left to a caller.
StepsLeft(c) ==
    CASE pc[c] = "shutdown" -> left + 2
      [] pc[c] = "drain"    -> left + 1
      [] OTHER              -> 0

\* Each of these steps brings the end nearer, and nothing else that happens, a
\* reload of the timeout included, puts it off.
ShutdownBounded ==
    [][\A c \in Callers : InShutdown(c) =>
        /\ StepsLeft(c) <= granted + 2
        /\ StepsLeft(c)' <= StepsLeft(c)
        /\ GracefulShutdown(c) \/ Tick => StepsLeft(c)' < StepsLeft(c)]_vars

\* A next state of a cancelled Run.  It goes on with a case of its select that
\* is ready, preferring the deadline; with none, time passes.
Onward(c) ==
    LET at(label) == [pc EXCEPT ![c] = label]
        ended == [outcome EXCEPT ![c] = ShutdownResult]
    IN  CASE pc[c] = "select" ->
                <<apiVars, <<at("shutdown"), outcome, timeout, shutdownErr>>,
                  <<timeout, 0>>, chanVars, serveVars,
                  <<inShutdown, closeFails, "close", closing>>>>
          [] pc[c] = "shutdown" /\ left = 0 ->
                <<apiVars, <<at("drain"), outcome, granted, "deadline">>,
                  timeVars, chanVars, serveVars,
                  <<inShutdown, closeFails, shutting, "close">>>>
          [] pc[c] = "shutdown" /\ left # 0 /\ shutdownDoneCh # "empty" ->
                <<apiVars, <<at("drain"), outcome, granted, shutdownDoneCh>>,
                  timeVars, <<serveErrCh, "empty">>, serveVars, stopVars>>
          [] pc[c] = "drain" /\ (left = 0 \/ serveErrCh # "empty") ->
                <<apiVars, <<at("idle"), ended, granted, "nil">>, timeVars,
                  <<IF left = 0 THEN serveErrCh ELSE "empty", shutdownDoneCh>>,
                  serveVars, stopVars>>
          [] OTHER ->
                <<apiVars, runVars, <<left - 1, elapsed + 1>>, chanVars,
                  serveVars, stopVars>>

\* The Serve and Shutdown goroutines find room in their channels when they
\* send, so neither is left behind for want of a receiver.
SendsNeverBlock ==
    /\ serve # "returned" => serveErrCh = "empty"
    /\ shutting # "end" => shutdownDoneCh = "empty"

\* Run leaves its first select for the shutdown of a cancelled context, or to
\* report a failure of Serve: the return of nil below it is never taken.
SelectLeft ==
    [][\A c \in Callers : pc[c] = "select" /\ pc'[c] # "select" =>
        \/ cancelled /\ pc'[c] = "shutdown"
        \/ serveErrCh = "err" /\ outcome'[c] = "serveFailed"]_vars

\* Only these steps of a caller move its label.
LEMMA OthersStay ==
  ASSUME SInv, [Next]_vars, NEW c \in Callers, pc'[c] # pc[c]
  PROVE  \/ Listen(c) \/ CtxDone(c) \/ ServeEnds(c) \/ GracefulShutdown(c)
<1> USE DEF SInv, TypeOK
<1>1. ASSUME NEW d \in Callers, Run(d), d # c PROVE pc'[c] = pc[c]
  BY <1>1
  DEF Run, RunAgain, ListenFails, Listen, CtxDone, ServeEnds,
      GracefulShutdown, ShutdownDone, DeadlinePasses, ServeDrained, DrainEnds,
      Return
<1>2. CASE Run(c)
  BY <1>2 DEF Run, RunAgain, ListenFails
<1>3. CASE ~\E d \in Callers : Run(d)
  BY <1>3
  DEF Next, NetHTTP, Handle, UpdateShutdownTimeout, Cancel, Tick, ServeStarts,
      AcceptFails, Accept, RequestDone, ShutdownCloses, ShutdownWaits,
      ShutdownReturns, CloseStarts, CloseEnds, vars, runVars
<1> QED BY <1>1, <1>2, <1>3

\* Only the clock and the beginning of a shutdown touch the time left.
LEMMA TimeLeft ==
  ASSUME SInv, [Next]_vars
  PROVE  left' = left \/ Tick \/ \E c \in Callers : CtxDone(c)
BY DEF Next, NetHTTP, Handle, UpdateShutdownTimeout, Cancel, ServeStarts,
       AcceptFails, Accept, RequestDone, ShutdownCloses, ShutdownWaits,
       ShutdownReturns, CloseStarts, CloseEnds, Run, RunAgain, ListenFails,
       Listen, ServeEnds, GracefulShutdown, ShutdownDone, DeadlinePasses,
       ServeDrained, DrainEnds, vars, timeVars

\* A shutdown is over after at most as many steps of Run and of the clock as
\* the timeout loaded on entry has ticks, and two (server.go gracefulShutdown).
THEOREM ShutdownEndsInBound == Spec => ShutdownBounded
<1>1. SInv /\ [Next]_vars =>
        \A c \in Callers : InShutdown(c) =>
            /\ StepsLeft(c) <= granted + 2
            /\ StepsLeft(c)' <= StepsLeft(c)
            /\ GracefulShutdown(c) \/ Tick => StepsLeft(c)' < StepsLeft(c)
  <2> SUFFICES ASSUME SInv, [Next]_vars, NEW c \in Callers, InShutdown(c)
      PROVE  /\ StepsLeft(c) <= granted + 2
             /\ StepsLeft(c)' <= StepsLeft(c)
             /\ GracefulShutdown(c) \/ Tick => StepsLeft(c)' < StepsLeft(c)
    OBVIOUS
  <2>1. left \in Nat /\ left <= granted /\ granted \in Nat
    BY DEF SInv, TypeOK, DeadlineInv
  <2>2. StepsLeft(c) <= granted + 2
    BY <2>1 DEF StepsLeft, InShutdown
  <2>3. CASE Tick
    <3>1. pc' = pc /\ left' = left - 1
      BY <2>3 DEF Tick, runVars
    <3> QED BY <2>1, <2>2, <3>1 DEF StepsLeft, InShutdown
  <2>4. CASE GracefulShutdown(c)
    <3>1. left' = left
      BY <2>4
      DEF GracefulShutdown, ShutdownDone, DeadlinePasses, ServeDrained,
          DrainEnds, timeVars
    <3>2. \/ pc[c] = "shutdown" /\ pc'[c] = "drain"
          \/ pc[c] = "drain" /\ pc'[c] = "idle"
      BY <2>4
      DEF GracefulShutdown, ShutdownDone, DeadlinePasses, ServeDrained,
          DrainEnds, Return, SInv, TypeOK
    <3> QED BY <2>1, <2>2, <3>1, <3>2 DEF StepsLeft
  <2>5. CASE ~Tick /\ ~GracefulShutdown(c)
    <3>1. ASSUME NEW d \in Callers, CtxDone(d) PROVE FALSE
      BY <3>1 DEF CtxDone, InShutdown, SInv, OneRun
    <3>2. left' = left
      BY <2>5, <3>1, TimeLeft
    <3>3. pc'[c] = pc[c]
      BY <2>5, OthersStay DEF InShutdown, Listen, CtxDone, ServeEnds
    <3> QED BY <2>1, <2>2, <2>5, <3>2, <3>3 DEF StepsLeft
  <2> QED BY <2>3, <2>4, <2>5
<1> QED BY <1>1, Invariant, PTL DEF Spec, SInv, ShutdownBounded

\* A cancelled Run is never stuck, whatever net/http, the listener and the
\* handlers do (server.go Run, gracefulShutdown): in each state that can be
\* reached (Invariant) the step to the state Onward is a step of Run or of the
\* clock.  This is ENABLED, with the next state written out; by ShutdownBounded
\* such steps come to an end.
THEOREM RunCanGoOn ==
  ASSUME SInv, NEW c \in Callers, pc[c] # "idle", cancelled, vars' = Onward(c)
  PROVE  CtxDone(c) \/ GracefulShutdown(c) \/ Tick
<1> USE DEF vars, apiVars, runVars, timeVars, chanVars, serveVars, stopVars
<1>1. pc[c] \in {"select", "shutdown", "drain"} /\ left \in Nat
  BY DEF SInv, TypeOK
<1>2. CASE pc[c] = "select"
  BY <1>2 DEF Onward, CtxDone
<1>3. CASE pc[c] = "shutdown" /\ left = 0
  BY <1>3 DEF Onward, GracefulShutdown, DeadlinePasses
<1>4. CASE pc[c] = "shutdown" /\ left # 0 /\ shutdownDoneCh # "empty"
  BY <1>4 DEF Onward, GracefulShutdown, ShutdownDone
<1>5. CASE pc[c] = "drain" /\ (left = 0 \/ serveErrCh # "empty")
  BY <1>5 DEF Onward, GracefulShutdown, DrainEnds, ServeDrained, Return
<1>6. CASE \/ pc[c] = "shutdown" /\ left # 0 /\ shutdownDoneCh = "empty"
           \/ pc[c] = "drain" /\ left # 0 /\ serveErrCh = "empty"
  <2>1. \A d \in Callers : ~Ready(d)
    BY <1>6 DEF Ready, SInv, OneRun
  <2>2. vars' = <<apiVars, runVars, <<left - 1, elapsed + 1>>, chanVars,
                  serveVars, stopVars>>
    BY <1>6 DEF Onward
  <2> QED BY <1>1, <1>6, <2>1, <2>2 DEF Tick
<1> QED BY <1>1, <1>2, <1>3, <1>4, <1>5, <1>6

\* What Shutdown returned is sent once.
LEMMA SendStep == SInv /\ SendsNeverBlock /\ [Next]_vars => SendsNeverBlock'
<1> SUFFICES ASSUME SInv, SendsNeverBlock, [Next]_vars PROVE SendsNeverBlock'
  OBVIOUS
<1>1. (serve # "returned" => serveErrCh = "empty")'
  <2>1. SInv'
    BY TypeStep, OneRunStep, PhaseInvStep, QuietInvStep, DeadlineInvStep DEF SInv
  <2> QED BY <2>1 DEF SInv, QuietInv
<1>2. (shutting # "end" => shutdownDoneCh = "empty")'
  <2>1. ASSUME NEW c \in Callers, CtxDone(c) \/ ShutdownDone(c)
        PROVE  (shutting # "end" => shutdownDoneCh = "empty")'
    BY <2>1
    DEF CtxDone, ShutdownDone, SInv, PhaseInv, stopVars, chanVars
  <2>2. CASE ShutdownCloses \/ ShutdownWaits \/ ShutdownReturns
    BY <2>2
    DEF ShutdownCloses, ShutdownWaits, ShutdownReturns, chanVars,
        SendsNeverBlock
  <2>3. CASE UNCHANGED <<shutting, shutdownDoneCh>>
    BY <2>3 DEF SendsNeverBlock
  <2> QED
    BY <2>1, <2>2, <2>3
    DEF Next, NetHTTP, Handle, UpdateShutdownTimeout, Cancel, Tick,
        ServeStarts, AcceptFails, Accept, RequestDone, CloseStarts, CloseEnds,
        Run, RunAgain, ListenFails, Listen, ServeEnds, GracefulShutdown,
        DeadlinePasses, ServeDrained, DrainEnds, vars, chanVars, stopVars
<1> QED BY <1>1, <1>2 DEF SendsNeverBlock

\* The buffers of serveErrCh and shutdownDoneCh hold what is sent, whether Run
\* still receives or not (server.go Run, gracefulShutdown).
THEOREM SendersAreFree == Spec => []SendsNeverBlock
<1>1. Init => SendsNeverBlock
  BY DEF Init, SendsNeverBlock
<1>2. SInv /\ SendsNeverBlock /\ [Next]_vars => SendsNeverBlock'
  BY SendStep
<1> QED BY <1>1, <1>2, Invariant, PTL DEF Spec, SInv

\* Without a cancellation Run returns only with the failure of its listener
\* (server.go Run).
THEOREM EarlyEndReported == Spec => SelectLeft
<1>1. SInv /\ [Next]_vars =>
        \A c \in Callers : pc[c] = "select" /\ pc'[c] # "select" =>
            \/ cancelled /\ pc'[c] = "shutdown"
            \/ serveErrCh = "err" /\ outcome'[c] = "serveFailed"
  <2> SUFFICES ASSUME SInv, [Next]_vars, NEW c \in Callers,
                      pc[c] = "select", pc'[c] # "select"
      PROVE  \/ cancelled /\ pc'[c] = "shutdown"
             \/ serveErrCh = "err" /\ outcome'[c] = "serveFailed"
    OBVIOUS
  <2>1. CtxDone(c) \/ ServeEnds(c)
    BY OthersStay
    DEF Listen, GracefulShutdown, ShutdownDone, DeadlinePasses, ServeDrained,
        DrainEnds
  <2>2. CASE CtxDone(c)
    BY <2>2 DEF CtxDone, SInv, TypeOK
  <2>3. CASE ServeEnds(c)
    <3>1. ~inShutdown
      BY <2>3 DEF ServeEnds, SInv, PhaseInv
    <3>2. serveErrCh = "err"
      BY <2>3, <3>1 DEF ServeEnds, SInv, TypeOK, QuietInv
    <3> QED BY <2>3, <3>2 DEF ServeEnds, Return, SInv, TypeOK
  <2> QED BY <2>1, <2>2, <2>3
<1> QED BY <1>1, Invariant, PTL DEF Spec, SInv, SelectLeft

=============================================================================

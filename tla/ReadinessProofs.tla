-------------------------- MODULE ReadinessProofs --------------------------
(***************************************************************************)
(* Theorems about Readiness for every set of probes and every list of      *)
(* checkers without duplicates.                                            *)
(***************************************************************************)
EXTENDS Readiness, TLAPS

\* A position of CheckerList names a checker, and every checker has one.
LEMMA CheckerAt ==
  /\ Len(CheckerList) \in Nat
  /\ \A i \in 1..Len(CheckerList) : CheckerList[i] \in Checkers
  /\ \A k \in Checkers : \E i \in 1..Len(CheckerList) : k = CheckerList[i]
BY CheckersAssumption DEF Checkers

\* The checker a request has reached exists until the list is exhausted.
LEMMA CurrentTyped ==
  ASSUME TypeOK, NEW r \in Requests, Len(results[r]) < Len(CheckerList)
  PROVE  /\ Len(results[r]) \in Nat
         /\ Len(results[r]) + 1 \in 1..Len(CheckerList)
         /\ Current(r) \in Checkers
<1>1. Len(results[r]) \in Nat
  BY DEF TypeOK
<1> QED BY <1>1, CheckerAt DEF Current

\* A report appends one entry: the rest of TypeOK is undisturbed.
LEMMA ReportTyped ==
  ASSUME TypeOK, NEW r \in Requests, NEW code \in Results,
         Len(results[r]) < Len(CheckerList), Report(r, code)
  PROVE  TypeOK'
<1>1. results[r] \in Seq(Results) /\ Append(results[r], code) \in Seq(Results)
  BY DEF TypeOK
<1>2. Len(Append(results[r], code)) = Len(results[r]) + 1
  BY <1>1
<1>3. results' \in [Requests -> Seq(Results)]
  BY <1>1 DEF TypeOK, Report
<1>4. Len(results[r]) + 1 <= Len(CheckerList)
  BY CurrentTyped, CheckerAt
<1>5. \A q \in Requests :
        /\ Len(results'[q]) <= Len(CheckerList)
        /\ pc'[q] \in {"enter", "await"} => Len(results'[q]) < Len(CheckerList)
        /\ pc'[q] = "await" => ent'[q] # None
  <2> SUFFICES ASSUME NEW q \in Requests
      PROVE  /\ Len(results'[q]) <= Len(CheckerList)
             /\ pc'[q] \in {"enter", "await"} =>
                    Len(results'[q]) < Len(CheckerList)
             /\ pc'[q] = "await" => ent'[q] # None
    OBVIOUS
  <2>1. CASE q = r
    BY <2>1, <1>2, <1>4 DEF TypeOK, Report
  <2>2. CASE q # r
    BY <2>2 DEF TypeOK, Report
  <2> QED BY <2>1, <2>2
<1> QED BY <1>3, <1>5 DEF TypeOK, Report, runVars, history

\* Every action keeps the types, given that an execution past its body has a
\* result (RunInv).
LEMMA TypeStep == TypeOK /\ RunInv /\ [Next]_vars => TypeOK'
<1> SUFFICES ASSUME TypeOK, RunInv, [Next]_vars PROVE TypeOK'
  OBVIOUS
<1> USE DEF runVars, history
<1>1. ASSUME NEW r \in Requests, Arrive(r) PROVE TypeOK'
  BY <1>1 DEF Arrive, TypeOK
<1>2. ASSUME NEW r \in Requests, Refuse(r) PROVE TypeOK'
  BY <1>2 DEF Refuse, TypeOK
<1>3. ASSUME NEW r \in Requests, TotalTimeout(r) PROVE TypeOK'
  BY <1>3 DEF TotalTimeout, TypeOK
<1>4. ASSUME NEW r \in Requests, CheckTimeout(r) PROVE TypeOK'
  BY <1>4 DEF CheckTimeout, TypeOK
<1>5. ASSUME NEW r \in Requests, SkipChecker(r) PROVE TypeOK'
  BY <1>5, ReportTyped DEF SkipChecker, Results
<1>6. ASSUME NEW r \in Requests, EnterRunOne(r) PROVE TypeOK'
  BY <1>6 DEF EnterRunOne, TypeOK
<1>7. ASSUME NEW r \in Requests, Join(r) PROVE TypeOK'
  <2>1. Current(r) \in Checkers
    BY <1>7, CurrentTyped DEF Join, TypeOK
  <2> QED BY <1>7, <2>1 DEF Join, TypeOK
<1>8. ASSUME NEW r \in Requests, Launch(r) PROVE TypeOK'
  <2>1. Current(r) \in Checkers
    BY <1>8, CurrentTyped DEF Launch, TypeOK
  <2>2. /\ inflight' \in [Checkers -> Requests \cup {None}]
        /\ phase' \in [Checkers ->
                [Requests -> {"none", "run", "close", "clear", "end"}]]
        /\ ent' \in [Requests -> Requests \cup {None}]
        /\ pc' \in [Requests -> {"new", "next", "enter", "await", "done"}]
    BY <1>8, <2>1 DEF Launch, TypeOK
  <2>3. \A q \in Requests :
        /\ pc'[q] \in {"enter", "await"} => Len(results[q]) < Len(CheckerList)
        /\ pc'[q] = "await" => ent'[q] # None
    BY <1>8, NoneAssumption DEF Launch, TypeOK
  <2> QED BY <1>8, <2>2, <2>3 DEF Launch, TypeOK
<1>9. ASSUME NEW r \in Requests, ReceiveResult(r) PROVE TypeOK'
  <2>1. Len(results[r]) < Len(CheckerList) /\ ent[r] \in Requests
    BY <1>9 DEF ReceiveResult, TypeOK
  <2>2. Current(r) \in Checkers
    BY <2>1, CurrentTyped
  <2>3. result[Current(r)][ent[r]] \in Results \cup {"none"}
    BY <2>1, <2>2 DEF TypeOK
  <2>4. result[Current(r)][ent[r]] # "none"
    BY <1>9, <2>1, <2>2 DEF ReceiveResult, RunInv, Done
  <2> QED BY <1>9, <2>1, <2>3, <2>4, ReportTyped DEF ReceiveResult
<1>10. ASSUME NEW r \in Requests, GiveUp(r) PROVE TypeOK'
  <2>1. Len(results[r]) < Len(CheckerList)
    BY <1>10 DEF GiveUp, TypeOK
  <2> QED BY <1>10, <2>1, ReportTyped DEF GiveUp, Results
<1>11. ASSUME NEW r \in Requests, Respond(r) PROVE TypeOK'
  <2>1. results' \in [Requests -> Seq(Results)]
    BY <1>11 DEF Respond, Answer, TypeOK
  <2>2. \A q \in Requests :
        /\ Len(results'[q]) <= Len(CheckerList)
        /\ pc'[q] \in {"enter", "await"} => Len(results'[q]) < Len(CheckerList)
        /\ pc'[q] = "await" => ent'[q] # None
    <3>1. /\ results' = [results EXCEPT ![r] = <<>>]
          /\ pc' = [pc EXCEPT ![r] = "done"] /\ ent' = ent
      BY <1>11 DEF Respond, Answer
    <3> QED BY <3>1, CheckerAt DEF TypeOK
  <2>3. status' \in [Requests -> {0, 200, 405, 503}]
    BY <1>11 DEF Respond, Answer, TypeOK
  <2> QED BY <1>11, <2>1, <2>2, <2>3 DEF Respond, Answer, TypeOK
<1>12. ASSUME NEW k \in Checkers, NEW q \in Requests, CheckerReturns(k, q)
       PROVE  TypeOK'
  BY <1>12 DEF CheckerReturns, TypeOK
<1>13. ASSUME NEW k \in Checkers, NEW q \in Requests, CloseDone(k, q)
       PROVE  TypeOK'
  BY <1>13 DEF CloseDone, TypeOK
<1>14. ASSUME NEW k \in Checkers, NEW q \in Requests, ClearInflight(k, q)
       PROVE  TypeOK'
  BY <1>14 DEF ClearInflight, TypeOK
<1>15. CASE UNCHANGED vars
  BY <1>15 DEF vars, TypeOK
<1> QED
  BY <1>1, <1>2, <1>3, <1>4, <1>5, <1>6, <1>7, <1>8, <1>9, <1>10, <1>11,
     <1>12, <1>13, <1>14, <1>15
  DEF Next, Handle, Release

\* Only Launch and the execution goroutine touch what RunInv speaks of.
LEMMA RunInvStep == TypeOK /\ RunInv /\ [Next]_vars => RunInv'
<1> SUFFICES ASSUME TypeOK, RunInv, [Next]_vars PROVE RunInv'
  OBVIOUS
<1>1. CASE UNCHANGED runVars
  BY <1>1 DEF RunInv, runVars
<1>2. ASSUME NEW r \in Requests, Launch(r) PROVE RunInv'
  <2>1. Current(r) \in Checkers
    BY <1>2, CurrentTyped DEF Launch, TypeOK
  <2>2. phase[Current(r)][r] \notin {"run", "close", "clear"}
    BY <1>2, <2>1, NoneAssumption DEF Launch, RunInv
  <2> QED BY <1>2, <2>1, <2>2, NoneAssumption DEF Launch, RunInv, TypeOK
<1>3. ASSUME NEW k \in Checkers, NEW q \in Requests, CheckerReturns(k, q)
      PROVE  RunInv'
  BY <1>3 DEF CheckerReturns, RunInv, TypeOK, Results
<1>4. ASSUME NEW k \in Checkers, NEW q \in Requests, CloseDone(k, q)
      PROVE  RunInv'
  BY <1>4 DEF CloseDone, RunInv, TypeOK
<1>5. ASSUME NEW k \in Checkers, NEW q \in Requests, ClearInflight(k, q)
      PROVE  RunInv'
  BY <1>5, NoneAssumption DEF ClearInflight, RunInv, TypeOK
<1> QED
  BY <1>1, <1>2, <1>3, <1>4, <1>5
  DEF Next, Handle, Release, Arrive, Refuse, TotalTimeout, CheckTimeout,
      SkipChecker, EnterRunOne, Join, ReceiveResult, GiveUp, Report, Respond,
      Answer, vars, runVars

\* In the initial state every variable has its type and nothing runs.
LEMMA InitTypedRun == Init => TypeOK /\ RunInv
<1> SUFFICES ASSUME Init PROVE TypeOK /\ RunInv
  OBVIOUS
<1>1. TypeOK
  BY CheckerAt DEF Init, TypeOK
<1>2. RunInv
  BY NoneAssumption DEF Init, RunInv
<1> QED BY <1>1, <1>2

\* The inductive invariant behind the theorems about executions.
LEMMA RunInvariant == Spec => [](TypeOK /\ RunInv)
<1>1. TypeOK /\ RunInv /\ [Next]_vars => TypeOK' /\ RunInv'
  BY TypeStep, RunInvStep
<1> QED BY InitTypedRun, <1>1, PTL DEF Spec

\* Every variable stays in its range.
THEOREM TypeCorrect == Spec => []TypeOK
BY RunInvariant, PTL

\* At most one goroutine per checker runs it, however many probes there are
\* and however long a checker blocks (health.go package doc, runOne).
THEOREM AtMostOneRun == Spec => []OneRunPerChecker
<1>1. TypeOK /\ RunInv => OneRunPerChecker
  BY DEF RunInv, OneRunPerChecker
<1> QED BY RunInvariant, <1>1, PTL

\* A request never joins an execution whose goroutine is done with its entry.
THEOREM JoinsLiveExecution == Spec => []InflightIsLive
<1>1. TypeOK /\ RunInv => InflightIsLive
  BY DEF TypeOK, RunInv, InflightIsLive
<1> QED BY RunInvariant, <1>1, PTL

-----------------------------------------------------------------------------
(* What an answer of 200 says.                                             *)

\* The length of the checks array before and after a report.
LEMMA ReportResults ==
  ASSUME TypeOK, NEW r \in Requests, NEW code \in Results, Report(r, code)
  PROVE  /\ results'[r] = Append(results[r], code)
         /\ results[r] \in Seq(Results)
         /\ Len(results[r]) \in Nat /\ Len(results'[r]) = Len(results[r]) + 1
         /\ results'[r][Len(results[r]) + 1] = code
         /\ \A i \in 1..Len(results[r]) : results'[r][i] = results[r][i]
         /\ pc'[r] = "next"
         /\ \A q \in Requests : q # r =>
                results'[q] = results[q] /\ pc'[q] = pc[q] /\ ent'[q] = ent[q]
         /\ UNCHANGED <<phase, result, inflight, seenOver>>
BY DEF TypeOK, Report, runVars, history

\* Which report an action that appends to the checks array makes.
LEMMA Reporting ==
  ASSUME TypeOK, RunInv, NEW r \in Requests,
         SkipChecker(r) \/ ReceiveResult(r) \/ GiveUp(r)
  PROVE  /\ Len(results[r]) < Len(CheckerList)
         /\ pc[r] \in {"next", "await"}
         /\ \E code \in Results :
                /\ Report(r, code)
                /\ code = "ok" =>
                    /\ pc[r] = "await" /\ Done(Current(r), ent[r])
                    /\ ent[r] \in Requests /\ Current(r) \in Checkers
                    /\ result[Current(r)][ent[r]] = "ok"
<1>1. CASE SkipChecker(r)
  BY <1>1 DEF SkipChecker, Results
<1>2. CASE GiveUp(r)
  BY <1>2 DEF GiveUp, Results, TypeOK
<1>3. CASE ReceiveResult(r)
  <2>1. /\ Len(results[r]) < Len(CheckerList) /\ ent[r] \in Requests
        /\ pc[r] = "await"
    BY <1>3 DEF ReceiveResult, TypeOK
  <2>2. Current(r) \in Checkers
    BY <2>1, CurrentTyped
  <2>3. result[Current(r)][ent[r]] \in Results
    BY <1>3, <2>1, <2>2 DEF ReceiveResult, RunInv, Done, TypeOK
  <2> QED BY <1>3, <2>1, <2>2, <2>3 DEF ReceiveResult
<1> QED BY <1>1, <1>2, <1>3

\* What an execution goroutine may do to phase and result.
LEMMA GoroutineSteps ==
  ASSUME TypeOK, NEW k \in Checkers, NEW q \in Requests,
         CheckerReturns(k, q) \/ CloseDone(k, q) \/ ClearInflight(k, q)
  PROVE  /\ UNCHANGED <<pc, results, ent, seenOver, status>>
         /\ \A j \in Checkers, p \in Requests :
            /\ phase[j][p] = "none" => phase'[j][p] = "none"
            /\ phase[j][p] = "end" => phase'[j][p] = "end"
            /\ phase[j][p] \in {"clear", "end"} =>
                /\ phase'[j][p] \in {"clear", "end"}
                /\ result'[j][p] = result[j][p]
<1>1. CASE CheckerReturns(k, q)
  BY <1>1 DEF CheckerReturns, TypeOK, history
<1>2. CASE CloseDone(k, q)
  BY <1>2 DEF CloseDone, TypeOK, history
<1>3. CASE ClearInflight(k, q)
  BY <1>3 DEF ClearInflight, TypeOK, history
<1> QED BY <1>1, <1>2, <1>3

\* What Launch does: the request's first execution of its current checker.
LEMMA LaunchStep ==
  ASSUME TypeOK, AheadInv, NEW r \in Requests, Launch(r)
  PROVE  /\ Current(r) \in Checkers
         /\ phase[Current(r)][r] = "none"
         /\ pc[r] = "enter" /\ pc' = [pc EXCEPT ![r] = "await"]
         /\ ent' = [ent EXCEPT ![r] = r]
         /\ UNCHANGED <<results, result, seenOver>>
         /\ \A j \in Checkers, q \in Requests :
                phase'[j][q] = IF j = Current(r) /\ q = r THEN "run"
                               ELSE phase[j][q]
<1>1. Len(results[r]) < Len(CheckerList) /\ pc[r] = "enter"
  BY DEF Launch, TypeOK
<1>2. /\ Len(results[r]) \in Nat /\ Current(r) \in Checkers
      /\ Len(results[r]) + 1 \in 1..Len(CheckerList)
  BY <1>1, CurrentTyped
<1>3. phase[Current(r)][r] = "none"
  <2>1. Ahead(r, Len(results[r]) + 1)
    BY <1>1 DEF AheadInv
  <2> QED BY <1>2, <2>1 DEF Ahead, Current
<1>4. phase' = [phase EXCEPT ![Current(r)][r] = "run"]
  BY DEF Launch
<1>5. \A j \in Checkers, q \in Requests :
        phase'[j][q] = IF j = Current(r) /\ q = r THEN "run" ELSE phase[j][q]
  BY <1>2, <1>4 DEF TypeOK
<1> QED BY <1>1, <1>2, <1>3, <1>5 DEF Launch, history

\* The remaining steps do not touch an execution, or move a request inside
\* the part of its code where nothing is launched.
LEMMA AheadStep == TypeOK /\ RunInv /\ AheadInv /\ [Next]_vars => AheadInv'
<1> SUFFICES ASSUME TypeOK, RunInv, AheadInv, [Next]_vars PROVE AheadInv'
  OBVIOUS
<1>1. ASSUME NEW r \in Requests,
             Arrive(r) \/ Refuse(r) \/ EnterRunOne(r) \/ Join(r) \/ Respond(r)
      PROVE  AheadInv'
  <2>1. UNCHANGED phase
    BY <1>1 DEF Arrive, Refuse, EnterRunOne, Join, Respond, Answer, runVars
  <2>2. \A q \in Requests : q # r => pc'[q] = pc[q] /\ results'[q] = results[q]
    BY <1>1 DEF Arrive, Refuse, EnterRunOne, Join, Respond, Answer, TypeOK
  <2>3. \/ pc'[r] = "done"
        \/ /\ pc[r] \in {"new", "next", "enter"} /\ results'[r] = results[r]
           /\ pc'[r] \in {"next", "enter", "await"}
    BY <1>1 DEF Arrive, Refuse, EnterRunOne, Join, Respond, Answer, TypeOK
  <2>4. Len(results[r]) \in Nat
    BY DEF TypeOK
  <2>5. \A q \in Requests, n \in Nat : Ahead(q, n) => Ahead(q, n)'
    BY <2>1 DEF Ahead
  <2>6. \A q \in Requests : Len(results[q]) \in Nat
    BY DEF TypeOK
  <2>7. Ahead(r, Len(results[r]) + 1) => Ahead(r, Len(results[r]) + 2)
    BY <2>4, CheckerAt DEF Ahead
  <2>8. pc'[r] = "new" => FALSE
    BY <2>3
  <2> QED BY <2>2, <2>3, <2>4, <2>5, <2>6, <2>7, <2>8 DEF AheadInv
<1>2. ASSUME NEW r \in Requests, SkipChecker(r) \/ ReceiveResult(r) \/ GiveUp(r)
      PROVE  AheadInv'
  <2>1. PICK code \in Results : Report(r, code)
    BY <1>2, Reporting
  <2>2. /\ pc[r] \in {"next", "await"} /\ pc'[r] = "next" /\ UNCHANGED phase
        /\ Len(results[r]) \in Nat /\ Len(results'[r]) = Len(results[r]) + 1
        /\ \A q \in Requests : q # r =>
                results'[q] = results[q] /\ pc'[q] = pc[q]
    BY <1>2, <2>1, Reporting, ReportResults
  <2>3. \A q \in Requests, n \in Nat : Ahead(q, n) => Ahead(q, n)'
    BY <2>2 DEF Ahead
  <2>4. Ahead(r, Len(results[r]) + 1) => Ahead(r, Len(results[r]) + 2)
    BY <2>2, CheckerAt DEF Ahead
  <2>5. Ahead(r, Len(results[r]) + 2)
    BY <2>2, <2>4 DEF AheadInv
  <2>6. Ahead(r, Len(results[r]) + 1)'
    BY <2>2, <2>5 DEF Ahead
  <2>7. \A q \in Requests : Len(results[q]) \in Nat
    BY DEF TypeOK
  <2> QED BY <2>2, <2>3, <2>6, <2>7 DEF AheadInv
<1>3. ASSUME NEW r \in Requests, Launch(r) PROVE AheadInv'
  <2>1. /\ Len(results[r]) \in Nat
        /\ Len(results[r]) + 1 \in 1..Len(CheckerList)
    BY <1>3, CurrentTyped DEF Launch, TypeOK
  <2>2. Ahead(r, Len(results[r]) + 1)
    BY <1>3 DEF Launch, AheadInv
  <2>3. \A i \in 1..Len(CheckerList) :
            i >= Len(results[r]) + 2 => CheckerList[i] # Current(r)
    BY <2>1, CheckersAssumption DEF Current
  <2>4. \A i \in 1..Len(CheckerList), q \in Requests :
            CheckerList[i] # Current(r) \/ q # r =>
                phase'[CheckerList[i]][q] = phase[CheckerList[i]][q]
    BY <1>3, LaunchStep, CheckerAt
  <2>5. UNCHANGED results /\ pc' = [pc EXCEPT ![r] = "await"]
    BY <1>3, LaunchStep
  <2>6. \A q \in Requests, n \in Nat : q # r => (Ahead(q, n) => Ahead(q, n)')
    BY <2>4 DEF Ahead
  <2>7. Ahead(r, Len(results[r]) + 2)'
    BY <2>1, <2>2, <2>3, <2>4, <2>5 DEF Ahead
  <2>8. pc'[r] = "await" /\ \A q \in Requests : q # r => pc'[q] = pc[q]
    BY <2>5 DEF TypeOK
  <2>9. \A q \in Requests : Len(results[q]) \in Nat
    BY DEF TypeOK
  <2> QED BY <2>5, <2>6, <2>7, <2>8, <2>9 DEF AheadInv
<1>4. ASSUME NEW k \in Checkers, NEW q \in Requests,
             CheckerReturns(k, q) \/ CloseDone(k, q) \/ ClearInflight(k, q)
      PROVE  AheadInv'
  <2>1. UNCHANGED <<pc, results>>
    BY <1>4, GoroutineSteps
  <2>2. \A i \in 1..Len(CheckerList), p \in Requests :
            phase[CheckerList[i]][p] = "none" => phase'[CheckerList[i]][p] = "none"
    BY <1>4, GoroutineSteps, CheckerAt
  <2> QED BY <2>1, <2>2 DEF AheadInv, Ahead
<1>5. CASE UNCHANGED <<pc, results, phase>>
  BY <1>5 DEF AheadInv, Ahead
<1> QED
  BY <1>1, <1>2, <1>3, <1>4, <1>5
  DEF Next, Handle, Release, TotalTimeout, CheckTimeout, vars, runVars

\* No execution leaves its end, and a launch is never of one that was over.
LEMMA OverStep ==
  TypeOK /\ AheadInv /\ OverInv /\ [Next]_vars => OverInv'
<1> SUFFICES ASSUME TypeOK, AheadInv, OverInv, [Next]_vars PROVE OverInv'
  OBVIOUS
<1>1. ASSUME NEW r \in Requests, Arrive(r) PROVE OverInv'
  <2>1. UNCHANGED phase
    BY <1>1 DEF Arrive, runVars
  <2>2. /\ \A q \in Requests : q # r => seenOver'[q] = seenOver[q]
        /\ seenOver'[r] = {x \in Checkers \X Requests : phase[x[1]][x[2]] = "end"}
    BY <1>1 DEF Arrive, TypeOK
  <2>3. \A k \in Checkers, q \in Requests :
            <<k, q>> \in seenOver'[r] => phase[k][q] = "end"
    BY <2>2
  <2> QED BY <2>1, <2>2, <2>3 DEF OverInv
<1>2. ASSUME NEW r \in Requests, Respond(r) PROVE OverInv'
  BY <1>2 DEF Respond, Answer, OverInv, TypeOK, runVars
<1>3. ASSUME NEW r \in Requests, Launch(r) PROVE OverInv'
  <2>1. /\ phase[Current(r)][r] = "none" /\ UNCHANGED seenOver
        /\ \A j \in Checkers, q \in Requests :
                phase'[j][q] = IF j = Current(r) /\ q = r THEN "run"
                               ELSE phase[j][q]
    BY <1>3, LaunchStep
  <2> QED BY <2>1 DEF OverInv
<1>4. ASSUME NEW k \in Checkers, NEW q \in Requests,
             CheckerReturns(k, q) \/ CloseDone(k, q) \/ ClearInflight(k, q)
      PROVE  OverInv'
  <2>1. UNCHANGED seenOver
    BY <1>4, GoroutineSteps
  <2>2. \A j \in Checkers, p \in Requests :
            phase[j][p] = "end" => phase'[j][p] = "end"
    BY <1>4, GoroutineSteps
  <2> QED BY <2>1, <2>2 DEF OverInv
<1>5. CASE UNCHANGED <<phase, seenOver>>
  BY <1>5 DEF OverInv
<1> QED
  BY <1>1, <1>2, <1>3, <1>4, <1>5
  DEF Next, Handle, Release, Refuse, TotalTimeout, CheckTimeout, SkipChecker,
      EnterRunOne, Join, ReceiveResult, GiveUp, Report, vars, runVars, history

\* A request starts to wait for an execution that still runs.
LEMMA JoinStep ==
  TypeOK /\ RunInv /\ AheadInv /\ OverInv /\ JoinInv /\ [Next]_vars => JoinInv'
<1> SUFFICES ASSUME TypeOK, RunInv, AheadInv, OverInv, JoinInv, [Next]_vars
    PROVE  JoinInv'
  OBVIOUS
<1>1. ASSUME NEW r \in Requests, pc'[r] # "await",
             \A q \in Requests : q # r =>
                /\ pc'[q] = pc[q] /\ ent'[q] = ent[q]
                /\ results'[q] = results[q] /\ seenOver'[q] = seenOver[q]
      PROVE  JoinInv'
  BY <1>1 DEF JoinInv, Current
<1>2. ASSUME NEW r \in Requests, Join(r) \/ Launch(r) PROVE JoinInv'
  <2>1. Current(r) \in Checkers
    BY <1>2, CurrentTyped DEF Join, Launch, TypeOK
  <2>2. ent'[r] \in Requests /\ phase[Current(r)][ent'[r]] # "end"
    <3>1. CASE Join(r)
      <4>1. ent'[r] = inflight[Current(r)] /\ inflight[Current(r)] # None
        BY <3>1 DEF Join, TypeOK
      <4>2. ent'[r] \in Requests
        BY <4>1, <2>1 DEF TypeOK
      <4> QED BY <4>1, <4>2, <2>1 DEF RunInv
    <3>2. CASE Launch(r)
      <4>1. ent'[r] = r
        BY <3>2 DEF Launch, TypeOK
      <4> QED BY <4>1, <3>2, LaunchStep
    <3> QED BY <1>2, <3>1, <3>2
  <2>3. <<Current(r), ent'[r]>> \notin seenOver[r]
    BY <2>1, <2>2 DEF OverInv
  <2>4. /\ UNCHANGED <<results, seenOver>>
        /\ \A q \in Requests : q # r => pc'[q] = pc[q] /\ ent'[q] = ent[q]
    BY <1>2 DEF Join, Launch, TypeOK, history
  <2> QED BY <2>3, <2>4 DEF JoinInv, Current
<1>3. ASSUME NEW r \in Requests, SkipChecker(r) \/ ReceiveResult(r) \/ GiveUp(r)
      PROVE  JoinInv'
  <2>1. PICK code \in Results : Report(r, code)
    BY <1>3, Reporting
  <2> QED BY <1>1, <2>1, ReportResults
<1>4. ASSUME NEW r \in Requests,
             Arrive(r) \/ Refuse(r) \/ EnterRunOne(r) \/ Respond(r)
      PROVE  JoinInv'
  <2>1. pc'[r] # "await"
    BY <1>4 DEF Arrive, Refuse, EnterRunOne, Respond, Answer, TypeOK
  <2>2. \A q \in Requests : q # r =>
            /\ pc'[q] = pc[q] /\ ent'[q] = ent[q]
            /\ results'[q] = results[q] /\ seenOver'[q] = seenOver[q]
    BY <1>4 DEF Arrive, Refuse, EnterRunOne, Respond, Answer, TypeOK, history
  <2> QED BY <1>1, <2>1, <2>2
<1>5. CASE UNCHANGED <<pc, ent, results, seenOver>>
  BY <1>5 DEF JoinInv, Current
<1> QED
  BY <1>2, <1>3, <1>4, <1>5
  DEF Next, Handle, Release, TotalTimeout, CheckTimeout, CheckerReturns,
      CloseDone, ClearInflight, vars, runVars, history

\* An entry stays backed while executions go on.
LEMMA BackedStays ==
  ASSUME NEW r \in Requests, NEW i, CheckerList[i] \in Checkers, Backed(r, i),
         seenOver'[r] = seenOver[r],
         \A k \in Checkers, q \in Requests :
            phase[k][q] \in {"clear", "end"} =>
                phase'[k][q] \in {"clear", "end"} /\ result'[k][q] = result[k][q]
  PROVE  Backed(r, i)'
BY DEF Backed

\* A report of ok repeats the result of an execution that is done.
LEMMA BackedStep ==
  /\ TypeOK /\ RunInv /\ AheadInv /\ OverInv /\ JoinInv /\ BackedInv
  /\ [Next]_vars
  => BackedInv'
<1> SUFFICES ASSUME TypeOK, RunInv, AheadInv, OverInv, JoinInv, BackedInv,
                    [Next]_vars
    PROVE  BackedInv'
  OBVIOUS
<1>1. \A q \in Requests : \A i \in 1..Len(results[q]) : CheckerList[i] \in Checkers
  BY CheckerAt DEF TypeOK
<1>2. ASSUME UNCHANGED <<results, seenOver>>,
             \A k \in Checkers, q \in Requests :
                phase[k][q] \in {"clear", "end"} =>
                    /\ phase'[k][q] \in {"clear", "end"}
                    /\ result'[k][q] = result[k][q]
      PROVE  BackedInv'
  BY <1>1, <1>2, BackedStays DEF BackedInv
<1>3. ASSUME NEW r \in Requests, Arrive(r) \/ Respond(r) PROVE BackedInv'
  <2>1. results'[r] = <<>>
    BY <1>3 DEF Arrive, Respond, Answer, AheadInv, TypeOK
  <2>2. /\ UNCHANGED <<phase, result>>
        /\ \A q \in Requests : q # r =>
                results'[q] = results[q] /\ seenOver'[q] = seenOver[q]
    BY <1>3 DEF Arrive, Respond, Answer, TypeOK, runVars
  <2>3. \A i \in 1..Len(results'[r]) : FALSE
    BY <2>1
  <2> QED BY <2>2, <2>3 DEF BackedInv, Backed
<1>4. ASSUME NEW r \in Requests, SkipChecker(r) \/ ReceiveResult(r) \/ GiveUp(r)
      PROVE  BackedInv'
  <2>1. PICK code \in Results :
            /\ Report(r, code)
            /\ code = "ok" =>
                /\ pc[r] = "await" /\ Done(Current(r), ent[r])
                /\ ent[r] \in Requests /\ Current(r) \in Checkers
                /\ result[Current(r)][ent[r]] = "ok"
    BY <1>4, Reporting
  <2>2. /\ Len(results[r]) \in Nat /\ Len(results'[r]) = Len(results[r]) + 1
        /\ results'[r][Len(results[r]) + 1] = code
        /\ \A i \in 1..Len(results[r]) : results'[r][i] = results[r][i]
        /\ \A q \in Requests : q # r => results'[q] = results[q]
        /\ UNCHANGED <<phase, result, seenOver>>
    BY <2>1, ReportResults
  <2>3. code = "ok" => Backed(r, Len(results[r]) + 1)
    BY <2>1 DEF JoinInv, Done, Backed, Current
  <2>4. \A i \in 1..Len(results'[r]) : results'[r][i] = "ok" => Backed(r, i)
    BY <2>2, <2>3 DEF BackedInv
  <2> QED BY <2>2, <2>4 DEF BackedInv, Backed
<1>5. ASSUME NEW r \in Requests, Launch(r) PROVE BackedInv'
  <2>1. /\ phase[Current(r)][r] = "none"
        /\ UNCHANGED <<results, result, seenOver>>
        /\ \A j \in Checkers, q \in Requests :
                phase'[j][q] = IF j = Current(r) /\ q = r THEN "run"
                               ELSE phase[j][q]
    BY <1>5, LaunchStep
  <2> QED BY <1>2, <2>1
<1>6. ASSUME NEW k \in Checkers, NEW q \in Requests,
             CheckerReturns(k, q) \/ CloseDone(k, q) \/ ClearInflight(k, q)
      PROVE  BackedInv'
  BY <1>2, <1>6, GoroutineSteps
<1>7. CASE UNCHANGED <<results, phase, result, seenOver>>
  BY <1>2, <1>7
<1> QED
  BY <1>3, <1>4, <1>5, <1>6, <1>7
  DEF Next, Handle, Release, Refuse, TotalTimeout, CheckTimeout, EnterRunOne,
      Join, vars, runVars, history

\* The inductive invariant behind OKMeansAllHealthy.
LEMMA OrderInvariant == Spec => [](TypeOK /\ RunInv /\ OrderInv)
<1>1. Init => TypeOK /\ RunInv /\ OrderInv
  <2> SUFFICES ASSUME Init PROVE TypeOK /\ RunInv /\ OrderInv
    OBVIOUS
  <2>1. TypeOK /\ RunInv
    BY InitTypedRun
  <2>2. AheadInv
    BY CheckerAt DEF Init, AheadInv, Ahead
  <2>3. OverInv /\ JoinInv
    BY DEF Init, OverInv, JoinInv
  <2>4. BackedInv
    BY DEF Init, BackedInv
  <2> QED BY <2>1, <2>2, <2>3, <2>4 DEF OrderInv
<1>2. /\ TypeOK /\ RunInv /\ OrderInv /\ [Next]_vars
      => TypeOK' /\ RunInv' /\ OrderInv'
  BY TypeStep, RunInvStep, AheadStep, OverStep, JoinStep, BackedStep
  DEF OrderInv
<1> QED BY <1>1, <1>2, PTL DEF Spec

\* An execution that a probe shares, though it was done when the probe came,
\* had still its entry to clear: the window that the run readiness_window shows
\* between close of done and the clearing is the only way to a result from
\* before the request (health.go runOne).
THEOREM StaleOnlyInWindow == Spec => []JoinInv
<1>1. OrderInv => JoinInv
  BY DEF OrderInv
<1> QED BY <1>1, OrderInvariant, PTL

\* Only Respond writes the status 200.
LEMMA AnswerStep ==
  ASSUME TypeOK, NEW r \in Requests, status[r] = 0, status'[r] = 200,
         [Next]_vars
  PROVE  Respond(r)
<1>1. \A q \in Requests : Refuse(q) => status'[r] # 200
  BY DEF Refuse, TypeOK
<1>2. \A q \in Requests : Respond(q) /\ q # r => status'[r] = 0
  BY DEF Respond, Answer, TypeOK
<1>3. status' # status
  OBVIOUS
<1> QED
  BY <1>1, <1>2, <1>3
  DEF Next, Handle, Release, Arrive, TotalTimeout, CheckTimeout, SkipChecker,
      EnterRunOne, Join, Launch, ReceiveResult, GiveUp, Report, CheckerReturns,
      CloseDone, ClearInflight, vars, runVars, history

\* /ready answers 200 only when every registered checker returned nil in an
\* execution that was not over when the request arrived.
THEOREM ReadyMeansHealthy == Spec => OKMeansAllHealthy
<1> DEFINE Healthy(r) ==
        \A k \in Checkers : \E q \in Requests :
            result[k][q] = "ok" /\ <<k, q>> \notin seenOver[r]
<1>1. TypeOK /\ RunInv /\ OrderInv /\ [Next]_vars =>
        \A r \in Requests :
            status[r] = 0 /\ status'[r] = 200 => Healthy(r)
  <2> SUFFICES ASSUME TypeOK, OrderInv, [Next]_vars, NEW r \in Requests,
                      status[r] = 0, status'[r] = 200,
                      NEW k \in Checkers
      PROVE  \E q \in Requests :
                result[k][q] = "ok" /\ <<k, q>> \notin seenOver[r]
    OBVIOUS
  <2>1. Respond(r)
    BY AnswerStep
  <2>2. /\ Len(results[r]) = Len(CheckerList)
        /\ \A i \in 1..Len(results[r]) : results[r][i] = "ok"
    BY <2>1 DEF Respond, Answer, TypeOK
  <2>3. PICK i \in 1..Len(CheckerList) : k = CheckerList[i]
    BY CheckerAt
  <2>4. Backed(r, i)
    BY <2>2, <2>3 DEF OrderInv, BackedInv
  <2> QED BY <2>3, <2>4 DEF Backed
<1> QED BY <1>1, OrderInvariant, PTL DEF Spec, OKMeansAllHealthy

-----------------------------------------------------------------------------
(* The handler implements ReadinessService.                                *)

\* A probe is answered once.
StatusInv == \A r \in Requests : pc[r] # "done" => status[r] = 0

IInv == TypeOK /\ RunInv /\ OrderInv /\ StatusInv

\* Only an answer sets the status, and it ends the handler.
LEMMA StatusStep == TypeOK /\ StatusInv /\ [Next]_vars => StatusInv'
<1> SUFFICES ASSUME TypeOK, StatusInv, [Next]_vars PROVE StatusInv'
  OBVIOUS
<1>1. ASSUME NEW r \in Requests, Refuse(r) \/ Respond(r) PROVE StatusInv'
  <2>1. pc' = [pc EXCEPT ![r] = "done"]
    BY <1>1 DEF Refuse, Respond, Answer
  <2>2. \A q \in Requests : q # r => status'[q] = status[q] /\ pc'[q] = pc[q]
    BY <1>1 DEF Refuse, Respond, Answer, TypeOK
  <2> QED BY <2>1, <2>2 DEF StatusInv, TypeOK
<1>2. ASSUME NEW r \in Requests,
             \/ Arrive(r) \/ EnterRunOne(r) \/ Join(r) \/ Launch(r)
             \/ SkipChecker(r) \/ ReceiveResult(r) \/ GiveUp(r)
      PROVE  StatusInv'
  <2>1. UNCHANGED status /\ pc[r] # "done"
    BY <1>2
    DEF Arrive, EnterRunOne, Join, Launch, SkipChecker, ReceiveResult, GiveUp,
        Report
  <2>2. \A q \in Requests : q # r => pc'[q] = pc[q]
    BY <1>2
    DEF Arrive, EnterRunOne, Join, Launch, SkipChecker, ReceiveResult, GiveUp,
        Report, TypeOK
  <2> QED BY <2>1, <2>2 DEF StatusInv
<1>3. CASE UNCHANGED <<pc, status>>
  BY <1>3 DEF StatusInv
<1> QED
  BY <1>1, <1>2, <1>3
  DEF Next, Handle, Release, TotalTimeout, CheckTimeout, CheckerReturns,
      CloseDone, ClearInflight, vars

\* The service and the handler have the same checkers.
LEMMA ServiceCheckers == Service!Checkers = Checkers
BY DEF Service!Checkers, Checkers

\* What is seen does not change if no probe comes or goes and no result is
\* stored.
LEMMA SeenKept ==
  ASSUME \A r \in Requests : Running(r)' <=> Running(r),
         UNCHANGED seenOver,
         \A k \in Checkers, q \in Requests :
            /\ Stored(k, q)' <=> Stored(k, q)
            /\ Stored(k, q) => result'[k][q] = result[k][q]
  PROVE  Served' = Served /\ Seen' = Seen
<1>1. Served' = Served
  BY DEF Served
<1>2. ASSUME NEW r \in Requests, NEW k \in Checkers
      PROVE  SeenResults(r, k)' = SeenResults(r, k)
  BY DEF SeenResults
<1>3. ASSUME NEW r \in Requests, NEW k \in Checkers
      PROVE  (IF Running(r) THEN SeenResults(r, k) ELSE {})'
             = IF Running(r) THEN SeenResults(r, k) ELSE {}
  BY <1>2
<1> QED BY <1>1, <1>3 DEF Seen

\* What can be joined does not change with executions that go on.
LEMMA SlotsKept ==
  ASSUME TypeOK, UNCHANGED <<inflight, result>>,
         \A k \in Checkers, q \in Requests : phase'[k][q] = "run" <=> phase[k][q] = "run"
  PROVE  Slots' = Slots
<1>1. ASSUME NEW k \in Checkers PROVE Slot(k)' = Slot(k)
  BY DEF Slot, TypeOK
<1> QED BY <1>1 DEF Slots

\* Steps of the handler and of an execution that nobody sees.
LEMMA HiddenStep ==
  ASSUME TypeOK,
         \/ \E r \in Requests :
                TotalTimeout(r) \/ CheckTimeout(r) \/ EnterRunOne(r) \/ Join(r)
         \/ \E k \in Checkers, q \in Requests : CloseDone(k, q)
         \/ UNCHANGED vars
  PROVE  UNCHANGED Service!vars
<1>1. UNCHANGED <<results, status, seenOver, inflight, result>>
  BY DEF TotalTimeout, CheckTimeout, EnterRunOne, Join, CloseDone, vars,
         runVars, history
<1>2. \A r \in Requests : Running(r)' <=> Running(r)
  BY DEF TotalTimeout, CheckTimeout, EnterRunOne, Join, CloseDone, vars,
         Running, TypeOK
<1>3. \A k \in Checkers, q \in Requests :
        /\ Stored(k, q)' <=> Stored(k, q)
        /\ phase'[k][q] = "run" <=> phase[k][q] = "run"
  <2>1. ASSUME NEW j \in Checkers, NEW p \in Requests, CloseDone(j, p)
        PROVE  \A k \in Checkers, q \in Requests :
                /\ Stored(k, q)' <=> Stored(k, q)
                /\ phase'[k][q] = "run" <=> phase[k][q] = "run"
    BY <2>1 DEF CloseDone, Stored, TypeOK
  <2>2. CASE UNCHANGED phase
    BY <2>2 DEF Stored
  <2> QED
    BY <2>1, <2>2
    DEF TotalTimeout, CheckTimeout, EnterRunOne, Join, vars, runVars
<1>4. Served' = Served /\ Seen' = Seen
  BY <1>1, <1>2, <1>3, SeenKept
<1>5. Slots' = Slots
  BY <1>1, <1>3, SlotsKept
<1> QED BY <1>1, <1>4, <1>5 DEF Service!vars

\* A probe that is answered 405 is seen by no checker.
LEMMA RefuseStep ==
  ASSUME TypeOK, NEW r \in Requests, Refuse(r), StatusInv
  PROVE  Service!Refuse(r)
<1>1. \A q \in Requests : Running(q)' <=> Running(q)
  BY DEF Refuse, Running, TypeOK
<1>2. Served' = Served /\ Seen' = Seen
  BY <1>1, SeenKept DEF Refuse, runVars, history, Stored
<1>3. Slots' = Slots
  BY SlotsKept DEF Refuse, runVars
<1>4. r \notin Served
  BY DEF Refuse, Served, Running
<1>5. status[r] = 0
  BY DEF Refuse, StatusInv
<1> QED BY <1>2, <1>3, <1>4, <1>5 DEF Refuse, Service!Refuse

\* A probe comes: it may be given what can still be joined.
LEMMA ArriveStep ==
  ASSUME IInv, NEW r \in Requests, Arrive(r)
  PROVE  Service!Open(r)
<1> USE DEF IInv
<1>1. /\ \A q \in Requests : q # r => (Running(q)' <=> Running(q))
      /\ Running(r)' /\ ~Running(r)
  BY DEF Arrive, Running, TypeOK
<1>2. Served' = Served \cup {r} /\ r \notin Served
  BY <1>1 DEF Served
<1>3. Slots' = Slots
  BY SlotsKept DEF Arrive, runVars
<1>4. \A q \in Requests, k \in Checkers :
        q # r => SeenResults(q, k)' = SeenResults(q, k)
  BY DEF Arrive, runVars, SeenResults, Stored, TypeOK
<1>5. ASSUME NEW k \in Checkers
      PROVE  SeenResults(r, k)' = {Slot(k)} \cap Results
  <2>1. \A q \in Requests : <<k, q>> \in seenOver'[r] <=> phase[k][q] = "end"
    BY DEF Arrive, TypeOK
  <2>2. SeenResults(r, k)' =
            {result[k][q] : q \in {p \in Requests : phase[k][p] \in {"close", "clear"}}}
    BY <2>1 DEF Arrive, runVars, SeenResults, Stored
  <2>3. \A q \in Requests : phase[k][q] \in {"close", "clear"} =>
            inflight[k] = q /\ result[k][q] \in Results
    BY DEF RunInv, TypeOK
  <2>4. CASE inflight[k] = None
    BY <2>2, <2>3, <2>4, NoneAssumption DEF Slot, Results
  <2>5. CASE inflight[k] # None /\ phase[k][inflight[k]] = "run"
    BY <2>2, <2>3, <2>5 DEF Slot, Results
  <2>6. CASE inflight[k] # None /\ phase[k][inflight[k]] # "run"
    <3>1. /\ inflight[k] \in Requests
          /\ phase[k][inflight[k]] \in {"close", "clear"}
      BY <2>6 DEF RunInv, TypeOK
    <3>2. Slot(k) = result[k][inflight[k]] /\ Slot(k) \in Results
      BY <2>3, <2>6, <3>1 DEF Slot
    <3> QED BY <2>2, <2>3, <3>1, <3>2
  <2> QED BY <2>4, <2>5, <2>6
<1>6. Seen' = [Seen EXCEPT ![r] = [k \in Checkers |-> {Slots[k]} \cap Results]]
  BY <1>1, <1>4, <1>5 DEF Seen, Slots
<1>7. status[r] = 0
  BY DEF Arrive, StatusInv
<1> QED
  BY <1>2, <1>3, <1>6, <1>7, ServiceCheckers DEF Arrive, Service!Open, runVars

\* An entry: a timeout, or a stored result that was not over when r came.
LEMMA ReportStep ==
  ASSUME IInv, NEW r \in Requests,
         SkipChecker(r) \/ ReceiveResult(r) \/ GiveUp(r)
  PROVE  \E k \in Checkers, code \in Results : Service!Report(r, k, code)
<1> USE DEF IInv
<1>1. /\ Len(results[r]) < Len(CheckerList) /\ Running(r)
      /\ Current(r) \in Checkers
  BY Reporting, CurrentTyped DEF Running
<1>2. PICK code \in Results :
        /\ Report(r, code)
        /\ code = "timeout" \/ code \in SeenResults(r, Current(r))
  <2>1. CASE SkipChecker(r) \/ GiveUp(r)
    BY <2>1 DEF SkipChecker, GiveUp, Results
  <2>2. CASE ReceiveResult(r)
    <3>1. ent[r] \in Requests /\ pc[r] = "await"
      BY <2>2 DEF ReceiveResult, TypeOK
    <3>2. Stored(Current(r), ent[r])
      BY <2>2 DEF ReceiveResult, Done, Stored
    <3>3. result[Current(r)][ent[r]] \in Results
      BY <1>1, <3>1, <3>2 DEF RunInv, Stored, TypeOK
    <3>4. result[Current(r)][ent[r]] \in SeenResults(r, Current(r))
      BY <3>1, <3>2 DEF OrderInv, JoinInv, SeenResults
    <3> QED BY <2>2, <3>3, <3>4 DEF ReceiveResult
  <2> QED BY <2>1, <2>2
<1>3. /\ results' = [results EXCEPT ![r] = Append(results[r], code)]
      /\ UNCHANGED <<status, inflight, phase, result, seenOver>>
  BY <1>2 DEF Report, runVars, history
<1>4. \A q \in Requests : Running(q)' <=> Running(q)
  BY <1>1, <1>2 DEF Report, Running, TypeOK
<1>5. Served' = Served /\ Seen' = Seen
  BY <1>3, <1>4, SeenKept DEF Stored
<1>6. Slots' = Slots
  BY <1>3, SlotsKept
<1>7. Service!At(r, Current(r))
  BY <1>1 DEF Service!At, Served, Current
<1>8. Seen[r][Current(r)] = SeenResults(r, Current(r))
  BY <1>1 DEF Seen
<1>9. Service!Report(r, Current(r), code)
  BY <1>2, <1>3, <1>5, <1>6, <1>7, <1>8 DEF Service!Report
<1> QED BY <1>1, <1>9

\* The answer says what the entries say.
LEMMA RespondStep ==
  ASSUME IInv, NEW r \in Requests, Respond(r)
  PROVE  Service!Answer(r)
<1> USE DEF IInv
<1>1. /\ \A q \in Requests : q # r => (Running(q)' <=> Running(q))
      /\ Running(r) /\ ~Running(r)'
  BY DEF Respond, Answer, Running, TypeOK
<1>2. Served' = Served \ {r} /\ r \in Served
  BY <1>1 DEF Served
<1>3. Slots' = Slots
  BY SlotsKept DEF Respond, Answer, runVars
<1>4. \A q \in Requests, k \in Checkers :
        q # r => SeenResults(q, k)' = SeenResults(q, k)
  BY DEF Respond, Answer, runVars, SeenResults, Stored, TypeOK
<1>5. Seen' = [Seen EXCEPT ![r] = Service!Nothing]
  BY <1>1, <1>4, ServiceCheckers DEF Seen, Service!Nothing
<1>6. /\ Len(results[r]) = Len(CheckerList)
      /\ results' = [results EXCEPT ![r] = <<>>]
      /\ status' = [status EXCEPT ![r] =
            IF \A i \in 1..Len(CheckerList) : results[r][i] = "ok" THEN 200
            ELSE 503]
  BY DEF Respond, Answer
<1> QED BY <1>2, <1>3, <1>5, <1>6 DEF Service!Answer

\* A checker is called for a request that has come to it.
LEMMA LaunchesStep ==
  ASSUME IInv, NEW r \in Requests, Launch(r)
  PROVE  \E k \in Checkers : Service!Launch(k)
<1> USE DEF IInv
<1>1. /\ Current(r) \in Checkers /\ phase[Current(r)][r] = "none"
      /\ pc[r] = "enter" /\ pc' = [pc EXCEPT ![r] = "await"]
      /\ UNCHANGED <<results, result, seenOver>>
      /\ \A j \in Checkers, q \in Requests :
            phase'[j][q] = IF j = Current(r) /\ q = r THEN "run" ELSE phase[j][q]
  BY LaunchStep DEF OrderInv
<1>2. Len(results[r]) < Len(CheckerList)
  BY <1>1 DEF TypeOK
<1>3. \A q \in Requests : Running(q)' <=> Running(q)
  BY <1>1 DEF Running, TypeOK
<1>4. Served' = Served /\ Seen' = Seen
  BY <1>1, <1>3, SeenKept DEF Stored
<1>5. /\ inflight[Current(r)] = None /\ r # None
      /\ inflight' = [inflight EXCEPT ![Current(r)] = r]
  BY NoneAssumption DEF Launch
<1>6. ASSUME NEW k \in Checkers
      PROVE  Slot(k)' = IF k = Current(r) THEN "busy" ELSE Slot(k)
  <2>1. CASE k = Current(r)
    BY <1>1, <1>5, <2>1 DEF Slot, TypeOK
  <2>2. CASE k # Current(r)
    <3>1. inflight'[k] = inflight[k] /\ inflight[k] \in Requests \cup {None}
      BY <1>5, <2>2 DEF TypeOK
    <3> QED BY <1>1, <2>2, <3>1 DEF Slot
  <2> QED BY <2>1, <2>2
<1>7. Slots' = [Slots EXCEPT ![Current(r)] = "busy"]
  BY <1>6 DEF Slots
<1>8. Slots[Current(r)] = "free"
  BY <1>1, <1>5 DEF Slots, Slot
<1>9. r \in Served /\ Service!At(r, Current(r))
  BY <1>1, <1>2 DEF Served, Running, Service!At, Current
<1>10. UNCHANGED status
  BY DEF Launch
<1>11. Service!Launch(Current(r))
  BY <1>1, <1>4, <1>7, <1>8, <1>9, <1>10 DEF Service!Launch
<1> QED BY <1>1, <1>11

\* A checker returns: every request that is there may be given the result.
LEMMA ReturnsStep ==
  ASSUME IInv, NEW k \in Checkers, NEW q \in Requests, CheckerReturns(k, q)
  PROVE  \E code \in Results : Service!Return(k, code)
<1> USE DEF IInv
<1>1. PICK code \in Results :
        /\ phase[k][q] = "run"
        /\ result' = [result EXCEPT ![k][q] = code]
        /\ phase' = [phase EXCEPT ![k][q] = "close"]
        /\ UNCHANGED <<pc, results, status, inflight, seenOver>>
  BY DEF CheckerReturns, history
<1>2. /\ \A j \in Checkers, p \in Requests :
            /\ result'[j][p] = IF j = k /\ p = q THEN code ELSE result[j][p]
            /\ phase'[j][p] = IF j = k /\ p = q THEN "close" ELSE phase[j][p]
  BY <1>1 DEF TypeOK
<1>3. inflight[k] = q /\ q # None
  BY <1>1, NoneAssumption DEF RunInv
<1>4. Served' = Served
  BY <1>1 DEF Served, Running
<1>5. ASSUME NEW j \in Checkers
      PROVE  Slot(j)' = IF j = k THEN code ELSE Slot(j)
  <2>1. CASE j = k
    BY <1>1, <1>2, <1>3, <2>1 DEF Slot
  <2>2. CASE j # k
    BY <1>1, <1>2, <2>2 DEF Slot, TypeOK
  <2> QED BY <2>1, <2>2
<1>6. Slots' = [Slots EXCEPT ![k] = code]
  BY <1>5 DEF Slots
<1>7. Slots[k] = "busy"
  BY <1>1, <1>3 DEF Slots, Slot
<1>8. ASSUME NEW r \in Requests, NEW j \in Checkers
      PROVE  SeenResults(r, j)' =
                IF j = k THEN SeenResults(r, j) \cup {code} ELSE SeenResults(r, j)
  <2>1. CASE j = k
    <3>1. <<k, q>> \notin seenOver[r]
      BY <1>1 DEF OrderInv, OverInv
    <3>2. \A p \in Requests : Stored(k, p)' <=> (p = q \/ Stored(k, p))
      BY <1>2 DEF Stored
    <3>3. ~Stored(k, q)
      BY <1>1 DEF Stored
    <3>4. seenOver' = seenOver
      BY <1>1
    <3>5. /\ result'[k][q] = code
          /\ \A p \in Requests : Stored(k, p) => result'[k][p] = result[k][p]
      BY <1>2, <3>3
    <3>6. \A x : x \in SeenResults(r, k)' <=> x \in SeenResults(r, k) \cup {code}
      BY <3>1, <3>2, <3>4, <3>5 DEF SeenResults
    <3> QED BY <2>1, <3>6
  <2>2. CASE j # k
    BY <1>1, <1>2, <2>2 DEF SeenResults, Stored
  <2> QED BY <2>1, <2>2
<1>9. Seen' = [r \in Requests |->
        IF r \in Served THEN [Seen[r] EXCEPT ![k] = Seen[r][k] \cup {code}]
        ELSE Seen[r]]
  <2>1. \A r \in Requests : Running(r)' <=> Running(r)
    BY <1>1 DEF Running
  <2>2. \A r \in Requests : Running(r) <=> r \in Served
    BY DEF Served
  <2>3. ASSUME NEW r \in Requests
        PROVE  [j \in Checkers |-> IF Running(r) THEN SeenResults(r, j) ELSE {}]'
               = IF r \in Served THEN [Seen[r] EXCEPT ![k] = Seen[r][k] \cup {code}]
                 ELSE Seen[r]
    BY <1>8, <2>1, <2>2 DEF Seen
  <2> QED BY <2>3 DEF Seen
<1> QED BY <1>1, <1>4, <1>6, <1>7, <1>9 DEF Service!Return

\* The execution in flight is forgotten; what it returned stays seen.
LEMMA ClearStep ==
  ASSUME IInv, NEW k \in Checkers, NEW q \in Requests, ClearInflight(k, q)
  PROVE  Service!Clear(k)
<1> USE DEF IInv
<1>1. /\ phase[k][q] = "clear"
      /\ inflight' = [inflight EXCEPT ![k] = None]
      /\ phase' = [phase EXCEPT ![k][q] = "end"]
      /\ UNCHANGED <<pc, results, status, result, seenOver>>
  BY DEF ClearInflight, history
<1>2. \A j \in Checkers, p \in Requests :
        phase'[j][p] = IF j = k /\ p = q THEN "end" ELSE phase[j][p]
  BY <1>1 DEF TypeOK
<1>3. inflight[k] = q /\ q # None /\ result[k][q] \in Results
  BY <1>1, NoneAssumption DEF RunInv, TypeOK
<1>4. Served' = Served /\ Seen' = Seen
  <2>1. \A r \in Requests : Running(r)' <=> Running(r)
    BY <1>1 DEF Running
  <2>2. \A j \in Checkers, p \in Requests : Stored(j, p)' <=> Stored(j, p)
    BY <1>1, <1>2 DEF Stored
  <2> QED BY <1>1, <2>1, <2>2, SeenKept
<1>5. ASSUME NEW j \in Checkers
      PROVE  Slot(j)' = IF j = k THEN "free" ELSE Slot(j)
  BY <1>1, <1>2 DEF Slot, TypeOK
<1>6. Slots' = [Slots EXCEPT ![k] = "free"]
  BY <1>5 DEF Slots
<1>7. Slots[k] \in Results
  BY <1>1, <1>3 DEF Slots, Slot
<1> QED BY <1>1, <1>4, <1>6, <1>7 DEF Service!Clear

\* IInv is an invariant of the handler.
LEMMA Invariant == Spec => []IInv
<1>1. Init => StatusInv
  BY DEF Init, StatusInv
<1>2. TypeOK /\ StatusInv /\ [Next]_vars => StatusInv'
  BY StatusStep
<1> QED BY <1>1, <1>2, OrderInvariant, PTL DEF Spec, IInv

\* Every step of the handler and of its executions is a step of the service,
\* or one that nobody sees.
LEMMA ServiceStep == IInv /\ [Next]_vars => [Service!Next]_(Service!vars)
<1> SUFFICES ASSUME IInv, [Next]_vars PROVE [Service!Next]_(Service!vars)
  OBVIOUS
<1>1. ASSUME NEW r \in Requests, Arrive(r) PROVE Service!Next
  BY <1>1, ArriveStep DEF Service!Next
<1>2. ASSUME NEW r \in Requests, Refuse(r) PROVE Service!Next
  BY <1>2, RefuseStep DEF Service!Next, IInv
<1>3. ASSUME NEW r \in Requests, Respond(r) PROVE Service!Next
  BY <1>3, RespondStep DEF Service!Next
<1>4. ASSUME NEW r \in Requests, SkipChecker(r) \/ ReceiveResult(r) \/ GiveUp(r)
      PROVE  Service!Next
  <2>1. PICK k \in Checkers, code \in Results : Service!Report(r, k, code)
    BY <1>4, ReportStep
  <2>2. r \in Served
    BY <2>1 DEF Service!Report, Service!At
  <2> QED BY <2>1, <2>2, ServiceCheckers DEF Service!Next
<1>5. ASSUME NEW r \in Requests, Launch(r) PROVE Service!Next
  BY <1>5, LaunchesStep, ServiceCheckers DEF Service!Next
<1>6. ASSUME NEW k \in Checkers, NEW q \in Requests, CheckerReturns(k, q)
      PROVE  Service!Next
  BY <1>6, ReturnsStep, ServiceCheckers DEF Service!Next
<1>7. ASSUME NEW k \in Checkers, NEW q \in Requests, ClearInflight(k, q)
      PROVE  Service!Next
  BY <1>7, ClearStep, ServiceCheckers DEF Service!Next
<1>8. CASE \/ \E r \in Requests :
                TotalTimeout(r) \/ CheckTimeout(r) \/ EnterRunOne(r) \/ Join(r)
           \/ \E k \in Checkers, q \in Requests : CloseDone(k, q)
           \/ UNCHANGED vars
  BY <1>8, HiddenStep DEF IInv
<1> QED
  BY <1>1, <1>2, <1>3, <1>4, <1>5, <1>6, <1>7, <1>8 DEF Next, Handle, Release

\* runOne, awaitInflight and the execution goroutine together are the endpoint
\* of ReadinessService, for any number of probes and any list of checkers.
THEOREM ReadinessImplementsService == Spec => ImplementsService
<1>1. Init => Service!Init
  <2> SUFFICES ASSUME Init PROVE Service!Init
    OBVIOUS
  <2>1. Served = {}
    BY DEF Init, Served, Running
  <2>2. Slots = [k \in Service!Checkers |-> "free"]
    BY ServiceCheckers DEF Init, Slots, Slot
  <2>3. Seen = [r \in Requests |-> Service!Nothing]
    BY ServiceCheckers DEF Init, Seen, Running, Service!Nothing
  <2> QED BY <2>1, <2>2, <2>3 DEF Init, Service!Init
<1>2. IInv /\ [Next]_vars => [Service!Next]_(Service!vars)
  BY ServiceStep
<1> QED
  BY <1>1, <1>2, Invariant, PTL DEF Spec, ImplementsService, Service!Spec

-----------------------------------------------------------------------------
(* How much a probe and a checker can cost.                                *)

\* Checker k has one goroutine at most, counting those that are past the
\* checker's own code and have still to close done or to clear the entry.
OneGoroutinePerChecker ==
    \A k \in Checkers, p, q \in Requests :
        {phase[k][p], phase[k][q]} \subseteq {"run", "close", "clear"} => p = q

\* The handler leaves no more goroutines behind than it has checkers, even if
\* every probe gives up and every checker blocks (health.go runOne).
THEOREM AtMostOneGoroutine == Spec => []OneGoroutinePerChecker
<1>1. TypeOK /\ RunInv => OneGoroutinePerChecker
  BY DEF RunInv, OneGoroutinePerChecker
<1> QED BY RunInvariant, <1>1, PTL

\* The steps of its handler that are left to a probe: three for each checker
\* and two more.
StepsLeft(r) ==
    CASE pc[r] = "new"   -> 3 * Len(CheckerList) + 2
      [] pc[r] = "next"  -> 3 * (Len(CheckerList) - Len(results[r])) + 1
      [] pc[r] = "enter" -> 3 * (Len(CheckerList) - Len(results[r]))
      [] pc[r] = "await" -> 3 * (Len(CheckerList) - Len(results[r])) - 1
      [] OTHER           -> 0

\* Each step of its handler brings a probe nearer to its answer, and nothing
\* else that happens takes it away from it: no other probe, no checker, no
\* execution that it shares.
ProbeBounded ==
    [][\A r \in Requests :
        /\ StepsLeft(r) \in 0..(3 * Len(CheckerList) + 2)
        /\ StepsLeft(r)' <= StepsLeft(r)
        /\ Arrive(r) \/ Refuse(r) \/ Handle(r) =>
                StepsLeft(r)' < StepsLeft(r)]_vars

\* Where a probe is: never past the end of the list.
LEMMA StepsTyped ==
  ASSUME TypeOK, AheadInv, NEW r \in Requests
  PROVE  /\ Len(CheckerList) \in Nat /\ Len(results[r]) \in Nat
         /\ Len(results[r]) <= Len(CheckerList)
         /\ pc[r] \in {"enter", "await"} => Len(results[r]) < Len(CheckerList)
         /\ pc[r] = "new" => Len(results[r]) = 0
         /\ StepsLeft(r) \in 0..(3 * Len(CheckerList) + 2)
<1>1. /\ Len(CheckerList) \in Nat /\ Len(results[r]) \in Nat
      /\ Len(results[r]) <= Len(CheckerList)
      /\ pc[r] \in {"enter", "await"} => Len(results[r]) < Len(CheckerList)
      /\ pc[r] = "new" => Len(results[r]) = 0
  BY CheckerAt DEF TypeOK, AheadInv
<1>2. StepsLeft(r) \in 0..(3 * Len(CheckerList) + 2)
  BY <1>1 DEF StepsLeft
<1> QED BY <1>1, <1>2

\* A probe moves by the steps of its own handler only.
LEMMA ProbesApart ==
  ASSUME TypeOK, [Next]_vars, NEW r \in Requests,
         ~Arrive(r), ~Refuse(r), ~Handle(r)
  PROVE  pc'[r] = pc[r] /\ results'[r] = results[r]
<1>1. ASSUME NEW q \in Requests, q # r, Arrive(q) \/ Refuse(q) \/ Handle(q)
      PROVE  pc'[r] = pc[r] /\ results'[r] = results[r]
  BY <1>1
  DEF TypeOK, Arrive, Refuse, Handle, EnterRunOne, Join, Launch, SkipChecker,
      ReceiveResult, GiveUp, Report, Respond, Answer
<1>2. CASE UNCHANGED <<pc, results>>
  BY <1>2
<1> QED
  BY <1>1, <1>2
  DEF Next, Release, TotalTimeout, CheckTimeout, CheckerReturns, CloseDone,
      ClearInflight, vars

\* A probe is answered after at most three steps of its handler per checker
\* and two more, whatever the others do (health.go ReadyHandler, runOne).
THEOREM ProbeEndsInBound == Spec => ProbeBounded
<1>1. ASSUME TypeOK, RunInv, AheadInv, [Next]_vars, NEW r \in Requests
      PROVE  /\ StepsLeft(r) \in 0..(3 * Len(CheckerList) + 2)
             /\ StepsLeft(r)' <= StepsLeft(r)
             /\ Arrive(r) \/ Refuse(r) \/ Handle(r) =>
                    StepsLeft(r)' < StepsLeft(r)
  <2> USE <1>1
  <2>1. /\ Len(CheckerList) \in Nat /\ Len(results[r]) \in Nat
        /\ Len(results[r]) <= Len(CheckerList)
        /\ pc[r] \in {"enter", "await"} => Len(results[r]) < Len(CheckerList)
        /\ pc[r] = "new" => Len(results[r]) = 0
        /\ StepsLeft(r) \in 0..(3 * Len(CheckerList) + 2)
    BY StepsTyped
  <2>2. CASE Arrive(r) \/ EnterRunOne(r) \/ Join(r) \/ Launch(r)
    <3>1. /\ results' = results
          /\ \/ pc[r] = "new" /\ pc'[r] = "next"
             \/ pc[r] = "next" /\ pc'[r] = "enter"
             \/ pc[r] = "enter" /\ pc'[r] = "await"
      BY <2>2 DEF Arrive, EnterRunOne, Join, Launch, TypeOK
    <3> QED BY <2>1, <3>1 DEF StepsLeft
  <2>3. CASE SkipChecker(r) \/ ReceiveResult(r) \/ GiveUp(r)
    <3>1. /\ Len(results[r]) < Len(CheckerList) /\ pc[r] \in {"next", "await"}
          /\ pc'[r] = "next" /\ Len(results'[r]) = Len(results[r]) + 1
      BY <2>3, Reporting, ReportResults
    <3> QED BY <2>1, <3>1 DEF StepsLeft
  <2>4. CASE Refuse(r) \/ Respond(r)
    <3>1. pc[r] \in {"new", "next"} /\ pc'[r] = "done"
      BY <2>4 DEF Refuse, Respond, Answer, TypeOK
    <3> QED BY <2>1, <3>1 DEF StepsLeft
  <2>5. CASE ~Arrive(r) /\ ~Refuse(r) /\ ~Handle(r)
    <3>1. pc'[r] = pc[r] /\ results'[r] = results[r]
      BY <2>5, ProbesApart
    <3> QED BY <2>1, <2>5, <3>1 DEF StepsLeft
  <2> QED BY <2>1, <2>2, <2>3, <2>4, <2>5 DEF Handle
<1>2. TypeOK /\ RunInv /\ AheadInv /\ [Next]_vars =>
        \A r \in Requests :
            /\ StepsLeft(r) \in 0..(3 * Len(CheckerList) + 2)
            /\ StepsLeft(r)' <= StepsLeft(r)
            /\ Arrive(r) \/ Refuse(r) \/ Handle(r) =>
                    StepsLeft(r)' < StepsLeft(r)
  BY <1>1
<1> QED BY <1>2, OrderInvariant, PTL DEF Spec, OrderInv, ProbeBounded

=============================================================================

-------------------------- MODULE ResearchRunProofs --------------------------
(***************************************************************************)
(* Theorems about ResearchRun for any plans, items, thresholds and weight   *)
(* unit.  A run's results are a record of what each step made of the ones   *)
(* before it, and never change once they are there: RunInv says so, and     *)
(* what holds of a run is then a matter of what its engines compute.        *)
(***************************************************************************)
EXTENDS ResearchRun, SumTheorems

\* A sequence and one more element.
LEMMA AppendOne ==
  ASSUME NEW s, s \in Seq(Range(s)), NEW e
  PROVE  /\ Len(s) \in Nat
         /\ DOMAIN s = 1 .. Len(s)
         /\ Append(s, e) \in Seq(Range(Append(s, e)))
         /\ Len(Append(s, e)) = Len(s) + 1
         /\ Append(s, e)[Len(s) + 1] = e
         /\ \A i \in 1 .. Len(s) : Append(s, e)[i] = s[i]
<1> DEFINE t == Append(s, e)
           n == Len(s)
<1>1. n \in Nat /\ DOMAIN s = 1 .. n
  OBVIOUS
<1>2. s \in Seq(Range(s) \union {e})
  OBVIOUS
<1>3. t \in Seq(Range(s) \union {e}) /\ Len(t) = n + 1
  BY <1>2
<1>4. t[n + 1] = e /\ \A i \in 1 .. n : t[i] = s[i]
  BY <1>2
<1>5. t \in Seq(Range(t))
  <2> HIDE DEF t, n
  <2>1. t \in [1 .. n + 1 -> Range(s) \union {e}]
    <3>1. t \in [1 .. Len(t) -> Range(s) \union {e}]
      BY <1>3
    <3> QED BY <1>3, <3>1
  <2>2. \A i \in 1 .. n + 1 : t[i] \in Range(t)
    BY <2>1 DEF Range
  <2>3. n + 1 \in Nat
    BY <1>1
  <2>4. t \in [1 .. n + 1 -> Range(t)]
    BY <2>1, <2>2
  <2> QED BY <2>3, <2>4
<1> QED BY <1>1, <1>3, <1>4, <1>5

\* The steps of a request are a sequence of sound steps.
LEMMA PlanType ==
  ASSUME request \in Requests
  PROVE  /\ Len(steps) \in Nat
         /\ DOMAIN steps = 1 .. Len(steps)
         /\ \A i \in 1 .. Len(steps) : IsStep(steps[i])
<1>1. steps \in Seq(Range(steps)) /\ \A step \in Range(steps) : IsStep(step)
  BY RequestsAssumption DEF steps
<1>2. Len(steps) \in Nat /\ DOMAIN steps = 1 .. Len(steps)
  BY <1>1
<1>3. \A i \in 1 .. Len(steps) : steps[i] \in Range(steps)
  BY <1>2 DEF Range
<1> QED BY <1>1, <1>2, <1>3

-----------------------------------------------------------------------------
Skipped == Result([state |-> "SKIPPED", reason |-> "STEP_SKIPPED", report |-> NoReport], {})

\* The result of step i records what the step made, or that it did not.
RecordedAs(result, i) ==
  \/ result = Skipped
  \/ result = Result(Failed("WRITE"), {}) /\ Outcome(steps[i], i - 1).report # NoReport
  \/ \E paths \in {{}, Written(i)} : result = Result(Outcome(steps[i], i - 1), paths)

StoppedBefore(i) ==
  request.failFast /\ \E j \in 1 .. i - 1 : results[j].state \in {"FAILED", "BLOCKED"}

RunInv ==
  /\ request \in Requests
  /\ results \in Seq(Range(results))
  /\ Done <= Len(steps)
  /\ \A i \in 1 .. Done : /\ RecordedAs(results[i], i)
                          /\ results[i].paths \subseteq files
                          /\ StoppedBefore(i) => results[i] = Skipped
  /\ files \subseteq (1 .. Done) \X Parts
  /\ \A f \in files : f \in results[f[1]].paths \/ results[f[1]].reason = "WRITE"
  /\ state \in {None, "COMPLETED", "FAILED", "BLOCKED", "PARTIAL"}

\* What a step makes depends on the results before it only.
LEMMA OutcomeIsStable ==
  ASSUME request' = request, NEW n \in Nat, \A i \in 1 .. n : results'[i] = results[i]
  PROVE  \A s : Outcome(s, n)' = Outcome(s, n)
<1>1. steps' = steps
  BY DEF steps
<1>2. \A id : Numbered(id, n)' = Numbered(id, n)
  BY <1>1 DEF Numbered
<1>3. \A kind : NearestSuccess(kind, n)' = NearestSuccess(kind, n)
  <2> SUFFICES ASSUME NEW kind PROVE NearestSuccess(kind, n)' = NearestSuccess(kind, n)
    OBVIOUS
  <2>1. {i \in 1 .. n : steps'[i].kind = kind /\ results'[i].state = "SUCCESS"}
          = {i \in 1 .. n : steps[i].kind = kind /\ results[i].state = "SUCCESS"}
    BY <1>1
  <2> QED BY <2>1 DEF NearestSuccess, LastOf
<1>4. \A s, kind : Source(s, kind, n)' = Source(s, kind, n)
  BY <1>2, <1>3 DEF Source, LastOf
<1>5. \A s, kind : Source(s, kind, n) \subseteq 1 .. n
  BY DEF Source, LastOf, Numbered, NearestSuccess
<1>6. \A s, kind : ReportFrom(Source(s, kind, n))' = ReportFrom(Source(s, kind, n))
  <2> SUFFICES ASSUME NEW s, NEW kind
               PROVE ReportFrom(Source(s, kind, n))' = ReportFrom(Source(s, kind, n))
    OBVIOUS
  <2> DEFINE S == Source(s, kind, n)
  <2>1. S' = S /\ S \subseteq 1 .. n
    BY <1>4, <1>5
  <2>2. S # {} => results'[CHOOSE i \in S : TRUE] = results[CHOOSE i \in S : TRUE]
    BY <2>1
  <2> HIDE DEF S
  <2>3. ReportFrom(S)' = ReportFrom(S)
    BY <2>1, <2>2 DEF ReportFrom
  <2> QED BY <2>3 DEF S
<1>7. \A s : PortfolioInputs(s, n)' = PortfolioInputs(s, n)
  BY <1>6 DEF PortfolioInputs
<1>8. \A s : PortfolioOutcome(s, n)' = PortfolioOutcome(s, n)
  BY <1>7 DEF PortfolioOutcome
<1>9. \A s : UniverseOutcome(s, n)' = UniverseOutcome(s, n)
  BY <1>6 DEF UniverseOutcome
<1> QED BY <1>8, <1>9 DEF Outcome

\* A step that is recorded as it should be keeps the record sound.
LEMMA RecordGrows ==
  ASSUME RunInv, request' = request, state' = state, Done < Len(steps),
         NEW e, results' = Append(results, e),
         NEW F \in SUBSET Written(Done + 1), files' = files \cup F,
         RecordedAs(e, Done + 1), e.paths \subseteq F,
         StoppedBefore(Done + 1) => e = Skipped,
         \A f \in F : f \in e.paths \/ e.reason = "WRITE"
  PROVE  RunInv'
<1> DEFINE n == Done
<1>1. /\ n \in Nat /\ Done' = n + 1 /\ results'[n + 1] = e
      /\ \A i \in 1 .. n : results'[i] = results[i]
      /\ results' \in Seq(Range(results'))
  BY AppendOne DEF RunInv, Done
<1> HIDE DEF n
<1>2. steps' = steps /\ Len(steps) \in Nat
  BY PlanType DEF steps, RunInv
<1>3. \A f \in F : f[1] = n + 1 /\ f \in (1 .. n + 1) \X Parts
  BY <1>1 DEF Written, n
<1>4. ASSUME NEW i \in 1 .. n + 1
      PROVE  Outcome(steps[i], i - 1)' = Outcome(steps[i], i - 1)
  <2>1. i - 1 \in Nat /\ \A j \in 1 .. i - 1 : j \in 1 .. n
    BY <1>1
  <2>2. \A s : Outcome(s, i - 1)' = Outcome(s, i - 1)
    BY <1>1, <2>1, OutcomeIsStable
  <2> QED BY <1>2, <2>2
<1>5. ASSUME NEW i \in 1 .. n + 1
      PROVE  StoppedBefore(i)' <=> StoppedBefore(i)
  <2>1. \A j \in 1 .. i - 1 : j \in 1 .. n
    BY <1>1
  <2>2. \A j \in 1 .. i - 1 : results'[j] = results[j]
    BY <1>1, <2>1
  <2> QED BY <2>2 DEF StoppedBefore
<1>6. Skipped' = Skipped /\ Result(Failed("WRITE"), {})' = Result(Failed("WRITE"), {})
  BY DEF Skipped, Result, Failed
<1>7. \A i \in 1 .. n + 1 : i = n + 1 \/ (i \in 1 .. n /\ results'[i] = results[i])
  <2> SUFFICES ASSUME NEW i \in 1 .. n + 1, i # n + 1 PROVE i \in 1 .. n
    BY <1>1
  <2> QED BY <1>1
<1>8. ASSUME NEW i \in 1 .. n + 1
      PROVE  /\ RecordedAs(results[i], i)'
             /\ results'[i].paths \subseteq files'
             /\ StoppedBefore(i)' => results'[i] = Skipped
  <2>1. /\ RecordedAs(results'[i], i)
        /\ results'[i].paths \subseteq files'
        /\ StoppedBefore(i) => results'[i] = Skipped
    <3>1. CASE i = n + 1
      BY <1>1, <3>1 DEF n
    <3>2. CASE i # n + 1
      <4>1. i \in 1 .. n /\ results'[i] = results[i]
        BY <1>7, <3>2
      <4> QED BY <4>1 DEF RunInv, n
    <3> QED BY <3>1, <3>2
  <2>2. RecordedAs(results[i], i)'
    BY <1>2, <1>4, <1>6, <2>1 DEF RecordedAs, Written, Parts
  <2> QED BY <1>5, <2>1, <2>2
<1>9. files' \subseteq (1 .. n + 1) \X Parts
  <2>1. (1 .. n) \X Parts \subseteq (1 .. n + 1) \X Parts
    BY <1>1
  <2> QED BY <1>3, <2>1 DEF RunInv, n
<1>10. ASSUME NEW f \in files' PROVE f \in results'[f[1]].paths \/ results'[f[1]].reason = "WRITE"
  <2>1. CASE f \in F
    BY <1>1, <1>3, <2>1
  <2>2. CASE f \in files
    <3>1. f[1] \in 1 .. n
      BY <2>2 DEF RunInv, n
    <3> QED BY <1>1, <2>2, <3>1 DEF RunInv
  <2> QED BY <2>1, <2>2
<1>11. Done' <= Len(steps)'
  BY <1>1, <1>2 DEF n
<1> QED BY <1>1, <1>6, <1>8, <1>9, <1>10, <1>11 DEF RunInv

LEMMA RunInvariant == Spec => []RunInv
<1>1. Init => RunInv
  <2> SUFFICES ASSUME Init PROVE RunInv
    OBVIOUS
  <2>1. request \in Requests /\ results = << >> /\ files = {} /\ state = None
    BY DEF Init
  <2>2. Len(steps) \in Nat
    BY <2>1, PlanType
  <2>3. Done = 0
    BY <2>1 DEF Done
  <2>4. << >> \in Seq(Range(<< >>))
    OBVIOUS
  <2> QED BY <2>1, <2>2, <2>3, <2>4 DEF RunInv
<1>2. RunInv /\ [Next]_vars => RunInv'
  <2> SUFFICES ASSUME RunInv, [Next]_vars PROVE RunInv'
    OBVIOUS
  <2> USE DEF RunInv
  <2>0. Done \in Nat
    BY AppendOne DEF Done
  <2>1. ASSUME request' = request, results' = results, files' = files,
               state' \in {None, "COMPLETED", "FAILED", "BLOCKED", "PARTIAL"}
        PROVE  RunInv'
    <3>1. steps' = steps /\ Done' = Done /\ Skipped' = Skipped
      BY <2>1 DEF steps, Done, Skipped, Result
    <3>2. \A i \in 1 .. Done : Outcome(steps[i], i - 1)' = Outcome(steps[i], i - 1)
      <4> SUFFICES ASSUME NEW i \in 1 .. Done
                   PROVE  Outcome(steps[i], i - 1)' = Outcome(steps[i], i - 1)
        OBVIOUS
      <4>1. i - 1 \in Nat
        BY <2>0
      <4>2. \A s : Outcome(s, i - 1)' = Outcome(s, i - 1)
        BY <2>1, <4>1, OutcomeIsStable
      <4> QED BY <3>1, <4>2
    <3>3. \A i \in 1 .. Done : RecordedAs(results[i], i)'
      <4> SUFFICES ASSUME NEW i \in 1 .. Done PROVE RecordedAs(results[i], i)'
        OBVIOUS
      <4>1. RecordedAs(results[i], i)
        OBVIOUS
      <4> QED BY <2>1, <3>1, <3>2, <4>1 DEF RecordedAs
    <3>4. \A i : StoppedBefore(i)' <=> StoppedBefore(i)
      BY <2>1 DEF StoppedBefore
    <3> QED BY <2>1, <3>1, <3>3, <3>4
  <2>2. Stopped <=> StoppedBefore(Done + 1)
    BY <2>0 DEF Stopped, StoppedBefore
  <2>3. Running => Done < Len(steps)
    BY DEF Running
  <2>4. CASE RefusePlan
    BY <2>1, <2>4 DEF RefusePlan
  <2>5. CASE Skip
    <3> DEFINE e == Skipped
    <3>1. results' = Append(results, e) /\ files' = files \cup {}
      BY <2>5 DEF Skip, Skipped
    <3>2. RecordedAs(e, Done + 1) /\ e.paths = {}
      BY DEF RecordedAs, Skipped, Result
    <3>3. request' = request /\ state' = state /\ Running
      BY <2>5 DEF Skip
    <3> HIDE DEF e, RunInv
    <3> QED BY <2>3, <3>1, <3>2, <3>3, RecordGrows DEF e
  <2>6. CASE StepUnwritten
    <3> DEFINE e == Result(Outcome(Next1, Done), {})
    <3>1. results' = Append(results, e) /\ files' = files \cup {}
      BY <2>6 DEF StepUnwritten
    <3>2. Next1 = steps[Done + 1] /\ (Done + 1) - 1 = Done
      BY <2>0 DEF Next1
    <3>3. RecordedAs(e, Done + 1)
      BY <3>2 DEF RecordedAs
    <3>4. e.paths = {}
      BY DEF Result
    <3>5. request' = request /\ state' = state /\ Running /\ ~Stopped
      BY <2>6 DEF StepUnwritten
    <3> HIDE DEF e, RunInv
    <3> QED BY <2>2, <2>3, <3>1, <3>3, <3>4, <3>5, RecordGrows
  <2>7. CASE StepWritten
    <3> DEFINE e == Result(Outcome(Next1, Done), Written(Done + 1))
    <3>1. results' = Append(results, e) /\ files' = files \cup Written(Done + 1)
      BY <2>7 DEF StepWritten
    <3>2. Next1 = steps[Done + 1] /\ (Done + 1) - 1 = Done
      BY <2>0 DEF Next1
    <3>3. RecordedAs(e, Done + 1)
      BY <3>2 DEF RecordedAs
    <3>4. e.paths = Written(Done + 1)
      BY DEF Result
    <3>5. request' = request /\ state' = state /\ Running /\ ~Stopped
      BY <2>7 DEF StepWritten
    <3> HIDE DEF e, RunInv
    <3> QED BY <2>2, <2>3, <3>1, <3>3, <3>4, <3>5, RecordGrows
  <2>8. CASE WriteFails
    <3> DEFINE e == Result(Failed("WRITE"), {})
    <3>1. results' = Append(results, e)
      BY <2>8 DEF WriteFails, FailedPaths
    <3>2. PICK k \in 0 .. 2 : files' = files \cup ({Done + 1} \X (1 .. k))
      BY <2>8 DEF WriteFails
    <3>3. {Done + 1} \X (1 .. k) \in SUBSET Written(Done + 1)
      BY DEF Written, Parts
    <3>4. Next1 = steps[Done + 1] /\ (Done + 1) - 1 = Done
      BY <2>0 DEF Next1
    <3>5. RecordedAs(e, Done + 1)
      BY <2>8, <3>4 DEF RecordedAs, WriteFails
    <3>6. e.paths = {} /\ e.reason = "WRITE"
      BY DEF Result, Failed
    <3>7. request' = request /\ state' = state /\ Running /\ ~Stopped
      BY <2>8 DEF WriteFails
    <3> HIDE DEF e, RunInv
    <3> QED BY <2>2, <2>3, <3>1, <3>2, <3>3, <3>5, <3>6, <3>7, RecordGrows
  <2>9. CASE Finish
    <3>1. RunState \in {"COMPLETED", "FAILED", "BLOCKED", "PARTIAL"}
      BY DEF RunState
    <3> QED BY <2>1, <2>9, <3>1 DEF Finish
  <2>10. CASE Export
    BY <2>1, <2>10 DEF Export
  <2>11. CASE \E stale \in BOOLEAN : Adapt(stale)
    BY <2>1, <2>11 DEF Adapt
  <2>12. CASE Answered
    BY <2>1, <2>12 DEF Answered, vars
  <2>13. CASE UNCHANGED vars
    BY <2>1, <2>13 DEF vars
  <2> QED BY <2>4, <2>5, <2>6, <2>7, <2>8, <2>9, <2>10, <2>11, <2>12, <2>13 DEF Next
<1> QED BY <1>1, <1>2, PTL DEF Spec

-----------------------------------------------------------------------------
\* What a step makes: a success has a report, of the kind of its step.
LEMMA OutcomeType ==
  ASSUME request \in Requests, NEW i \in 1 .. Len(steps), NEW made, made = Outcome(steps[i], i - 1)
  PROVE  /\ made.state \in {"SUCCESS", "BLOCKED", "FAILED"}
         /\ made.report.kind \in {"NONE", steps[i].kind}
         /\ made.state = "SUCCESS" => made.report.kind = steps[i].kind
<1> DEFINE s == steps[i]
           n == i - 1
<1>1. IsStep(s) /\ s.kind \in StepKinds
  BY PlanType DEF IsStep
<1> HIDE DEF s, n
<1>2. CASE s.kind = "DISCOVERY"
  <2>1. made = DiscoveryOutcome(s)
    BY <1>2 DEF Outcome, s, n
  <2>2. DiscoveryReport(s.inline, s.config).kind = "DISCOVERY"
    BY DEF DiscoveryReport
  <2> QED BY <1>2, <2>1, <2>2 DEF DiscoveryOutcome, Made, Refused, NoReport, s
<1>3. CASE s.kind = "PORTFOLIO"
  <2>1. made = PortfolioOutcome(s, n)
    BY <1>3 DEF Outcome, s, n
  <2>2. \A inputs, scores : PortfolioReport(inputs, scores, s.config).kind = "PORTFOLIO"
    BY DEF PortfolioReport
  <2> QED BY <1>3, <2>1, <2>2 DEF PortfolioOutcome, Made, Refused, Failed, NoReport, s
<1>4. CASE s.kind = "UNIVERSE"
  <2>1. made = UniverseOutcome(s, n)
    BY <1>4 DEF Outcome, s, n
  <2>2. \A given : UniverseReport(given, s.exec, s.config).kind = "UNIVERSE"
    BY DEF UniverseReport
  <2> QED BY <1>4, <2>1, <2>2 DEF UniverseOutcome, Made, Refused, Failed, NoReport, s
<1>5. CASE s.kind = "OTHER"
  <2>1. made = s.inline
    BY <1>5 DEF Outcome, s, n
  <2> QED BY <1>1, <1>5, <2>1 DEF IsStep, IsInline, s
<1> QED BY <1>1, <1>2, <1>3, <1>4, <1>5 DEF StepKinds

\* A result that is there was skipped, lost its report, or has what its step
\* made.
LEMMA ResultType ==
  ASSUME RunInv, NEW i \in 1 .. Done
  PROVE  /\ i \in 1 .. Len(steps)
         /\ results[i].state \in {"SUCCESS", "BLOCKED", "FAILED", "SKIPPED"}
         /\ results[i].paths \in {{}, Written(i)}
         /\ results[i].report.kind \in {"NONE", steps[i].kind}
         /\ results[i].state = "SUCCESS" => results[i].report.kind = steps[i].kind
         /\ results[i].report.kind # "NONE" => results[i].report = Outcome(steps[i], i - 1).report
         /\ results[i].state = "SUCCESS" => results[i].report = Outcome(steps[i], i - 1).report
<1> DEFINE made == Outcome(steps[i], i - 1)
<1>1. i \in 1 .. Len(steps)
  BY AppendOne, PlanType DEF RunInv, Done
<1>2. /\ made.state \in {"SUCCESS", "BLOCKED", "FAILED"}
      /\ made.report.kind \in {"NONE", steps[i].kind}
      /\ made.state = "SUCCESS" => made.report.kind = steps[i].kind
  BY <1>1, OutcomeType DEF RunInv
<1>3. RecordedAs(results[i], i)
  BY DEF RunInv
<1> HIDE DEF made
<1>4. \/ results[i] = Skipped
      \/ results[i] = Result(Failed("WRITE"), {})
      \/ \E paths \in {{}, Written(i)} : results[i] = Result(made, paths)
  BY <1>3 DEF RecordedAs, made
<1>5. CASE results[i] = Skipped
  BY <1>1, <1>5 DEF Skipped, Result, NoReport
<1>6. CASE results[i] = Result(Failed("WRITE"), {})
  BY <1>1, <1>6 DEF Failed, Result, NoReport
<1>7. CASE \E paths \in {{}, Written(i)} : results[i] = Result(made, paths)
  BY <1>1, <1>2, <1>7 DEF Result, made
<1> QED BY <1>4, <1>5, <1>6, <1>7

\* A run's state, results and files are well typed; a successful step has a
\* report.
THEOREM TypeInvariant == Spec => []TypeOK
<1>1. ASSUME RunInv PROVE TypeOK
  <2>1. Done <= Len(steps) /\ files \subseteq (1 .. Done) \X Parts
        /\ state \in {None, "COMPLETED", "FAILED", "BLOCKED", "PARTIAL"}
    BY <1>1 DEF RunInv
  <2>2. ASSUME NEW i \in 1 .. Done
        PROVE  /\ results[i].state \in {"SUCCESS", "BLOCKED", "FAILED", "SKIPPED"}
               /\ results[i].paths \in {{}, Written(i)}
               /\ results[i].state = "SUCCESS" => results[i].report # NoReport
    <3>1. i \in 1 .. Len(steps) /\ NoReport.kind = "NONE"
      BY <1>1, ResultType DEF NoReport
    <3>2. steps[i].kind # "NONE"
      BY <1>1, <3>1, PlanType DEF RunInv, IsStep, StepKinds
    <3> QED BY <1>1, <3>1, <3>2, ResultType
  <2> QED BY <2>1, <2>2 DEF TypeOK
<1> QED BY <1>1, RunInvariant, PTL

\* The artifacts a run lists are there, and the files it does not list are
\* those of failed writes.
THEOREM ArtifactsAreAlwaysWritten == Spec => []ArtifactsAreWritten
<1>1. ASSUME RunInv PROVE ArtifactsAreWritten
  <2>1. Artifacts \subseteq files
    BY <1>1 DEF RunInv, Artifacts
  <2>2. \A f \in files : f[1] \in 1 .. Done
    BY <1>1 DEF RunInv
  <2>3. \A f \in files \ Artifacts : results[f[1]].reason = "WRITE"
    BY <1>1, <2>2 DEF RunInv, Artifacts
  <2> QED BY <2>1, <2>3 DEF ArtifactsAreWritten
<1> QED BY <1>1, RunInvariant, PTL

\* With fail_fast a failed or refused step is followed by skipped ones only,
\* which leave nothing.
THEOREM NothingEverFollowsFailure == Spec => []NothingAfterFailure
<1>1. ASSUME RunInv PROVE NothingAfterFailure
  <2> SUFFICES ASSUME request.failFast, NEW i \in 1 .. Done, NEW j \in 1 .. Done,
                      i < j, results[i].state \in {"FAILED", "BLOCKED"}
               PROVE  /\ results[j].state = "SKIPPED"
                      /\ results[j].report = NoReport
                      /\ {j} \X Parts \cap files = {}
    BY DEF NothingAfterFailure
  <2>1. Done \in Nat
    BY <1>1, AppendOne DEF RunInv, Done
  <2>2. i \in 1 .. j - 1
    BY <2>1
  <2>3. results[j] = Skipped
    BY <1>1, <2>2 DEF RunInv, StoppedBefore
  <2>4. results[j].paths = {} /\ results[j].reason # "WRITE" /\ results[j].state = "SKIPPED"
        /\ results[j].report = NoReport
    BY <2>3 DEF Skipped, Result
  <2>5. \A f \in files : f[1] # j
    BY <1>1, <2>4 DEF RunInv
  <2> QED BY <2>4, <2>5
<1> QED BY <1>1, RunInvariant, PTL

-----------------------------------------------------------------------------
\* The last of some step numbers is one of them, and the only one.
LEMMA LastMeans ==
  ASSUME NEW n \in Nat, NEW S, S \subseteq 1 .. n
  PROVE  /\ LastOf(S) \subseteq S
         /\ \A i, j \in LastOf(S) : i = j
         /\ S # {} => LastOf(S) # {}
<1>1. S \subseteq Nat /\ IsFiniteSet(S)
  <2>1. IsFiniteSet(1 .. n)
    BY FS_Interval
  <2>2. IsFiniteSet(S)
    BY <2>1, FS_Subset
  <2> QED BY <2>2
<1>2. S # {} => \E i \in S : \A j \in S : i >= j
  BY <1>1, GreatestNatural
<1>3. \A i, j \in S : i >= j <=> j <= i
  BY <1>1
<1>4. S # {} => LastOf(S) # {}
  BY <1>2, <1>3 DEF LastOf
<1>5. \A i, j \in LastOf(S) : i \in Nat /\ j \in Nat /\ i <= j /\ j <= i
  BY <1>1 DEF LastOf
<1>6. \A i, j \in LastOf(S) : i = j
  BY <1>5
<1> QED BY <1>4, <1>6 DEF LastOf

\* A reference resolves to one earlier step, or to none.
LEMMA SourceMeans ==
  ASSUME NEW s, NEW kind, NEW n \in Nat
  PROVE  /\ Source(s, kind, n) \subseteq 1 .. n
         /\ \A i, j \in Source(s, kind, n) : i = j
         /\ \A i \in Source(s, kind, n) : ReportFrom(Source(s, kind, n)) = results[i].report
<1>1. Numbered(s.byId, n) \subseteq 1 .. n
  BY DEF Numbered
<1>2. /\ LastOf(Numbered(s.byId, n)) \subseteq 1 .. n
      /\ \A i, j \in LastOf(Numbered(s.byId, n)) : i = j
  BY <1>1, LastMeans
<1>3. /\ NearestSuccess(kind, n) \subseteq 1 .. n
      /\ \A i, j \in NearestSuccess(kind, n) : i = j
  <2> DEFINE S == {i \in 1 .. n : steps[i].kind = kind /\ results[i].state = "SUCCESS"}
  <2>2. S \subseteq 1 .. n /\ NearestSuccess(kind, n) = LastOf(S)
    BY DEF NearestSuccess
  <2> HIDE DEF S
  <2>3. LastOf(S) \subseteq S /\ \A i, j \in LastOf(S) : i = j
    BY <2>2, LastMeans
  <2> QED BY <2>2, <2>3
<1>4. Source(s, kind, n) \subseteq 1 .. n /\ \A i, j \in Source(s, kind, n) : i = j
  BY <1>2, <1>3 DEF Source
<1> DEFINE S == Source(s, kind, n)
<1> HIDE DEF S
<1>5. \A i \in S : (CHOOSE j \in S : TRUE) = i
  BY <1>4 DEF S
<1>6. \A i \in S : ReportFrom(S) = results[i].report
  BY <1>5 DEF ReportFrom
<1> QED BY <1>4, <1>6 DEF S

\* A portfolio step has a portfolio report if it succeeded, and else none.
LEMMA PortfolioResult ==
  ASSUME RunInv, NEW i \in 1 .. Done, steps[i].kind = "PORTFOLIO"
  PROVE  \/ results[i].state = "SUCCESS" /\ results[i].report.kind = "PORTFOLIO"
         \/ results[i].state # "SUCCESS" /\ results[i].report = NoReport
<1> DEFINE made == Outcome(steps[i], i - 1)
<1>1. made = PortfolioOutcome(steps[i], i - 1)
  BY DEF Outcome
<1>2. \A inputs, scores, config : PortfolioReport(inputs, scores, config).kind = "PORTFOLIO"
  BY DEF PortfolioReport
<1>3. \/ made.state = "SUCCESS" /\ made.report.kind = "PORTFOLIO"
      \/ made.state # "SUCCESS" /\ made.report = NoReport
  BY <1>1, <1>2 DEF PortfolioOutcome, Made, Refused, Failed
<1>4. RecordedAs(results[i], i)
  BY DEF RunInv
<1> HIDE DEF made
<1> QED BY <1>3, <1>4 DEF RecordedAs, Skipped, Result, Failed, made

\* What a reference of an accepted universe step resolves to.
LEMMA AcceptedReference ==
  ASSUME RunInv, NEW i \in 1 .. Done, ReferenceAccepted(steps[i], i), steps[i].inline = None
  PROVE  /\ \A p \in Source(steps[i], "PORTFOLIO", i - 1) : steps[p].kind = "PORTFOLIO"
         /\ Source(steps[i], "PORTFOLIO", i - 1) = {} =>
              \E j \in 1 .. i - 1 : steps[j].kind = "PORTFOLIO" /\ results[j].state # "SUCCESS"
<1> DEFINE s == steps[i]
           n == i - 1
           From == Source(s, "PORTFOLIO", n)
<1>1. /\ i \in 1 .. Len(steps) /\ n \in Nat /\ n <= Len(steps) /\ i = n + 1
      /\ DOMAIN steps = 1 .. Len(steps) /\ Len(steps) \in Nat
  BY ResultType, PlanType DEF RunInv
<1>2. CASE s.byId # None
  <2> DEFINE named == LastOf(Numbered(s.byId, n))
  <2>1. PICK j \in IdNumbers(s.byId) : /\ j < i
                                       /\ s.byIndex # None => s.byIndex = j
                                       /\ steps[j].kind = "PORTFOLIO"
    BY <1>2 DEF ReferenceAccepted
  <2>2. j \in 1 .. Len(steps) /\ steps[j].id = s.byId
    BY <1>1 DEF IdNumbers, LastOf
  <2>3. \A k \in 1 .. Len(steps) : steps[k].id = s.byId => k <= j
    BY <1>1, <1>2 DEF IdNumbers, LastOf
  <2>4. j \in 1 .. n
    BY <1>1, <2>1, <2>2
  <2>5. \A k \in 1 .. n : k \in 1 .. Len(steps)
    BY <1>1
  <2>6. j \in Numbered(s.byId, n)
    BY <1>2, <2>2, <2>4 DEF Numbered
  <2>7. \A k \in Numbered(s.byId, n) : k <= j
    BY <2>3, <2>5 DEF Numbered
  <2>8. j \in named
    BY <2>6, <2>7 DEF LastOf
  <2>9. \A k \in named : k = j
    <3>1. Numbered(s.byId, n) \subseteq 1 .. n
      BY DEF Numbered
    <3> QED BY <1>1, <2>8, <3>1, LastMeans
  <2>10. From = {j}
    <3> HIDE DEF s
    <3> QED BY <1>2, <2>1, <2>8, <2>9 DEF Source
  <2> QED BY <2>1, <2>10
<1>3. CASE s.byId = None /\ s.byIndex # None
  <2>1. s.byIndex \in 1 .. n /\ steps[s.byIndex].kind = "PORTFOLIO"
    BY <1>3 DEF ReferenceAccepted
  <2>2. From = {s.byIndex}
    <3> HIDE DEF s
    <3> QED BY <1>3, <2>1 DEF Source
  <2> QED BY <2>1, <2>2
<1>4. CASE s.byId = None /\ s.byIndex = None
  <2> DEFINE S == {j \in 1 .. n : steps[j].kind = "PORTFOLIO" /\ results[j].state = "SUCCESS"}
  <2>1. \E j \in 1 .. n : steps[j].kind = "PORTFOLIO"
    BY <1>4 DEF ReferenceAccepted
  <2>2. From = LastOf(S)
    <3> HIDE DEF s
    <3> QED BY <1>4 DEF Source, NearestSuccess
  <2>3. S \subseteq 1 .. n
    OBVIOUS
  <2>4. LastOf(S) \subseteq S /\ (S # {} => LastOf(S) # {})
    <3> HIDE DEF S
    <3> QED BY <1>1, <2>3, LastMeans
  <2>5. CASE S = {}
    BY <2>1, <2>2, <2>4, <2>5
  <2>6. CASE S # {}
    BY <2>2, <2>4, <2>6
  <2> QED BY <2>5, <2>6
<1> QED BY <1>2, <1>3, <1>4

\* In an accepted plan a universe step lacks its portfolio only if a portfolio
\* step before it did not succeed, and is never given another kind of report.
THEOREM AcceptedPlansAlwaysResolve == Spec => []AcceptedPlansResolve
<1>1. ASSUME RunInv PROVE AcceptedPlansResolve
  <2> SUFFICES ASSUME PlanAccepted, NEW i \in 1 .. Done, steps[i].kind = "UNIVERSE"
               PROVE  /\ results[i].reason # "ENGINE"
                      /\ results[i].reason = "MISSING_PORTFOLIO_CONTEXT" =>
                           \E j \in 1 .. i - 1 : /\ steps[j].kind = "PORTFOLIO"
                                                 /\ results[j].state # "SUCCESS"
    BY DEF AcceptedPlansResolve
  <2> DEFINE s == steps[i]
             n == i - 1
             From == Source(s, "PORTFOLIO", n)
             given == IF s.inline # None THEN s.inline ELSE ReportFrom(From)
             made == UniverseOutcome(s, n)
  <2>1. /\ i \in 1 .. Len(steps) /\ n \in Nat /\ 1 .. n \subseteq 1 .. Done
        /\ DOMAIN steps = 1 .. Len(steps)
        /\ IsStep(s)
    <3>1. i \in 1 .. Len(steps) /\ request \in Requests
      BY <1>1, ResultType DEF RunInv
    <3>2. Done \in Nat
      BY <1>1, AppendOne DEF RunInv, Done
    <3> QED BY <3>1, <3>2, PlanType
  <2>2. ReferenceAccepted(s, i)
    BY <2>1 DEF PlanAccepted
  <2>3. RecordedAs(results[i], i) /\ Outcome(s, n) = made
    BY <1>1 DEF RunInv, Outcome
  <2>4. /\ given = NoReport \/ given.kind = "PORTFOLIO"
        /\ given = NoReport =>
             \E j \in 1 .. n : steps[j].kind = "PORTFOLIO" /\ results[j].state # "SUCCESS"
    <3>1. CASE s.inline # None
      <4>1. given.kind = "PORTFOLIO"
        BY <2>1, <3>1 DEF IsStep, IsInline, IsPortfolioReport
      <4> QED BY <4>1 DEF NoReport
    <3>2. CASE s.inline = None
      <4>1. \A p \in From : steps[p].kind = "PORTFOLIO"
        BY <1>1, <2>2, <3>2, AcceptedReference
      <4>2. From = {} =>
             \E j \in 1 .. n : steps[j].kind = "PORTFOLIO" /\ results[j].state # "SUCCESS"
        BY <1>1, <2>2, <3>2, AcceptedReference
      <4>3. From \subseteq 1 .. n /\ \A p \in From : ReportFrom(From) = results[p].report
        BY <2>1, SourceMeans
      <4>4. given = ReportFrom(From)
        BY <3>2
      <4> HIDE DEF From, given, s, n
      <4>5. CASE From = {}
        BY <4>2, <4>4, <4>5 DEF ReportFrom
      <4>6. CASE From # {}
        <5>1. PICK p \in From : TRUE
          BY <4>6
        <5>2. p \in 1 .. Done /\ p \in 1 .. n /\ given = results[p].report /\ steps[p].kind = "PORTFOLIO"
          BY <2>1, <4>1, <4>3, <4>4
        <5>3. \/ results[p].state = "SUCCESS" /\ given.kind = "PORTFOLIO"
              \/ results[p].state # "SUCCESS" /\ given = NoReport
          BY <1>1, <5>2, PortfolioResult
        <5>4. NoReport.kind # "PORTFOLIO"
          BY DEF NoReport
        <5> QED BY <5>2, <5>3, <5>4
      <4> QED BY <4>5, <4>6
    <3> QED BY <3>1, <3>2
  <2>5. /\ made.reason # "ENGINE"
        /\ made.reason = "MISSING_PORTFOLIO_CONTEXT" => given = NoReport
    <3>1. \A exec : UniverseReason(given, exec) \notin {"ENGINE", "MISSING_PORTFOLIO_CONTEXT"}
      BY DEF UniverseReason, ExecutionReason, QualityReason
    <3>2. UniverseReport(given, s.exec, s.config).reason = UniverseReason(given, s.exec)
      BY DEF UniverseReport
    <3>3. \/ made = Refused("MISSING_PORTFOLIO_CONTEXT") /\ given = NoReport
          \/ made = Refused("STALE_INPUT")
          \/ made = Made(UniverseReport(given, s.exec, s.config))
          \/ made.reason = UniverseReason(given, s.exec)
      <4> HIDE DEF s, n
      <4> QED BY <2>4, <3>2 DEF UniverseOutcome
    <3> QED BY <3>1, <3>3 DEF Refused, Made
  <2>6. \/ results[i].reason \in {"STEP_SKIPPED", "WRITE"}
        \/ results[i].reason = made.reason
    <3> HIDE DEF made, s, n
    <3> QED BY <2>3 DEF RecordedAs, Skipped, Result, Failed, s, n
  <2> QED BY <2>4, <2>5, <2>6
<1> QED BY <1>1, RunInvariant, PTL

-----------------------------------------------------------------------------
(***************************************************************************)
(* The arithmetic of the weights.                                           *)
(***************************************************************************)
LEMMA DivMeans ==
  ASSUME NEW x \in Nat, NEW d \in Nat \ {0}
  PROVE  x \div d \in Nat /\ d * (x \div d) <= x /\ x < d * (x \div d) + d
OBVIOUS

LEMMA ProductType ==
  ASSUME NEW a \in Nat, NEW b \in Nat
  PROVE  a * b \in Nat
OBVIOUS

\* What can be divided on both sides.
LEMMA Cancel ==
  ASSUME NEW t \in Nat \ {0}, NEW x \in Int, NEW y \in Int, t * x <= t * y
  PROVE  x <= y
OBVIOUS

LEMMA Monotone ==
  ASSUME NEW a \in Nat, NEW b \in Nat, NEW c \in Nat, NEW d \in Nat, a <= c, b <= d
  PROVE  a * b <= c * d
<1>1. a * b <= c * b
  OBVIOUS
<1>2. c * b <= c * d
  OBVIOUS
<1>3. a * b \in Nat /\ c * b \in Nat /\ c * d \in Nat
  OBVIOUS
<1> QED BY <1>1, <1>2, <1>3

\* A rounded quotient is off by half a divisor at most.
LEMMA RoundMeans ==
  ASSUME NEW a \in Nat, NEW b \in Nat \ {0}
  PROVE  /\ Round(a, b) \in Nat
         /\ (2 * b) * Round(a, b) <= 2 * a + b
         /\ 2 * a < (2 * b) * Round(a, b) + b
         /\ a = 0 => Round(a, b) = 0
<1> DEFINE x == 2 * a + b
           d == 2 * b
           q == x \div d
<1>1. x \in Nat /\ d \in Nat \ {0}
  OBVIOUS
<1>2. q \in Nat /\ d * q <= x /\ x < d * q + d
  <2> HIDE DEF x, d
  <2> QED BY <1>1, DivMeans
<1>3. Round(a, b) = q
  BY DEF Round
<1>4. a = 0 => q = 0
  <2> SUFFICES ASSUME a = 0, q >= 1 PROVE FALSE
    BY <1>2
  <2>1. d * q >= d * 1
    <3> HIDE DEF q, d, x
    <3> QED BY <1>1, <1>2
  <2> QED BY <1>1, <1>2, <2>1
<1>5. d * q \in Nat
  <2> HIDE DEF q, d, x
  <2> QED BY <1>1, <1>2
<1> HIDE DEF q
<1> QED BY <1>2, <1>3, <1>4, <1>5

\* More rounds to no less.
LEMMA RoundMonotone ==
  ASSUME NEW a \in Nat, NEW c \in Nat, a <= c, NEW b \in Nat \ {0}
  PROVE  Round(a, b) <= Round(c, b)
<1> DEFINE x == Round(a, b)
           y == Round(c, b)
           d == 2 * b
<1>1. x \in Nat /\ d * x <= 2 * a + b /\ y \in Nat /\ 2 * c < d * y + b
  BY RoundMeans
<1> HIDE DEF x, y
<1> SUFFICES ASSUME x >= y + 1 PROVE FALSE
  BY <1>1 DEF x, y
<1>2. d * x >= d * (y + 1)
  <2>1. d \in Nat /\ y + 1 \in Nat /\ y + 1 <= x
    BY <1>1
  <2> HIDE DEF d
  <2> QED BY <1>1, <2>1, Monotone
<1>3. d * (y + 1) = d * y + d
  BY <1>1
<1>4. d * x \in Nat /\ d * y \in Nat
  BY <1>1
<1> DEFINE p == d * x
           q == d * y
<1>5. p >= q + 2 * b /\ p <= 2 * a + b /\ 2 * c < q + b
  BY <1>1, <1>2, <1>3, <1>4
<1> HIDE DEF p, q
<1> QED BY <1>4, <1>5 DEF p, q

-----------------------------------------------------------------------------
\* What is at or above the cap comes to it, and without an excess nothing
\* changes.
Evened(D, w, r, cap) ==
  /\ r \in [D -> Nat]
  /\ \A i \in D : w[i] >= cap => r[i] = cap
  /\ (\A i \in D : w[i] <= cap) => r = w

\* A round of caps evens the weights.
LEMMA RedistributeMeans ==
  ASSUME NEW D, IsFiniteSet(D), NEW w \in [D -> Nat], NEW a \in [D -> Nat], NEW cap \in Nat
  PROVE  Evened(D, w, Redistribute(w, a, cap), cap)
<1> DEFINE R == Redistribute(w, a, cap)
           Over == {i \in D : w[i] > cap}
           Below == {i \in D : w[i] < cap /\ a[i] > 0}
           excess == SumFunction([i \in Over |-> w[i] - cap])
           share == SumFunction([i \in Below |-> a[i]])
           New(i) == CASE i \in Over -> cap
                       [] i \in Below -> w[i] + Round(a[i] * excess, share)
                       [] OTHER -> w[i]
<1>1. R = [i \in D |-> New(i)]
  BY DEF Redistribute
<1>2. IsFiniteSet(Over) /\ IsFiniteSet(Below)
  <2>1. Over \in SUBSET D /\ Below \in SUBSET D
    OBVIOUS
  <2> HIDE DEF Over, Below
  <2> QED BY <2>1, FS_Subset
<1>3. [i \in Over |-> w[i] - cap] \in [Over -> Nat]
  OBVIOUS
<1>4. excess \in Nat
  <2> HIDE DEF Over
  <2> QED BY <1>2, <1>3, SumType
<1>5. Over = {} => excess = 0
  <2> SUFFICES ASSUME Over = {} PROVE excess = 0
    OBVIOUS
  <2>1. [i \in Over |-> w[i] - cap] \in [{} -> Nat]
    BY <1>3
  <2> QED BY <2>1, SumEmpty
<1>6. [i \in Below |-> a[i]] \in [Below -> Nat]
  OBVIOUS
<1>7. share \in Nat /\ (\A i \in Below : a[i] <= share)
  <2> HIDE DEF Below
  <2>1. share \in Nat
    BY <1>2, <1>6, SumType
  <2>2. \A i \in Below : [j \in Below |-> a[j]][i] <= share
    BY <1>2, <1>6, SumElement
  <2> QED BY <2>1, <2>2
<1>8. ASSUME NEW i \in Below
      PROVE  /\ Round(a[i] * excess, share) \in Nat
             /\ excess = 0 => Round(a[i] * excess, share) = 0
  <2>1. share \in Nat \ {0}
    BY <1>7
  <2>2. a[i] * excess \in Nat /\ (excess = 0 => a[i] * excess = 0)
    <3> HIDE DEF excess
    <3>1. a[i] \in Nat
      OBVIOUS
    <3> QED BY <1>4, <3>1
  <2> HIDE DEF share, excess
  <2> QED BY <2>1, <2>2, RoundMeans
<1> HIDE DEF excess, share
<1>9. ASSUME NEW i \in D
      PROVE  /\ New(i) \in Nat
             /\ w[i] >= cap => New(i) = cap
             /\ Over = {} => New(i) = w[i]
  <2>1. CASE i \in Over
    BY <2>1
  <2>2. CASE i \in Below
    <3>1. i \notin Over /\ w[i] \in Nat /\ ~(w[i] >= cap)
      BY <2>2
    <3>2. New(i) = w[i] + Round(a[i] * excess, share)
      BY <2>2, <3>1
    <3> HIDE DEF New, Over, Below
    <3> QED BY <1>5, <1>8, <2>2, <3>1, <3>2
  <2>3. CASE i \notin Over /\ i \notin Below
    <3>1. New(i) = w[i]
      BY <2>3
    <3>2. w[i] \in Nat /\ w[i] <= cap
      BY <2>3
    <3> HIDE DEF New, Over, Below
    <3> QED BY <3>1, <3>2
  <2> QED BY <2>1, <2>2, <2>3
<1>10. (\A i \in D : w[i] <= cap) => Over = {}
  OBVIOUS
<1> HIDE DEF New, Over, R
<1>11. R \in [D -> Nat]
  BY <1>1, <1>9
<1>12. \A i \in D : w[i] >= cap => R[i] = cap
  BY <1>1, <1>9
<1>13. Over = {} => R = w
  BY <1>1, <1>9
<1>14. Evened(D, w, R, cap)
  BY <1>10, <1>11, <1>12, <1>13 DEF Evened
<1> QED BY <1>14 DEF R

\* The rounds exist: the recursion that CappedWeights names has a solution.
RoundsOf(w, n, initial, a, cap) ==
  w = [k \in 0 .. n |-> IF k = 0 THEN initial ELSE Redistribute(w[k - 1], a, cap)]

LEMMA RoundsExist ==
  ASSUME NEW initial, NEW a, NEW cap, NEW n \in Nat
  PROVE  \E w : RoundsOf(w, n, initial, a, cap)
<1> DEFINE T == {m \in Nat : \E w : RoundsOf(w, m, initial, a, cap)}
<1>1. 0 \in T
  <2> DEFINE w == [k \in 0 .. 0 |-> initial]
  <2>1. RoundsOf(w, 0, initial, a, cap)
    BY DEF RoundsOf
  <2> QED BY <2>1
<1>2. ASSUME NEW m \in Nat, m \in T PROVE m + 1 \in T
  <2>1. PICK v : RoundsOf(v, m, initial, a, cap)
    BY <1>2
  <2> DEFINE w == [k \in 0 .. m + 1 |-> IF k = m + 1 THEN Redistribute(v[m], a, cap) ELSE v[k]]
  <2>2. \A k \in 0 .. m + 1 : k = m + 1 \/ k \in 0 .. m
    OBVIOUS
  <2>3. \A k \in 0 .. m : w[k] = v[k] /\ k \in 0 .. m + 1
    OBVIOUS
  <2>4. \A k \in 0 .. m : v[k] = IF k = 0 THEN initial ELSE Redistribute(v[k - 1], a, cap)
    BY <2>1 DEF RoundsOf
  <2>5. ASSUME NEW k \in 0 .. m + 1
        PROVE  w[k] = IF k = 0 THEN initial ELSE Redistribute(w[k - 1], a, cap)
    <3>1. CASE k = m + 1
      <4>1. k # 0 /\ k - 1 = m /\ m \in 0 .. m
        BY <3>1
      <4>2. w[k] = Redistribute(v[m], a, cap)
        BY <3>1
      <4> HIDE DEF w
      <4> QED BY <2>3, <4>1, <4>2
    <3>2. CASE k # m + 1
      <4>1. k \in 0 .. m /\ (k # 0 => k - 1 \in 0 .. m)
        BY <3>2
      <4> HIDE DEF w
      <4> QED BY <2>3, <2>4, <4>1
    <3> QED BY <3>1, <3>2
  <2>6. w = [k \in 0 .. m + 1 |-> w[k]]
    OBVIOUS
  <2> HIDE DEF w
  <2>7. RoundsOf(w, m + 1, initial, a, cap)
    BY <2>5, <2>6 DEF RoundsOf
  <2> QED BY <2>7
<1> HIDE DEF T
<1>3. \A m \in Nat : m \in T
  BY <1>1, <1>2, NaturalInduction
<1> QED BY <1>3 DEF T

\* After one round more than there are members nothing is above the cap: each
\* round that moves an excess leaves one more member at the cap.
LEMMA CappingEnds ==
  ASSUME NEW D, IsFiniteSet(D), NEW initial \in [D -> Nat], NEW a \in [D -> Nat], NEW cap \in Nat
  PROVE  /\ CappedWeights(initial, a, cap) \in [D -> Nat]
         /\ \A i \in D : CappedWeights(initial, a, cap)[i] <= cap
<1> DEFINE size == Cardinality(D)
           n == size + 1
           w == CHOOSE w : RoundsOf(w, n, initial, a, cap)
           Below(v) == \A i \in D : v[i] <= cap
           AtCap(v) == {i \in D : v[i] = cap}
           T == {k \in Nat : k <= n => /\ w[k] \in [D -> Nat]
                                       /\ Below(w[k]) \/ Cardinality(AtCap(w[k])) >= k}
<1>1. size \in Nat /\ n \in Nat
  BY FS_CardinalityType
<1>2. CappedWeights(initial, a, cap) = w[n]
  <2>1. DOMAIN initial = D
    OBVIOUS
  <2> QED BY <2>1 DEF CappedWeights, RoundsOf
<1>3. RoundsOf(w, n, initial, a, cap)
  <2> HIDE DEF n
  <2> QED BY <1>1, RoundsExist
<1> HIDE DEF w
<1>4. \A k \in 0 .. n : w[k] = IF k = 0 THEN initial ELSE Redistribute(w[k - 1], a, cap)
  BY <1>3 DEF RoundsOf
<1> HIDE DEF n
<1>5. \A v : IsFiniteSet(AtCap(v)) /\ Cardinality(AtCap(v)) \in Nat /\ Cardinality(AtCap(v)) <= size
  <2> SUFFICES ASSUME NEW v
               PROVE  /\ IsFiniteSet(AtCap(v)) /\ Cardinality(AtCap(v)) \in Nat
                      /\ Cardinality(AtCap(v)) <= size
    OBVIOUS
  <2> DEFINE S == AtCap(v)
  <2>1. S \in SUBSET D
    OBVIOUS
  <2> HIDE DEF S
  <2>2. IsFiniteSet(S) /\ Cardinality(S) <= size
    BY <2>1, FS_Subset
  <2>3. Cardinality(S) \in Nat
    BY <2>2, FS_CardinalityType
  <2> QED BY <2>2, <2>3 DEF S
<1>6. 0 \in T
  <2>1. w[0] = initial
    BY <1>1, <1>4
  <2>2. Cardinality(AtCap(w[0])) >= 0
    <3> HIDE DEF AtCap
    <3> QED BY <1>5
  <2> HIDE DEF Below, AtCap
  <2> QED BY <2>1, <2>2
<1>7. ASSUME NEW k \in Nat, k \in T PROVE k + 1 \in T
  <2> SUFFICES ASSUME k + 1 <= n
               PROVE  /\ w[k + 1] \in [D -> Nat]
                      /\ Below(w[k + 1]) \/ Cardinality(AtCap(w[k + 1])) >= k + 1
    BY DEF T
  <2>1. /\ w[k] \in [D -> Nat]
        /\ Below(w[k]) \/ Cardinality(AtCap(w[k])) >= k
    BY <1>1, <1>7
  <2>2. w[k + 1] = Redistribute(w[k], a, cap)
    <3>1. k + 1 \in 0 .. n /\ k + 1 # 0 /\ (k + 1) - 1 = k
      BY <1>1
    <3> QED BY <1>4, <3>1
  <2>3. /\ w[k + 1] \in [D -> Nat]
        /\ \A i \in D : w[k][i] >= cap => w[k + 1][i] = cap
        /\ Below(w[k]) => w[k + 1] = w[k]
    <3>1. Evened(D, w[k], Redistribute(w[k], a, cap), cap)
      BY <2>1, RedistributeMeans
    <3>2. Evened(D, w[k], w[k + 1], cap)
      BY <2>2, <3>1
    <3> QED BY <3>2 DEF Evened
  <2>4. CASE Below(w[k])
    BY <2>3, <2>4
  <2>5. CASE ~Below(w[k])
    <3>1. PICK i \in D : ~(w[k][i] <= cap)
      BY <2>5
    <3>2. AtCap(w[k]) \cup {i} \subseteq AtCap(w[k + 1]) /\ i \notin AtCap(w[k])
      BY <2>1, <2>3, <3>1
    <3> DEFINE S == AtCap(w[k])
               U == AtCap(w[k + 1])
    <3>3. S \cup {i} \in SUBSET U /\ i \notin S
      BY <3>2
    <3>4. IsFiniteSet(S) /\ IsFiniteSet(U) /\ Cardinality(S) \in Nat /\ Cardinality(U) \in Nat
      BY <1>5
    <3>5. Cardinality(S) >= k
      BY <2>1, <2>5
    <3> HIDE DEF S, U
    <3>6. Cardinality(S \cup {i}) = Cardinality(S) + 1
      BY <3>3, <3>4, FS_AddElement
    <3>7. Cardinality(S \cup {i}) <= Cardinality(U)
      BY <3>3, <3>4, FS_Subset
    <3>8. Cardinality(U) >= k + 1
      BY <3>4, <3>5, <3>6, <3>7
    <3> QED BY <2>3, <3>8 DEF U
  <2> QED BY <2>4, <2>5
<1> HIDE DEF T
<1>8. \A k \in Nat : k \in T
  BY <1>6, <1>7, NaturalInduction
<1>9. w[n] \in [D -> Nat] /\ (Below(w[n]) \/ Cardinality(AtCap(w[n])) >= n)
  <2>1. n \in T /\ n <= n
    BY <1>1, <1>8
  <2> HIDE DEF Below, AtCap
  <2> QED BY <2>1 DEF T
<1>10. Cardinality(AtCap(w[n])) \in Nat /\ Cardinality(AtCap(w[n])) <= size
  BY <1>5
<1> HIDE DEF AtCap
<1>11. Below(w[n])
  <2> HIDE DEF Below, size
  <2> QED BY <1>1, <1>9, <1>10 DEF n
<1> QED BY <1>2, <1>9, <1>11

-----------------------------------------------------------------------------
\* The scaling keeps the cap, and exceeds the budget by half a unit for each
\* member at most.
LEMMA ScalingMeans ==
  ASSUME NEW D, IsFiniteSet(D), NEW c \in [D -> Nat], NEW cap \in Nat,
         \A i \in D : c[i] <= cap, NEW budget \in Nat
  PROVE  /\ ScaledToBudget(c, budget) \in [D -> Nat]
         /\ \A i \in D : ScaledToBudget(c, budget)[i] <= cap
         /\ 2 * SumFunction(ScaledToBudget(c, budget)) <= 2 * budget + Cardinality(D)
<1> DEFINE t == SumFunction(c)
           F == [i \in D |-> Round(c[i] * budget, t)]
           size == Cardinality(D)
<1>1. t \in Nat /\ size \in Nat
  BY SumType, FS_CardinalityType
<1>2. ScaledToBudget(c, budget) = IF t > budget THEN F ELSE c
  <2>1. DOMAIN c = D
    OBVIOUS
  <2> QED BY <2>1 DEF ScaledToBudget
<1> HIDE DEF t
<1>3. CASE ~(t > budget)
  <2>1. 2 * t <= 2 * budget + size
    <3> HIDE DEF size
    <3> QED BY <1>1, <1>3
  <2> QED BY <1>2, <1>3, <2>1 DEF t
<1>4. CASE t > budget
  <2>1. t \in Nat \ {0}
    BY <1>1, <1>4
  <2>2. ASSUME NEW i \in D
        PROVE  /\ F[i] \in Nat
               /\ (2 * t) * F[i] <= 2 * (c[i] * budget) + t
    <3> DEFINE x == c[i] * budget
    <3>1. x \in Nat
      OBVIOUS
    <3>2. F[i] = Round(x, t)
      OBVIOUS
    <3> HIDE DEF x, F
    <3>3. F[i] \in Nat /\ (2 * t) * F[i] <= 2 * x + t
      BY <2>1, <3>1, <3>2, RoundMeans
    <3> QED BY <3>3 DEF x
  <2>3. F \in [D -> Nat]
    BY <2>2
  <2> HIDE DEF F
  <2>4. ASSUME NEW i \in D PROVE F[i] <= cap
    <3> DEFINE q == F[i]
               x == c[i] * budget
    <3>1. q \in Nat /\ (2 * t) * q <= 2 * x + t
      BY <2>2
    <3>2. x <= cap * t /\ x \in Nat
      <4>1. c[i] \in Nat /\ c[i] <= cap /\ budget <= t
        BY <1>1, <1>4
      <4> QED BY <1>1, <4>1, Monotone
    <3> HIDE DEF q, x
    <3> SUFFICES ASSUME q >= cap + 1 PROVE FALSE
      BY <3>1 DEF q
    <3>3. (2 * t) * (cap + 1) <= (2 * t) * q
      BY <2>1, <3>1, Monotone
    <3>4. (2 * t) * (cap + 1) = 2 * (cap * t) + 2 * t
      BY <2>1
    <3> DEFINE y == cap * t
               z == (2 * t) * q
    <3>5. y \in Nat /\ z \in Nat
      BY <2>1, <3>1
    <3>6. x <= y /\ z <= 2 * x + t /\ 2 * y + 2 * t <= z
      BY <3>1, <3>2, <3>3, <3>4
    <3> HIDE DEF y, z
    <3> QED BY <2>1, <3>2, <3>5, <3>6
  <2>5. 2 * SumFunction(F) <= 2 * budget + size
    <3> DEFINE p == 2 * t
               b == 2 * budget
               total == SumFunction(F)
    <3>1. p \in Nat /\ b \in Nat
      BY <2>1
    <3>2. \A i \in D : p * F[i] <= b * c[i] + t
      <4> SUFFICES ASSUME NEW i \in D PROVE p * F[i] <= b * c[i] + t
        OBVIOUS
      <4>1. p * F[i] <= 2 * (c[i] * budget) + t
        BY <2>2
      <4>2. 2 * (c[i] * budget) = b * c[i]
        OBVIOUS
      <4> QED BY <4>1, <4>2
    <3> HIDE DEF p, b
    <3>3. p * total <= b * SumFunction(c) + t * size
      BY <1>1, <2>3, <3>1, <3>2, SumBound
    <3>4. total \in Nat
      BY <2>3, SumType
    <3>5. p * total <= b * t + t * size
      BY <3>3 DEF t
    <3> HIDE DEF total, size
    <3>6. p * total = t * (2 * total)
      BY <2>1, <3>4 DEF p
    <3>7. b * t + t * size = t * (b + size)
      BY <1>1, <2>1, <3>1
    <3>8. t * (2 * total) <= t * (b + size)
      BY <3>5, <3>6, <3>7
    <3>9. 2 * total \in Int /\ b + size \in Int
      BY <1>1, <3>1, <3>4
    <3>10. 2 * total <= b + size
      BY <2>1, <3>8, <3>9, Cancel
    <3> QED BY <3>10 DEF b, total
  <2> QED BY <1>2, <1>4, <2>3, <2>4, <2>5
<1> QED BY <1>3, <1>4

\* The parts of the score weights.
LEMMA ConfigWeights ==
  ASSUME NEW config, IsPortfolioConfig(config)
  PROVE  /\ config.weights.discovery \in Nat /\ config.weights.quality \in Nat
         /\ config.weights.diversification \in Nat
         /\ config.weights.cap \in Nat /\ config.weights.bonus \in Nat
         /\ SumOfParts(config.weights) \in Nat \ {0}
<1> DEFINE w == config.weights
<1>1. /\ w \in [discovery : Nat, quality : Nat, diversification : Nat, cap : Nat, bonus : Nat]
      /\ SumOfParts(w) > 0
  BY DEF IsPortfolioConfig
<1> HIDE DEF w
<1>2. /\ w.discovery \in Nat /\ w.quality \in Nat /\ w.diversification \in Nat
      /\ w.cap \in Nat /\ w.bonus \in Nat
  BY <1>1
<1>3. SumOfParts(w) \in Nat \ {0}
  BY <1>1, <1>2 DEF SumOfParts
<1> QED BY <1>2, <1>3 DEF w

\* A score is a number of points.
LEMMA AllocationType ==
  ASSUME NEW inputs, NEW config, IsPortfolioConfig(config), NEW i,
         (inputs[i].discovery = None) \/ (inputs[i].discovery.score \in {None} \cup Nat)
  PROVE  Allocation(inputs, i, config) \in Nat
<1> DEFINE d == inputs[i].discovery
           w == config.weights
           quality == QualityPart(d)
           different == DiversificationPart(inputs, i, config)
           ready == CapReadiness(d)
           bonus == ThresholdBonus(d, config)
           part == DiscoveryPart(d)
           x == w.discovery * part
                + 100 * (w.quality * quality + w.diversification * different
                         + w.cap * ready + w.bonus * bonus)
<1>1. part \in Nat
  BY DEF DiscoveryPart, Scorable
<1>2. quality \in Nat
  BY DEF QualityPart
<1>3. different \in Nat
  BY DEF DiversificationPart
<1>4. ready \in Nat
  BY DEF CapReadiness
<1>5. bonus \in Nat
  BY DEF ThresholdBonus
<1>6. Allocation(inputs, i, config) = Round(x, SumOfParts(w))
  BY DEF Allocation
<1>7. /\ w.discovery \in Nat /\ w.quality \in Nat /\ w.diversification \in Nat
      /\ w.cap \in Nat /\ w.bonus \in Nat
      /\ SumOfParts(w) \in Nat \ {0}
  BY ConfigWeights
<1> HIDE DEF part, quality, different, ready, bonus, d, w
<1>8. x \in Nat
  <2>1. /\ w.discovery * part \in Nat /\ w.quality * quality \in Nat
        /\ w.diversification * different \in Nat
        /\ w.cap * ready \in Nat /\ w.bonus * bonus \in Nat
    BY <1>1, <1>2, <1>3, <1>4, <1>5, <1>7, ProductType
  <2> QED BY <2>1
<1> HIDE DEF x
<1> QED BY <1>6, <1>7, <1>8, RoundMeans

AreInputs(inputs) ==
  /\ IsFiniteSet(DOMAIN inputs)
  /\ \A i \in DOMAIN inputs :
       /\ inputs[i].place \in Nat
       /\ inputs[i].discovery = None \/ inputs[i].discovery.score \in {None} \cup Nat

LEMMA ConfigMeans ==
  ASSUME NEW config, IsPortfolioConfig(config)
  PROVE  /\ config.maxSingle * Unit \in Nat
         /\ config.budget * Unit \in Nat
         /\ config.budget * Unit <= 100 * Unit
         /\ Points(config.watchlist) \in Nat
         /\ Points(config.satellite) \in Nat \ {0}
<1>1. config.maxSingle \in Nat /\ config.budget \in Nat /\ config.budget <= 100 /\ Unit \in Nat
  BY UnitAssumption DEF IsPortfolioConfig
<1>2. config.maxSingle * Unit \in Nat /\ config.budget * Unit \in Nat
  BY <1>1
<1>3. config.budget * Unit <= 100 * Unit
  BY <1>1, Monotone
<1>4. config.watchlist \in Nat /\ config.satellite \in Nat \ {0}
  BY DEF IsPortfolioConfig
<1> QED BY <1>2, <1>3, <1>4 DEF Points

\* Entries with a place in the list and a score.
AreRanked(ranked, Entries) ==
  /\ IsFiniteSet(Entries)
  /\ \A i \in Entries : ranked[i].place \in Nat /\ ranked[i].allocation \in Nat

LEMMA ImageIsFinite ==
  ASSUME NEW S, IsFiniteSet(S), NEW f, f = [x \in S |-> f[x]]
  PROVE  IsFiniteSet({f[x] : x \in S})
<1> DEFINE T == {f[x] : x \in S}
<1>1. f \in Surjection(S, T)
  BY DEF Surjection
<1> HIDE DEF T
<1>2. IsFiniteSet(T)
  BY <1>1, FS_Surjection
<1> QED BY <1>2 DEF T

\* Every pair of some entries has a last one among them.
LEMMA LastEntryMeans ==
  ASSUME NEW ranked, NEW Entries, AreRanked(ranked, Entries),
         NEW p \in {ranked[i].pair : i \in Entries}
  PROVE  LastEntry(ranked, Entries, p) \in Entries
<1> DEFINE S == {i \in Entries : ranked[i].pair = p}
           N == {ranked[i].place : i \in S}
<1>1. IsFiniteSet(N)
  <2>1. IsFiniteSet(S)
    <3>1. S \in SUBSET Entries
      OBVIOUS
    <3> HIDE DEF S
    <3> QED BY <3>1, FS_Subset DEF AreRanked
  <2> DEFINE f == [i \in S |-> ranked[i].place]
  <2>2. N = {f[i] : i \in S} /\ f = [i \in S |-> f[i]]
    OBVIOUS
  <2> HIDE DEF S, f, N
  <2> QED BY <2>1, <2>2, ImageIsFinite
<1>2. N \subseteq Nat /\ N # {}
  BY DEF AreRanked
<1> HIDE DEF N
<1>3. PICK x \in N : \A y \in N : x >= y
  BY <1>1, <1>2, GreatestNatural
<1>4. PICK i \in S : ranked[i].place = x
  BY DEF N
<1>5. \A j \in S : ranked[j].place <= ranked[i].place
  <2> SUFFICES ASSUME NEW j \in S PROVE ranked[j].place <= ranked[i].place
    OBVIOUS
  <2>1. ranked[j].place \in N
    BY DEF N
  <2> QED BY <1>2, <1>3, <1>4, <2>1
<1>6. \E j \in Entries :
        /\ ranked[j].pair = p
        /\ \A k \in Entries : ranked[k].pair = p => ranked[k].place <= ranked[j].place
  BY <1>5
<1> QED BY <1>6 DEF LastEntry

LEMMA ByPairType ==
  ASSUME NEW ranked, NEW Entries, AreRanked(ranked, Entries),
         NEW Pairs, Pairs = {ranked[i].pair : i \in Entries}
  PROVE  /\ IsFiniteSet(Pairs)
         /\ AllocationByPair(ranked, Entries) \in [Pairs -> Nat]
         /\ \A p \in Pairs : \E i \in Entries :
              AllocationByPair(ranked, Entries)[p] = ranked[i].allocation
<1>1. IsFiniteSet(Pairs)
  <2> DEFINE f == [i \in Entries |-> ranked[i].pair]
  <2>1. Pairs = {f[i] : i \in Entries} /\ f = [i \in Entries |-> f[i]]
    OBVIOUS
  <2>2. IsFiniteSet(Entries)
    BY DEF AreRanked
  <2> HIDE DEF f
  <2> QED BY <2>1, <2>2, ImageIsFinite
<1>2. AllocationByPair(ranked, Entries) =
        [p \in Pairs |-> ranked[LastEntry(ranked, Entries, p)].allocation]
  BY DEF AllocationByPair
<1>3. \A p \in Pairs : LastEntry(ranked, Entries, p) \in Entries
  BY LastEntryMeans
<1> QED BY <1>1, <1>2, <1>3 DEF AreRanked

\* The shares of the budget.
LEMMA InitialType ==
  ASSUME NEW ranked, NEW Entries, AreRanked(ranked, Entries),
         \A i \in Entries : ranked[i].allocation # 0,
         NEW config, IsPortfolioConfig(config),
         NEW Pairs, Pairs = {ranked[i].pair : i \in Entries}
  PROVE  InitialWeights(ranked, Entries, config) \in [Pairs -> Nat]
<1> DEFINE f == [i \in Entries |-> ranked[i].allocation]
           total == SumFunction(f)
           a == AllocationByPair(ranked, Entries)
<1>1. a \in [Pairs -> Nat]
  BY ByPairType
<1>2. f \in [Entries -> Nat] /\ IsFiniteSet(Entries)
  BY DEF AreRanked
<1>3. \A i \in Entries : total \in Nat \ {0}
  <2> SUFFICES ASSUME NEW i \in Entries PROVE total \in Nat \ {0}
    OBVIOUS
  <2>1. f[i] \in Nat /\ f[i] # 0
    BY DEF AreRanked
  <2> HIDE DEF f
  <2>2. total \in Nat /\ f[i] <= total
    BY <1>2, SumType, SumElement
  <2> HIDE DEF total
  <2> QED BY <2>1, <2>2
<1>4. InitialWeights(ranked, Entries, config) =
        [p \in Pairs |-> Round(a[p] * config.budget * Unit, total)]
  <2>1. DOMAIN a = Pairs
    BY <1>1
  <2> QED BY <2>1 DEF InitialWeights
<1> HIDE DEF a, total, f
<1>5. ASSUME NEW p \in Pairs PROVE Round(a[p] * config.budget * Unit, total) \in Nat
  <2>1. a[p] \in Nat /\ config.budget \in Nat /\ Unit \in Nat
    BY <1>1, UnitAssumption DEF IsPortfolioConfig
  <2>2. a[p] * config.budget * Unit \in Nat
    BY <2>1
  <2>3. total \in Nat \ {0}
    BY <1>3
  <2> QED BY <2>2, <2>3, RoundMeans
<1> QED BY <1>4, <1>5

\* The scores of a portfolio.
LEMMA ScoresAreBounded ==
  ASSUME NEW inputs, AreInputs(inputs), NEW config, IsPortfolioConfig(config),
         NEW scores, scores = Scores(inputs, config),
         NEW weight, weight = WeightByPair(scores)
  PROVE  /\ DOMAIN scores = DOMAIN inputs
         /\ \A k \in DOMAIN scores : /\ scores[k].weight \in Nat
                                     /\ scores[k].weight <= config.maxSingle * Unit
                                     /\ scores[k].weight = weight[scores[k].pair]
         /\ IsFiniteSet(DOMAIN weight)
         /\ weight \in [DOMAIN weight -> Nat]
         /\ 2 * SumFunction(weight) <= 2 * (config.budget * Unit) + Cardinality(DOMAIN weight)
<1> DEFINE D == DOMAIN inputs
           ranked == Ranked(inputs, config)
           Entries == Pool(ranked, config)
           P == {ranked[i].pair : i \in Entries}
           Q == {ranked[i].pair : i \in D}
           Over == OverCount(ranked, config)
           initial == InitialWeights(ranked, Entries, config)
           a == AllocationByPair(ranked, D)
           W == {p \in DOMAIN initial : initial[p] > 0}
           cap == config.maxSingle * Unit
           budget == config.budget * Unit
           final == FinalWeights(Restrict(initial, W), Restrict(a, W), config)
           At(f, p) == IF p \in DOMAIN f THEN f[p] ELSE 0
           given == [p \in Q |-> At(final, p)]
<1>0. /\ cap \in Nat /\ budget \in Nat /\ IsFiniteSet(D)
      /\ Points(config.satellite) \in Nat \ {0}
  BY ConfigMeans DEF AreInputs
<1>1. DOMAIN ranked = D /\ AreRanked(ranked, D)
  <2>1. /\ DOMAIN ranked = D
        /\ \A i \in D : /\ ranked[i].allocation = Allocation(inputs, i, config)
                        /\ ranked[i].place = inputs[i].place
    BY DEF Ranked
  <2>2. \A i \in D : Allocation(inputs, i, config) \in Nat /\ inputs[i].place \in Nat
    BY AllocationType DEF AreInputs
  <2> HIDE DEF ranked
  <2> QED BY <1>0, <2>1, <2>2 DEF AreRanked
<1>2. scores = [i \in D |-> Score(ranked[i], ranked[i].pair \in Over, At(initial, ranked[i].pair),
                                  At(final, ranked[i].pair), config)]
  <2>1. scores = Weighed(ranked, initial, config)
    BY DEF Scores
  <2> HIDE DEF ranked, initial
  <2>2. Weighed(ranked, initial, config) =
          [i \in DOMAIN ranked |->
             Score(ranked[i], ranked[i].pair \in Over, At(initial, ranked[i].pair),
                   At(FinalWeights(Restrict(initial, W),
                                   Restrict(AllocationByPair(ranked, DOMAIN ranked), W), config),
                      ranked[i].pair), config)]
    BY DEF Weighed
  <2> QED BY <1>1, <2>1, <2>2
<1> HIDE DEF ranked
<1>3. /\ Entries \in SUBSET D /\ AreRanked(ranked, Entries)
      /\ \A i \in Entries : ranked[i].allocation # 0
  <2>1. /\ Entries \in SUBSET D
        /\ \A i \in Entries : ranked[i].allocation >= Points(config.satellite)
    BY <1>1 DEF Pool
  <2> HIDE DEF Entries, D
  <2>2. IsFiniteSet(Entries)
    BY <1>0, <2>1, FS_Subset
  <2>3. \A i \in Entries : ranked[i].allocation \in Nat /\ ranked[i].place \in Nat
    BY <1>1, <2>1 DEF AreRanked
  <2>4. \A i \in Entries : ranked[i].allocation # 0
    <3> DEFINE low == Points(config.satellite)
    <3>1. low \in Nat \ {0}
      BY <1>0
    <3> HIDE DEF low
    <3> SUFFICES ASSUME NEW i \in Entries PROVE ranked[i].allocation # 0
      OBVIOUS
    <3>2. ranked[i].allocation >= low
      BY <2>1 DEF low
    <3> QED BY <2>3, <3>1, <3>2
  <2> QED BY <2>1, <2>2, <2>3, <2>4 DEF AreRanked
<1>4. P \in SUBSET Q
  BY <1>3
<1> HIDE DEF Entries, Over
<1>5. initial \in [P -> Nat]
  <2> HIDE DEF P, initial
  <2>1. P = {ranked[i].pair : i \in Entries}
    BY DEF P
  <2> QED BY <1>3, <2>1, InitialType DEF initial
<1>6. IsFiniteSet(P) /\ IsFiniteSet(Q) /\ a \in [Q -> Nat]
  <2>1. IsFiniteSet(P)
    BY <1>3, ByPairType
  <2>2. IsFiniteSet(Q) /\ AllocationByPair(ranked, D) \in [Q -> Nat]
    <3> HIDE DEF D
    <3> QED BY <1>1, ByPairType
  <2> QED BY <2>1, <2>2
<1> HIDE DEF initial, a, P
<1>7. W \in SUBSET P /\ IsFiniteSet(W) /\ W \in SUBSET Q
  <2>1. W \in SUBSET P
    BY <1>5
  <2> HIDE DEF W, Q
  <2>2. IsFiniteSet(W)
    BY <1>6, <2>1, FS_Subset
  <2> QED BY <1>4, <2>1, <2>2
<1> HIDE DEF W
<1>8. Restrict(initial, W) \in [W -> Nat] /\ Restrict(a, W) \in [W -> Nat]
  <2> HIDE DEF Q
  <2> QED BY <1>5, <1>6, <1>7 DEF Restrict
<1>9. /\ final \in [W -> Nat]
      /\ \A p \in W : final[p] <= cap
      /\ 2 * SumFunction(final) <= 2 * budget + Cardinality(W)
  <2> DEFINE u == Restrict(initial, W)
             v == Restrict(a, W)
             c == CappedWeights(u, v, cap)
  <2>1. final = ScaledToBudget(c, budget)
    BY DEF FinalWeights
  <2> HIDE DEF cap, budget, u, v
  <2>2. u \in [W -> Nat] /\ v \in [W -> Nat]
    BY <1>8 DEF u, v
  <2>3. c \in [W -> Nat] /\ \A p \in W : c[p] <= cap
    BY <1>0, <1>7, <2>2, CappingEnds
  <2> HIDE DEF c
  <2>4. /\ ScaledToBudget(c, budget) \in [W -> Nat]
        /\ \A p \in W : ScaledToBudget(c, budget)[p] <= cap
        /\ 2 * SumFunction(ScaledToBudget(c, budget)) <= 2 * budget + Cardinality(W)
    BY <1>0, <1>7, <2>3, ScalingMeans
  <2> HIDE DEF final
  <2> QED BY <2>1, <2>4
<1> HIDE DEF final
<1>10. /\ DOMAIN scores = D
       /\ \A i \in D : /\ scores[i].pair = ranked[i].pair
                       /\ ranked[i].pair \in Q
                       /\ scores[i].weight = given[ranked[i].pair]
  BY <1>2 DEF Score
<1>11. given \in [Q -> Nat] /\ \A p \in Q : given[p] <= cap
  <2> HIDE DEF cap, Q
  <2> QED BY <1>0, <1>9
<1>12. SumFunction(given) = SumFunction(final)
  <2>1. Restrict(given, W) = final
    <3> HIDE DEF Q
    <3> QED BY <1>7, <1>9 DEF Restrict
  <2>2. \A p \in Q \ W : given[p] = 0
    BY <1>9
  <2> HIDE DEF given, Q
  <2>3. SumFunction(Restrict(given, W)) = SumFunction(given)
    BY <1>6, <1>7, <1>11, <2>2, SumOfPart
  <2> QED BY <2>1, <2>3
<1>13. weight = given
  <2> HIDE DEF given, D
  <2>1. {scores[i].pair : i \in DOMAIN scores} = Q
    BY <1>10
  <2>2. weight = [p \in Q |-> scores[CHOOSE i \in D : scores[i].pair = p].weight]
    BY <1>10, <2>1 DEF WeightByPair
  <2>3. ASSUME NEW p \in Q PROVE scores[CHOOSE i \in D : scores[i].pair = p].weight = given[p]
    <3>1. \E i \in D : scores[i].pair = p
      BY <1>10
    <3> DEFINE j == CHOOSE i \in D : scores[i].pair = p
    <3>2. j \in D /\ scores[j].pair = p
      BY <3>1
    <3> HIDE DEF j, Q
    <3>3. scores[j].weight = given[p]
      BY <1>10, <3>2
    <3> QED BY <3>3 DEF j
  <2> HIDE DEF Q
  <2> QED BY <1>11, <2>2, <2>3
<1>14. 2 * SumFunction(given) <= 2 * budget + Cardinality(Q)
  <2> DEFINE s == SumFunction(final)
  <2>1. s \in Nat
    BY <1>7, <1>9, SumType
  <2>2. Cardinality(W) <= Cardinality(Q) /\ Cardinality(W) \in Nat /\ Cardinality(Q) \in Nat
    <3> HIDE DEF Q
    <3> QED BY <1>6, <1>7, FS_Subset, FS_CardinalityType
  <2>3. 2 * s <= 2 * budget + Cardinality(W)
    BY <1>9
  <2> HIDE DEF s, budget, Q, given
  <2>4. 2 * s <= 2 * budget + Cardinality(Q)
    BY <1>0, <2>1, <2>2, <2>3
  <2> QED BY <1>12, <2>4 DEF s
<1>15. \A k \in D : /\ scores[k].weight \in Nat /\ scores[k].weight <= cap
                    /\ scores[k].weight = given[scores[k].pair]
  <2> HIDE DEF given, cap, Q, D
  <2> QED BY <1>10, <1>11
<1>16. DOMAIN given = Q
  OBVIOUS
<1> HIDE DEF given, D, cap, budget, Q
<1> QED BY <1>6, <1>10, <1>11, <1>13, <1>14, <1>15, <1>16 DEF D, cap, budget
-----------------------------------------------------------------------------
\* What discovery scores is a number of points.
LEMMA JudgeType ==
  ASSUME NEW item, IsItem(item), NEW config
  PROVE  Judge(item, config).score \in Nat
<1> DEFINE rs == ReadyScore(item.rs)
           oi == ReadyScore(item.oi)
           align == Alignment(item.rs, item.oi)
           quality == ContextQuality(item.rs, item.oi)
           bonus == FilterBonus(item, config)
<1>1. rs \in Nat /\ oi \in Nat
  BY DEF ReadyScore, Ready, IsItem, IsContext
<1>2. align \in Nat
  BY DEF Alignment
<1>3. quality \in Nat
  BY DEF ContextQuality
<1>4. bonus \in Nat
  BY DEF FilterBonus
<1>5. DiscoveryScore(item, config) = 35 * rs + 25 * oi + 20 * align + 10 * quality + 10 * bonus
  BY DEF DiscoveryScore
<1> HIDE DEF rs, oi, align, quality, bonus
<1>6. DiscoveryScore(item, config) \in Nat
  BY <1>1, <1>2, <1>3, <1>4, <1>5
<1> QED BY <1>6 DEF Judge, Judged, Scored

\* A discovery report is what its step made of its items.
LEMMA DiscoveryResult ==
  ASSUME RunInv, NEW d \in 1 .. Done, results[d].report.kind = "DISCOVERY"
  PROVE  /\ steps[d].kind = "DISCOVERY"
         /\ results[d].report = DiscoveryReport(steps[d].inline, steps[d].config)
         /\ DOMAIN steps[d].inline = 1 .. Len(steps[d].inline)
         /\ IsFiniteSet(DOMAIN steps[d].inline)
         /\ \A k \in DOMAIN steps[d].inline : IsItem(steps[d].inline[k])
<1>1. /\ d \in 1 .. Len(steps)
      /\ results[d].report.kind \in {"NONE", steps[d].kind}
      /\ results[d].report = Outcome(steps[d], d - 1).report
  BY ResultType
<1>2. steps[d].kind = "DISCOVERY"
  BY <1>1
<1>3. results[d].report = DiscoveryOutcome(steps[d]).report
  BY <1>1, <1>2 DEF Outcome
<1>4. results[d].report = DiscoveryReport(steps[d].inline, steps[d].config)
  BY <1>3 DEF DiscoveryOutcome, Refused, Made, NoReport
<1>5. IsStep(steps[d])
  BY <1>1, PlanType DEF RunInv
<1> DEFINE items == steps[d].inline
<1>6. items \in Seq(Range(items)) /\ \A item \in Range(items) : IsItem(item)
  BY <1>2, <1>5 DEF IsStep, IsInline
<1> HIDE DEF items
<1>7. DOMAIN items = 1 .. Len(items) /\ Len(items) \in Nat
  BY <1>6
<1>8. IsFiniteSet(DOMAIN items)
  BY <1>7, FS_Interval
<1>9. \A k \in DOMAIN items : IsItem(items[k])
  BY <1>6 DEF Range
<1> QED BY <1>2, <1>4, <1>7, <1>8, <1>9 DEF items

\* What a portfolio step is fed is what a portfolio takes.
LEMMA InputsType ==
  ASSUME RunInv, NEW i \in 1 .. Done, steps[i].kind = "PORTFOLIO"
  PROVE  AreInputs(PortfolioInputs(steps[i], i - 1))
<1> DEFINE s == steps[i]
           n == i - 1
           From == Source(s, "DISCOVERY", n)
           report == ReportFrom(From)
           inputs == PortfolioInputs(s, n)
<1>1. i \in 1 .. Len(steps) /\ request \in Requests
  BY ResultType DEF RunInv
<1>2. n \in Nat /\ 1 .. n \subseteq 1 .. Done
  <2>1. Done \in Nat
    BY AppendOne DEF RunInv, Done
  <2> QED BY <2>1
<1>3. CASE s.inline # None
  <2>1. inputs = s.inline
    BY <1>3 DEF PortfolioInputs
  <2>2. IsStep(s)
    BY <1>1, PlanType
  <2>3. inputs \in Seq(Range(inputs)) /\ \A k \in DOMAIN inputs : IsPortfolioInput(inputs[k])
    BY <1>3, <2>1, <2>2 DEF IsStep, IsInline
  <2> HIDE DEF inputs
  <2>4. DOMAIN inputs = 1 .. Len(inputs) /\ Len(inputs) \in Nat
    BY <2>3
  <2>5. IsFiniteSet(DOMAIN inputs)
    BY <2>4, FS_Interval
  <2>6. \A k \in DOMAIN inputs :
          /\ inputs[k].place \in Nat
          /\ inputs[k].discovery = None \/ inputs[k].discovery.score \in {None} \cup Nat
    <3>1. 0 .. Points(100) \subseteq Nat
      BY DEF Points
    <3> QED BY <2>3, <3>1 DEF IsPortfolioInput
  <2>7. AreInputs(inputs)
    BY <2>5, <2>6 DEF AreInputs
  <2> QED BY <2>7 DEF inputs
<1>4. CASE s.inline = None /\ report.kind = "DISCOVERY"
  <2>1. inputs = [k \in DOMAIN report.candidates |->
                    FromCandidate(report.candidates[k], Place(report.candidates, k))]
    <3> HIDE DEF s
    <3> QED BY <1>4 DEF PortfolioInputs
  <2>2. From # {}
    BY <1>4 DEF ReportFrom, NoReport
  <2>3. PICK d \in From : d \in 1 .. n /\ report = results[d].report
    <3> HIDE DEF s, n
    <3> QED BY <1>2, <2>2, SourceMeans
  <2> DEFINE items == steps[d].inline
             config == steps[d].config
             Chosen == {k \in DOMAIN items : config.keepExcluded \/ Judge(items[k], config).state # "EXCLUDED"}
  <2>4. /\ report = DiscoveryReport(items, config)
        /\ IsFiniteSet(DOMAIN items)
        /\ \A k \in DOMAIN items : IsItem(items[k])
    <3>1. d \in 1 .. Done /\ results[d].report.kind = "DISCOVERY"
      BY <1>2, <1>4, <2>3
    <3> QED BY <2>3, <3>1, DiscoveryResult
  <2> HIDE DEF items, config, report, inputs
  <2>5. report.candidates = [k \in Chosen |-> DiscoveryCandidate(items[k], config)]
    BY <2>4 DEF DiscoveryReport
  <2>6. IsFiniteSet(Chosen)
    <3>1. Chosen \in SUBSET DOMAIN items
      OBVIOUS
    <3> HIDE DEF Chosen
    <3> QED BY <2>4, <3>1, FS_Subset
  <2>7. DOMAIN inputs = Chosen
    BY <2>1, <2>5
  <2>8. \A k \in Chosen : inputs[k].discovery.score = Judge(items[k], config).score
    <3> SUFFICES ASSUME NEW k \in Chosen PROVE inputs[k].discovery.score = Judge(items[k], config).score
      OBVIOUS
    <3> HIDE DEF Chosen
    <3> DEFINE c == DiscoveryCandidate(items[k], config)
    <3>1. inputs[k] = FromCandidate(c, Place(report.candidates, k))
      BY <2>1, <2>5
    <3>2. c.score = Judge(items[k], config).score
      BY DEF DiscoveryCandidate
    <3> HIDE DEF c
    <3> QED BY <3>1, <3>2 DEF FromCandidate
  <2>9. \A k \in Chosen : Judge(items[k], config).score \in Nat
    BY <2>4, JudgeType
  <2>10. \A k \in Chosen : inputs[k].place \in Nat
    <3> SUFFICES ASSUME NEW k \in Chosen PROVE inputs[k].place \in Nat
      OBVIOUS
    <3>1. inputs[k].place = Place(report.candidates, k)
      BY <2>1, <2>7 DEF FromCandidate
    <3>2. \E S \in SUBSET Chosen : Place(report.candidates, k) = 1 + Cardinality(S)
      <4>1. DOMAIN report.candidates = Chosen
        BY <2>5
      <4> HIDE DEF Chosen
      <4> QED BY <4>1 DEF Place
    <3> HIDE DEF Chosen
    <3>3. PICK S \in SUBSET Chosen : Place(report.candidates, k) = 1 + Cardinality(S)
      BY <3>2
    <3>4. Cardinality(S) \in Nat
      BY <2>6, FS_Subset, FS_CardinalityType
    <3> QED BY <3>1, <3>3, <3>4
  <2>11. AreInputs(inputs)
    <3> HIDE DEF Chosen
    <3> QED BY <2>6, <2>7, <2>8, <2>9, <2>10 DEF AreInputs
  <2> QED BY <2>11 DEF inputs
<1>5. CASE s.inline = None /\ report.kind # "DISCOVERY"
  <2>1. inputs = << >>
    <3> HIDE DEF s
    <3> QED BY <1>5 DEF PortfolioInputs
  <2>2. DOMAIN inputs = {}
    BY <2>1
  <2> HIDE DEF inputs
  <2>3. AreInputs(inputs)
    BY <2>2, FS_EmptySet DEF AreInputs
  <2> QED BY <2>3 DEF inputs
<1> QED BY <1>3, <1>4, <1>5

\* The weights of every portfolio stay below the cap, are the same for all
\* entries of a pair and, each pair counted once, above the budget by half a
\* unit for each pair at most; and nothing but a total above the budget, every
\* entry counted, fails a portfolio step before its files are written.
THEOREM WeightsAreAlwaysBounded == Spec => []WeightsAreBounded
<1>1. ASSUME RunInv PROVE WeightsAreBounded
  <2> SUFFICES ASSUME NEW i \in 1 .. Done, steps[i].kind = "PORTFOLIO",
                      NEW scores, scores = Scores(PortfolioInputs(steps[i], i - 1), steps[i].config),
                      NEW byPair, byPair = WeightByPair(scores)
               PROVE  /\ \A k \in DOMAIN scores :
                           /\ scores[k].weight <= steps[i].config.maxSingle * Unit
                           /\ scores[k].weight = byPair[scores[k].pair]
                      /\ 2 * (SumFunction(byPair) - steps[i].config.budget * Unit)
                           <= Cardinality(DOMAIN byPair)
                      /\ results[i].reason = "ENGINE" =>
                           TotalWeight(scores) > steps[i].config.budget * Unit
    BY DEF WeightsAreBounded
  <2> DEFINE config == steps[i].config
             inputs == PortfolioInputs(steps[i], i - 1)
             D == DOMAIN scores
             P == DOMAIN byPair
             weight == [k \in D |-> scores[k].weight]
             cap == config.maxSingle * Unit
             budget == config.budget * Unit
  <2>1. IsPortfolioConfig(config)
    <3>1. i \in 1 .. Len(steps) /\ request \in Requests
      BY <1>1, ResultType DEF RunInv
    <3> QED BY <3>1, PlanType DEF IsStep
  <2>2. AreInputs(inputs)
    BY <1>1, InputsType
  <2>3. /\ D = DOMAIN inputs
        /\ \A k \in D : /\ scores[k].weight \in Nat /\ scores[k].weight <= cap
                         /\ scores[k].weight = byPair[scores[k].pair]
        /\ IsFiniteSet(P) /\ byPair \in [P -> Nat]
        /\ 2 * SumFunction(byPair) <= 2 * budget + Cardinality(P)
    <3>1. scores = Scores(inputs, config)
      OBVIOUS
    <3> HIDE DEF config, inputs
    <3> QED BY <2>1, <2>2, <3>1, ScoresAreBounded
  <2>4. cap \in Nat /\ budget \in Nat /\ budget <= 100 * Unit
    <3> HIDE DEF config
    <3> QED BY <2>1, ConfigMeans
  <2>5. IsFiniteSet(D) /\ weight \in [D -> Nat]
    BY <2>2, <2>3 DEF AreInputs
  <2>6. TotalWeight(scores) = SumFunction(weight)
    BY DEF TotalWeight
  <2> HIDE DEF D, P, weight, config, inputs
  <2>7. TotalWeight(scores) \in Nat
    BY <2>5, <2>6, SumType
  <2>8. 2 * (SumFunction(byPair) - budget) <= Cardinality(P)
    <3> DEFINE total == SumFunction(byPair)
    <3>1. total \in Nat /\ Cardinality(P) \in Nat
      BY <2>3, SumType, FS_CardinalityType
    <3>2. 2 * total <= 2 * budget + Cardinality(P)
      BY <2>3
    <3> HIDE DEF budget, total
    <3>3. 2 * (total - budget) <= Cardinality(P)
      BY <2>4, <3>1, <3>2
    <3> QED BY <3>3 DEF total
  <2>9. ASSUME results[i].reason = "ENGINE" PROVE TotalWeight(scores) > budget
    <3>1. ReportRefused(scores, config)
      <4>1. RecordedAs(results[i], i)
        BY <1>1 DEF RunInv
      <4>2. Outcome(steps[i], i - 1) = PortfolioOutcome(steps[i], i - 1)
        BY DEF Outcome
      <4>3. results[i].reason = PortfolioOutcome(steps[i], i - 1).reason
        BY <2>9, <4>1, <4>2 DEF RecordedAs, Skipped, Result, Failed
      <4> QED BY <2>9, <4>3 DEF PortfolioOutcome, Refused, Made, config
    <3> DEFINE L == Listed(scores, config)
               kept == Restrict(scores, L)
    <3>2. L \in SUBSET D
      BY DEF Listed, D
    <3>3. TotalWeight(kept) <= TotalWeight(scores) /\ TotalWeight(kept) \in Nat
      <4>1. [k \in DOMAIN kept |-> kept[k].weight] = Restrict(weight, L)
        BY <3>2 DEF Restrict, weight
      <4> HIDE DEF L
      <4>2. SumFunction(Restrict(weight, L)) <= SumFunction(weight)
        BY <2>5, <3>2, SumOfPart
      <4>3. SumFunction(Restrict(weight, L)) \in Nat
        BY <2>5, <3>2, PartSplit
      <4> HIDE DEF kept
      <4> QED BY <2>6, <4>1, <4>2, <4>3 DEF TotalWeight
    <3>4. TotalWeight(scores) > 100 * Unit \/ TotalWeight(kept) > budget
      BY <3>1 DEF ReportRefused
    <3> DEFINE hundred == 100 * Unit
    <3>5. hundred \in Nat
      BY UnitAssumption
    <3> HIDE DEF budget, kept, hundred
    <3> QED BY <2>4, <2>7, <3>3, <3>4, <3>5 DEF hundred
  <2> QED BY <2>3, <2>8, <2>9 DEF config, D
<1> QED BY <1>1, RunInvariant, PTL

-----------------------------------------------------------------------------
(***************************************************************************)
(* What leaves the run is made of what the run has: an ended run keeps its  *)
(* results, the export is that of its first universe, and the packet that   *)
(* of the export.                                                           *)
(***************************************************************************)
FinalInv ==
  /\ export # None => /\ state # None
                      /\ export = ExportOfRun(state, ReportFrom(FirstUniverse), request.export)
  /\ packet # None => /\ export # None
                      /\ \E stale \in BOOLEAN : packet = Packet(export, stale)

LEMMA FinalInvariant == Spec => []FinalInv
<1>1. Init => FinalInv
  BY DEF Init, FinalInv
<1>2. FinalInv /\ [Next]_vars => FinalInv'
  <2> SUFFICES ASSUME FinalInv, [Next]_vars PROVE FinalInv'
    OBVIOUS
  <2>1. ASSUME request' = request, results' = results
        PROVE  ReportFrom(FirstUniverse)' = ReportFrom(FirstUniverse)
    BY <2>1 DEF ReportFrom, FirstUniverse, Done, steps
  <2>2. ASSUME state = None, export' = export, packet' = packet PROVE FinalInv'
    BY <2>2 DEF FinalInv
  <2>3. ASSUME UNCHANGED vars PROVE FinalInv'
    BY <2>1, <2>3 DEF FinalInv, vars
  <2>4. CASE RefusePlan
    BY <2>2, <2>4 DEF RefusePlan
  <2>5. CASE Skip
    BY <2>2, <2>5 DEF Skip, Running
  <2>6. CASE StepUnwritten
    BY <2>2, <2>6 DEF StepUnwritten, Running
  <2>7. CASE StepWritten
    BY <2>2, <2>7 DEF StepWritten, Running
  <2>8. CASE WriteFails
    BY <2>2, <2>8 DEF WriteFails, Running
  <2>9. CASE Finish
    BY <2>2, <2>9 DEF Finish
  <2>10. CASE Export
    <3>1. /\ request' = request /\ results' = results /\ state' = state /\ packet' = packet
          /\ state # None /\ export = None
          /\ export' = ExportOfRun(state, ReportFrom(FirstUniverse), request.export)
      BY <2>10 DEF Export
    <3>2. ReportFrom(FirstUniverse)' = ReportFrom(FirstUniverse)
      BY <2>1, <3>1
    <3> QED BY <3>1, <3>2 DEF FinalInv
  <2>11. CASE \E stale \in BOOLEAN : Adapt(stale)
    <3>1. PICK stale \in BOOLEAN : Adapt(stale)
      BY <2>11
    <3>2. /\ request' = request /\ results' = results /\ state' = state /\ export' = export
          /\ export # None /\ packet' = Packet(export, stale)
      BY <3>1 DEF Adapt
    <3>3. ReportFrom(FirstUniverse)' = ReportFrom(FirstUniverse)
      BY <2>1, <3>2
    <3> QED BY <3>2, <3>3 DEF FinalInv
  <2>12. CASE Answered
    BY <2>3, <2>12 DEF Answered
  <2> QED BY <2>3, <2>4, <2>5, <2>6, <2>7, <2>8, <2>9, <2>10, <2>11, <2>12 DEF Next
<1> QED BY <1>1, <1>2, PTL DEF Spec

-----------------------------------------------------------------------------
\* A coin of the packet has a wanted name in a safe universe, and no refused
\* one.
LEMMA ListedMeans ==
  ASSUME NEW report, NEW config, NEW end, NEW stale,
         NEW coin \in Packet(ExportOfRun(end, report, config), stale).whitelist
  PROVE  /\ report # NoReport
         /\ end \notin {"BLOCKED", "FAILED"}
         /\ report.safe
         /\ \E k \in DOMAIN report.items :
              /\ Coin[Formatted(report.items[k].pair, config)] = coin
              /\ \/ report.items[k].state = "INCLUDED"
                 \/ config.withWatchlist /\ report.items[k].state = "WATCHLIST"
         /\ \A k \in DOMAIN report.items :
              Coin[Formatted(report.items[k].pair, config)] = coin =>
                report.items[k].state \notin {"BLOCKED", "EXCLUDED", "INSUFFICIENT_DATA"}
<1> DEFINE made == ExportOfRun(end, report, config)
           Wanted == {"INCLUDED"} \cup (IF config.withWatchlist THEN {"WATCHLIST"} ELSE {})
           Refused1 == {"BLOCKED", "EXCLUDED", "INSUFFICIENT_DATA"}
<1>1. ~made.blocked /\ coin \in Coins(made.whitelist) /\ coin \notin Coins(made.blacklist)
  <2> HIDE DEF made
  <2>1. coin \in Packet(made, stale).whitelist
    BY DEF made
  <2>2. ~made.blocked
    BY <2>1 DEF Packet
  <2>3. coin \in Uncontradicted(Coins(made.whitelist), Coins(made.blacklist))
    BY <2>1 DEF Packet
  <2> QED BY <2>2, <2>3 DEF Uncontradicted
<1>2. report # NoReport
  BY <1>1 DEF ExportOfRun, ExportOf
<1>3. end \notin {"BLOCKED", "FAILED"}
  BY <1>1, <1>2 DEF ExportOfRun
<1>4. /\ made.blocked = ExportBlocked(report)
      /\ made.blacklist = PairsIn(report, Refused1, config)
      /\ made.whitelist = IF ExportBlocked(report) THEN {} ELSE PairsIn(report, Wanted, config)
  BY <1>2, <1>3 DEF ExportOfRun, ExportOf
<1>5. ~ExportBlocked(report)
  BY <1>1, <1>4
<1>6. report.safe
  BY <1>5 DEF ExportBlocked
<1>7. coin \in Coins(PairsIn(report, Wanted, config)) /\ coin \notin Coins(PairsIn(report, Refused1, config))
  BY <1>1, <1>4, <1>5
<1> HIDE DEF made, Wanted, Refused1
<1>8. PICK q \in PairsIn(report, Wanted, config) : Coin[q] # None /\ Coin[q] = coin
  BY <1>7 DEF Coins
<1>9. PICK k \in DOMAIN report.items : report.items[k].state \in Wanted
                                       /\ q = Formatted(report.items[k].pair, config)
  BY <1>8 DEF PairsIn
<1>10. \/ report.items[k].state = "INCLUDED"
       \/ config.withWatchlist /\ report.items[k].state = "WATCHLIST"
  BY <1>9 DEF Wanted
<1>11. ASSUME NEW j \in DOMAIN report.items, Coin[Formatted(report.items[j].pair, config)] = coin
       PROVE  report.items[j].state \notin Refused1
  <2> SUFFICES ASSUME report.items[j].state \in Refused1 PROVE FALSE
    OBVIOUS
  <2>1. Formatted(report.items[j].pair, config) \in PairsIn(report, Refused1, config)
    BY DEF PairsIn
  <2>2. coin \in Coins(PairsIn(report, Refused1, config))
    BY <1>8, <1>11, <2>1 DEF Coins
  <2> QED BY <1>7, <2>2
<1> QED BY <1>2, <1>3, <1>6, <1>8, <1>9, <1>10, <1>11 DEF Refused1

\* A universe with items that is safe was made by a successful step, under an
\* open execution context and of a safe portfolio.
LEMMA UniverseMeans ==
  ASSUME RunInv, NEW u \in 1 .. Done, steps[u].kind = "UNIVERSE",
         results[u].report # NoReport, results[u].report.safe,
         DOMAIN results[u].report.items # {},
         NEW given,
         given = IF steps[u].inline # None THEN steps[u].inline
                 ELSE ReportFrom(Source(steps[u], "PORTFOLIO", u - 1))
  PROVE  /\ results[u].state = "SUCCESS"
         /\ Open(steps[u].exec)
         /\ given.kind = "PORTFOLIO" /\ given.safe
         /\ results[u].report.items
              = UniverseItems(given.scores, steps[u].exec.allowed, steps[u].config)
<1> DEFINE s == steps[u]
           n == u - 1
           made == UniverseReport(given, s.exec, s.config)
           reason == UniverseReason(given, s.exec)
           outcome == UniverseOutcome(s, n)
<1>1. IsExecution(s.exec)
  <2>1. u \in 1 .. Len(steps) /\ request \in Requests
    BY ResultType DEF RunInv
  <2> QED BY <2>1, PlanType DEF IsStep
<1>2. \E paths \in {{}, Written(u)} : results[u] = Result(outcome, paths)
  <2>1. RecordedAs(results[u], u) /\ Outcome(s, n) = outcome
    BY DEF RunInv, Outcome
  <2> HIDE DEF outcome
  <2> QED BY <2>1 DEF RecordedAs, Skipped, Result, Failed
<1>3. results[u].report = outcome.report /\ results[u].state = outcome.state
  <2> HIDE DEF outcome
  <2> QED BY <1>2 DEF Result
<1>4. /\ outcome.report = made /\ given.kind = "PORTFOLIO"
      /\ made.safe /\ made.reason \notin BlockingReasons => outcome.state = "SUCCESS"
  <2> HIDE DEF s, n, made
  <2>1. \/ outcome = Refused("MISSING_PORTFOLIO_CONTEXT")
        \/ outcome = Refused("STALE_INPUT")
        \/ outcome = Failed("ENGINE")
        \/ /\ given.kind = "PORTFOLIO"
           /\ \/ outcome = Made(made)
              \/ /\ ~(made.safe /\ made.reason \notin BlockingReasons)
                 /\ outcome = [state |-> "BLOCKED", reason |-> made.reason, report |-> made]
    BY DEF UniverseOutcome, s, n, made
  <2> HIDE DEF outcome
  <2>2. outcome.report # NoReport
    BY <1>3
  <2> QED BY <2>1, <2>2 DEF Refused, Failed, Made
<1> HIDE DEF outcome
<1>5. /\ made.reason = reason
      /\ made.items = IF reason = "NONE" THEN UniverseItems(given.scores, s.exec.allowed, s.config)
                      ELSE << >>
  BY DEF UniverseReport
<1>6. made.safe /\ DOMAIN made.items # {}
  BY <1>3, <1>4
<1> HIDE DEF made
<1>7. reason = "NONE"
  BY <1>5, <1>6
<1>8. outcome.state = "SUCCESS"
  BY <1>4, <1>5, <1>6, <1>7 DEF BlockingReasons
<1>9. s.exec # None /\ ExecutionReason(s.exec) = "NONE" /\ QualityReason(given, s.exec) = "NONE"
  <2> HIDE DEF s
  <2> QED BY <1>7 DEF UniverseReason
<1>10. s.exec.fresh /\ given.safe
  <2> HIDE DEF s
  <2> QED BY <1>9 DEF QualityReason
<1>11. Open(s.exec)
  <2> HIDE DEF s
  <2> QED BY <1>1, <1>9, <1>10 DEF ExecutionReason, Open, IsExecution
<1> QED BY <1>3, <1>4, <1>5, <1>7, <1>8, <1>10, <1>11

\* The items of a universe: one for each score, its state one of the states
\* of a pair, and none is kept that the portfolio did not list as such.
LEMMA ItemsMean ==
  ASSUME NEW scores, NEW allowed, NEW config,
         \A i \in DOMAIN scores : scores[i].state \in PortfolioStates,
         NEW items, items = UniverseItems(scores, allowed, config)
  PROVE  /\ DOMAIN items = DOMAIN scores
         /\ \A i \in DOMAIN scores :
              /\ items[i].state \in {"INCLUDED", "WATCHLIST", "EXCLUDED", "INSUFFICIENT_DATA", "BLOCKED"}
              /\ items[i].state \in {"INCLUDED", "WATCHLIST"} =>
                   scores[i].state \in {"INCLUDED", "CAPPED", "WATCHLIST"}
<1>1. \A i \in DOMAIN scores :
        \/ items[i].state = "BLOCKED"
        \/ items[i].state = ClassifyItem(scores[i], allowed, config)
  BY DEF UniverseItems
<1>2. DOMAIN items = DOMAIN scores
  BY DEF UniverseItems
<1>3. \A i \in DOMAIN scores :
        \/ ClassifyItem(scores[i], allowed, config) = "BLOCKED"
        \/ ClassifyItem(scores[i], allowed, config) = "INCLUDED" /\ Long(scores[i])
        \/ ClassifyItem(scores[i], allowed, config) = scores[i].state /\ ~Long(scores[i])
  BY DEF ClassifyItem
<1>4. ASSUME NEW i \in DOMAIN scores
      PROVE  /\ items[i].state \in {"INCLUDED", "WATCHLIST", "EXCLUDED", "INSUFFICIENT_DATA", "BLOCKED"}
             /\ items[i].state \in {"INCLUDED", "WATCHLIST"} =>
                  scores[i].state \in {"INCLUDED", "CAPPED", "WATCHLIST"}
  BY <1>1, <1>3 DEF Long, PortfolioStates
<1> QED BY <1>2, <1>4

-----------------------------------------------------------------------------
\* A pair that discovery neither proposed nor found short of data has at most
\* the points of diversification.
LEMMA DiversificationAlone ==
  ASSUME NEW inputs, NEW config, IsPortfolioConfig(config), NEW i,
         inputs[i].discovery # None,
         inputs[i].discovery.state # "INSUFFICIENT_DATA",
         ~Proposed(inputs[i].discovery)
  PROVE  Allocation(inputs, i, config) <= DiversificationPoints(config)
<1> DEFINE d == inputs[i].discovery
           w == config.weights
           sum == SumOfParts(w)
           different == DiversificationPart(inputs, i, config)
           x == w.discovery * 0
                + 100 * (w.quality * 0 + w.diversification * different + w.cap * 0 + w.bonus * 0)
           most == Points(100) * w.diversification
<1>1. ~(Scorable(d) /\ CandidateLike(d)) /\ ~(Scorable(d) /\ WatchlistLike(d))
  BY DEF Proposed
<1>2. DiscoveryPart(d) = 0 /\ CapReadiness(d) = 0 /\ ThresholdBonus(d, config) = 0
  BY <1>1 DEF DiscoveryPart, CapReadiness, ThresholdBonus
<1>3. QualityPart(d) = 0
  <2>1. d.state # "CANDIDATE" /\ d.state # "WATCHLIST"
    BY <1>1 DEF Scorable, CandidateLike, WatchlistLike
  <2> QED BY <2>1 DEF QualityPart
<1>4. different \in {0, 50, 100}
  BY DEF DiversificationPart
<1>5. Allocation(inputs, i, config) = Round(x, sum)
  BY <1>2, <1>3 DEF Allocation
<1>6. /\ w.discovery \in Nat /\ w.quality \in Nat /\ w.diversification \in Nat
      /\ w.cap \in Nat /\ w.bonus \in Nat
      /\ sum \in Nat \ {0}
  BY ConfigWeights
<1> HIDE DEF different, sum, w
<1>7. x = 100 * (w.diversification * different)
  BY <1>4, <1>6
<1>8. most = 100 * (w.diversification * 100)
  BY <1>6 DEF Points
<1>9. x \in Nat /\ most \in Nat /\ x <= most
  <2>1. w.diversification * different <= w.diversification * 100
    BY <1>4, <1>6, Monotone
  <2>2. w.diversification * different \in Nat /\ w.diversification * 100 \in Nat
    BY <1>4, <1>6, ProductType
  <2> HIDE DEF x, most
  <2> QED BY <1>7, <1>8, <2>1, <2>2
<1> HIDE DEF x, most
<1>10. Round(x, sum) <= Round(most, sum)
  BY <1>6, <1>9, RoundMonotone
<1>11. DiversificationPoints(config) = Round(most, sum)
  BY DEF DiversificationPoints, most, sum, w
<1> QED BY <1>5, <1>10, <1>11

\* The states of a portfolio, and what stands behind a pair it lists.
LEMMA ScoresMean ==
  ASSUME NEW inputs, AreInputs(inputs), NEW config, IsPortfolioConfig(config),
         NEW scores, scores = Scores(inputs, config), NEW k \in DOMAIN inputs
  PROVE  /\ scores[k].state \in PortfolioStates
         /\ scores[k].state \in {"INCLUDED", "CAPPED", "WATCHLIST"} =>
              /\ inputs[k].discovery # None
              /\ inputs[k].discovery.state # "INSUFFICIENT_DATA"
              /\ Allocation(inputs, k, config) >= Points(config.watchlist)
<1> DEFINE ranked == Ranked(inputs, config)
           initial == InitialWeights(ranked, Pool(ranked, config), config)
           base == BaseState(inputs, k, config)
           allocation == Allocation(inputs, k, config)
<1>1. ranked[k].base = base /\ ranked[k].allocation = allocation /\ DOMAIN ranked = DOMAIN inputs
  BY DEF Ranked
<1>2. \E over, x, y : scores[k] = Score(ranked[k], over, x, y, config)
  <2>1. scores = Weighed(ranked, initial, config)
    BY DEF Scores
  <2> HIDE DEF ranked, initial
  <2> QED BY <1>1, <2>1 DEF Weighed
<1> HIDE DEF ranked
<1>3. PICK over, x, y : scores[k] = Score(ranked[k], over, x, y, config)
  BY <1>2
<1>4. scores[k].state = IF over THEN "EXCLUDED"
                        ELSE IF base # "EXCLUDED" THEN base
                        ELSE FinalState(allocation, y < x, config)
  <2> HIDE DEF base, allocation
  <2> QED BY <1>1, <1>3 DEF Score
<1>5. allocation \in Nat
  BY AllocationType DEF AreInputs
<1>6. Points(config.watchlist) \in Nat /\ Points(config.satellite) \in Nat
  BY ConfigMeans
<1>7. /\ base \in {"BLOCKED", "INSUFFICIENT_DATA", "EXCLUDED"}
      /\ base = "EXCLUDED" => /\ inputs[k].discovery # None
                              /\ inputs[k].discovery.state # "INSUFFICIENT_DATA"
  BY DEF BaseState
<1> HIDE DEF base, allocation
<1>8. \A capped : /\ FinalState(allocation, capped, config) \in {"INCLUDED", "CAPPED", "WATCHLIST", "EXCLUDED"}
                  /\ FinalState(allocation, capped, config) # "EXCLUDED" =>
                       allocation >= Points(config.watchlist)
  <2> DEFINE low == Points(config.watchlist)
             high == Points(config.satellite)
  <2>1. low \in Nat /\ high \in Nat
    BY <1>6
  <2>2. \/ allocation < low
        \/ allocation >= low
    <3> HIDE DEF low, high
    <3> QED BY <1>5, <2>1
  <2> HIDE DEF low, high
  <2>3. CASE allocation < low
    BY <2>3 DEF FinalState, low
  <2>4. CASE allocation >= low
    <3>1. ~(allocation < low)
      BY <1>5, <2>1, <2>4
    <3> QED BY <2>4, <3>1 DEF FinalState, low
  <2> QED BY <2>2, <2>3, <2>4
<1>9. \/ scores[k].state = base /\ base # "EXCLUDED"
      \/ scores[k].state = "EXCLUDED"
      \/ base = "EXCLUDED" /\ scores[k].state = FinalState(allocation, y < x, config)
  BY <1>4
<1> DEFINE end == FinalState(allocation, y < x, config)
<1>10. /\ end \in {"INCLUDED", "CAPPED", "WATCHLIST", "EXCLUDED"}
       /\ end # "EXCLUDED" => allocation >= Points(config.watchlist)
  BY <1>8
<1> HIDE DEF end
<1>11. \/ scores[k].state = base /\ base # "EXCLUDED"
       \/ scores[k].state = "EXCLUDED"
       \/ base = "EXCLUDED" /\ scores[k].state = end
  BY <1>9 DEF end
<1> QED BY <1>7, <1>10, <1>11 DEF PortfolioStates, allocation

\* A portfolio report is what its step made of the inputs it was fed.
LEMMA PortfolioMeans ==
  ASSUME RunInv, NEW p \in 1 .. Done, results[p].report.kind = "PORTFOLIO",
         NEW inputs, inputs = PortfolioInputs(steps[p], p - 1),
         NEW scores, scores = Scores(inputs, steps[p].config)
  PROVE  /\ steps[p].kind = "PORTFOLIO"
         /\ IsPortfolioConfig(steps[p].config)
         /\ AreInputs(inputs) /\ DOMAIN inputs # {}
         /\ results[p].report = PortfolioReport(inputs, scores, steps[p].config)
<1>1. /\ p \in 1 .. Len(steps) /\ request \in Requests
      /\ results[p].report.kind \in {"NONE", steps[p].kind}
      /\ results[p].report = Outcome(steps[p], p - 1).report
  BY ResultType DEF RunInv
<1>2. steps[p].kind = "PORTFOLIO"
  BY <1>1
<1>3. results[p].report = PortfolioOutcome(steps[p], p - 1).report
  BY <1>1, <1>2 DEF Outcome
<1>4. results[p].report # NoReport
  BY DEF NoReport
<1>5. /\ results[p].report = PortfolioReport(inputs, scores, steps[p].config)
      /\ DOMAIN inputs # {}
  BY <1>3, <1>4 DEF PortfolioOutcome, Refused, Failed, Made
<1>6. IsPortfolioConfig(steps[p].config)
  BY <1>1, <1>2, PlanType DEF IsStep
<1> QED BY <1>2, <1>5, <1>6, InputsType

\* What a safe portfolio that was fed by discovery says of the items.
LEMMA DiscoveryMeans ==
  ASSUME RunInv, NEW p \in 1 .. Done, steps[p].inline = None,
         NEW inputs, inputs = PortfolioInputs(steps[p], p - 1),
         PortfolioIsSafe(inputs, steps[p].config),
         NEW k \in DOMAIN inputs,
         inputs[k].discovery.state # "INSUFFICIENT_DATA"
  PROVE  ClearedByDiscovery(p, k)
<1> DEFINE s == steps[p]
           n == p - 1
           From == Source(s, "DISCOVERY", n)
           report == ReportFrom(From)
<1>1. n \in Nat /\ 1 .. n \subseteq 1 .. Done
  <2>1. Done \in Nat
    BY AppendOne DEF RunInv, Done
  <2> QED BY <2>1
<1>2. /\ report.kind = "DISCOVERY"
      /\ inputs = [j \in DOMAIN report.candidates |->
                     FromCandidate(report.candidates[j], Place(report.candidates, j))]
  <2> HIDE DEF s, n
  <2>1. \/ /\ report.kind = "DISCOVERY"
           /\ inputs = [j \in DOMAIN report.candidates |->
                          FromCandidate(report.candidates[j], Place(report.candidates, j))]
        \/ inputs = << >>
    BY DEF PortfolioInputs, s, n
  <2>2. inputs # << >>
    OBVIOUS
  <2> QED BY <2>1, <2>2
<1> SUFFICES ASSUME NEW d \in From
             PROVE  /\ Cleared(steps[d].inline[k])
                    /\ \A j \in DOMAIN results[d].report.candidates : ~EitherBlocked(steps[d].inline[j])
  BY DEF ClearedByDiscovery
<1>3. d \in 1 .. Done /\ report = results[d].report
  <2> HIDE DEF s, n
  <2> QED BY <1>1, SourceMeans
<1> DEFINE items == steps[d].inline
           config == steps[d].config
           Chosen == {j \in DOMAIN items : config.keepExcluded \/ Judge(items[j], config).state # "EXCLUDED"}
<1>4. report = DiscoveryReport(items, config) /\ \A j \in DOMAIN items : IsItem(items[j])
  BY <1>2, <1>3, DiscoveryResult
<1> HIDE DEF items, config, report, From
<1>5. report.candidates = [j \in Chosen |-> DiscoveryCandidate(items[j], config)]
  BY <1>4 DEF DiscoveryReport
<1>6. DOMAIN inputs = Chosen
  BY <1>2, <1>5
<1>7. ASSUME NEW j \in Chosen
      PROVE  \E class \in Classes :
               inputs[j].discovery = [class |-> class, state |-> Judge(items[j], config).state,
                                      score |-> Judge(items[j], config).score]
  <2> HIDE DEF Chosen
  <2> DEFINE c == DiscoveryCandidate(items[j], config)
             v == Judge(items[j], config)
  <2>1. inputs[j] = FromCandidate(c, Place(report.candidates, j))
    BY <1>2, <1>5
  <2>2. c.score = v.score /\ c.state = v.state
    BY DEF DiscoveryCandidate
  <2> HIDE DEF c, v
  <2> QED BY <2>1, <2>2 DEF FromCandidate, Classes, v
<1>8. ASSUME NEW j \in Chosen
      PROVE  Judge(items[j], config).state # "BLOCKED"
  <2> DEFINE v == Judge(items[j], config)
             e == inputs[j].discovery
  <2>1. v.score \in Nat
    BY <1>4, JudgeType
  <2>2. v.state \in DiscoveryStates
    BY DEF Judge, Judged, Scored, ClassifyDiscovery, DiscoveryStates
  <2>3. ~(e # None /\ e.state = "BLOCKED")
    BY <1>6 DEF PortfolioIsSafe
  <2>4. PICK class \in Classes : e = [class |-> class, state |-> v.state, score |-> v.score]
    BY <1>7 DEF v
  <2> HIDE DEF v, e
  <2>5. e # None /\ e.state = v.state
    BY <2>1, <2>2, <2>4, NoneAssumption
  <2> QED BY <2>3, <2>5 DEF v
<1>9. ASSUME NEW j \in Chosen
      PROVE  "discovery" \notin items[j].flagged /\ ~EitherBlocked(items[j])
  <2> SUFFICES ASSUME "discovery" \in items[j].flagged \/ EitherBlocked(items[j]) PROVE FALSE
    OBVIOUS
  <2> HIDE DEF Chosen
  <2>1. Judge(items[j], config) = Judged("BLOCKED", 0)
    BY DEF Judge
  <2> QED BY <1>8, <2>1 DEF Judged
<1>10. ~EitherInsufficient(items[k])
  <2>1. inputs[k].discovery.state = Judge(items[k], config).state
    <3> DEFINE v == Judge(items[k], config)
    <3>1. PICK class \in Classes :
            inputs[k].discovery = [class |-> class, state |-> v.state, score |-> v.score]
      BY <1>6, <1>7
    <3> HIDE DEF v
    <3>2. inputs[k].discovery.state = v.state
      BY <3>1
    <3> QED BY <3>2 DEF v
  <2>2. Judge(items[k], config).state \notin {"BLOCKED", "INSUFFICIENT_DATA"}
    BY <1>6, <1>8, <2>1
  <2> QED BY <2>2 DEF Judge, Judged, Scored
<1>11. Cleared(items[k])
  BY <1>6, <1>9, <1>10 DEF Cleared
<1>12. DOMAIN results[d].report.candidates = Chosen
  BY <1>3, <1>5
<1> HIDE DEF Chosen
<1> QED BY <1>9, <1>11, <1>12 DEF items

\* What a safe portfolio with such a pair on its list has behind it.
LEMMA PortfolioClears ==
  ASSUME RunInv, NEW u \in 1 .. Done, NEW p \in Source(steps[u], "PORTFOLIO", u - 1),
         NEW report, report = ReportFrom(Source(steps[u], "PORTFOLIO", u - 1)),
         report.kind = "PORTFOLIO"
  PROVE  /\ IsFiniteSet(DOMAIN report.scores)
         /\ \A k \in DOMAIN report.scores :
              /\ report.scores[k].state \in PortfolioStates
              /\ report.safe /\ report.scores[k].state \in {"INCLUDED", "CAPPED", "WATCHLIST"} =>
                   ClearedByPortfolio(u, k)
<1> DEFINE n == u - 1
           inputs == PortfolioInputs(steps[p], p - 1)
           config == steps[p].config
           scores == Scores(inputs, config)
           From == Source(steps[u], "PORTFOLIO", n)
<1>1. n \in Nat /\ 1 .. n \subseteq 1 .. Done
  <2>1. Done \in Nat
    BY AppendOne DEF RunInv, Done
  <2> QED BY <2>1
<1>2. p \in 1 .. Done /\ report = results[p].report /\ \A q \in From : q = p
  <2>1. /\ From \subseteq 1 .. n
        /\ \A i, j \in From : i = j
        /\ \A i \in From : ReportFrom(From) = results[i].report
    <3> HIDE DEF n
    <3> QED BY <1>1, SourceMeans
  <2> QED BY <1>1, <2>1
<1>3. /\ IsPortfolioConfig(config) /\ AreInputs(inputs)
      /\ report = PortfolioReport(inputs, scores, config)
  BY <1>2, PortfolioMeans
<1> HIDE DEF inputs, config, From
<1>4. DOMAIN scores = DOMAIN inputs
  BY <1>3, ScoresAreBounded
<1> HIDE DEF scores
<1> DEFINE L == Listed(scores, config)
<1>5. /\ L \subseteq DOMAIN inputs
      /\ DOMAIN report.scores = L
      /\ \A k \in L : report.scores[k] = scores[k]
      /\ report.safe <=> PortfolioIsSafe(inputs, config)
  <2>1. L \subseteq DOMAIN inputs
    BY <1>4 DEF Listed
  <2>2. report.scores = Restrict(scores, L) /\ report.safe = PortfolioIsSafe(inputs, config)
    BY <1>3 DEF PortfolioReport
  <2> HIDE DEF L
  <2> QED BY <2>1, <2>2 DEF Restrict
<1> HIDE DEF L
<1>6. IsFiniteSet(L)
  <2>1. IsFiniteSet(DOMAIN inputs)
    BY <1>3 DEF AreInputs
  <2> QED BY <1>5, <2>1, FS_Subset
<1>7. ASSUME NEW k \in L
      PROVE  /\ scores[k].state \in PortfolioStates
             /\ scores[k].state \in {"INCLUDED", "CAPPED", "WATCHLIST"} =>
                  /\ inputs[k].discovery # None
                  /\ inputs[k].discovery.state # "INSUFFICIENT_DATA"
                  /\ Allocation(inputs, k, config) >= Points(config.watchlist)
  <2>1. k \in DOMAIN inputs
    BY <1>5
  <2> QED BY <1>3, <2>1, ScoresMean DEF scores
<1>8. ASSUME NEW k \in L, report.safe, scores[k].state \in {"INCLUDED", "CAPPED", "WATCHLIST"}
      PROVE  ClearedByPortfolio(u, k)
  <2> DEFINE d == inputs[k].discovery
             points == Allocation(inputs, k, config)
             most == DiversificationPoints(config)
             low == Points(config.watchlist)
  <2>1. k \in DOMAIN inputs /\ PortfolioIsSafe(inputs, config)
    BY <1>5, <1>8
  <2>2. d # None /\ d.state # "INSUFFICIENT_DATA" /\ points >= low
    BY <1>7, <1>8
  <2>3. d.state # "BLOCKED"
    BY <2>1, <2>2 DEF PortfolioIsSafe
  <2>4. ASSUME ~Proposed(d) PROVE most >= low
    <3>1. points <= most
      BY <1>3, <2>2, <2>4, DiversificationAlone
    <3>2. points \in Nat
      BY <1>3, <2>1, AllocationType DEF AreInputs
    <3>3. most \in Nat
      <4>1. Points(100) * config.weights.diversification \in Nat /\ SumOfParts(config.weights) \in Nat \ {0}
        BY <1>3, ConfigWeights DEF Points
      <4> QED BY <4>1, RoundMeans DEF DiversificationPoints
    <3>4. low \in Nat
      BY <1>3, ConfigMeans
    <3> HIDE DEF points, most, low
    <3> QED BY <2>2, <3>1, <3>2, <3>3, <3>4
  <2>5. steps[p].inline = None => ClearedByDiscovery(p, k)
    BY <1>2, <2>1, <2>2, DiscoveryMeans DEF inputs, config
  <2>6. \A q \in Source(steps[u], "PORTFOLIO", u - 1) : q = p
    BY <1>2 DEF From
  <2> HIDE DEF d, most, low
  <2>7. /\ d # None /\ d.state \notin {"BLOCKED", "INSUFFICIENT_DATA"}
        /\ Proposed(d) \/ most >= low
    BY <2>2, <2>3, <2>4
  <2> QED BY <2>5, <2>6, <2>7 DEF ClearedByPortfolio, d, most, low, inputs, config
<1> QED BY <1>5, <1>6, <1>7, <1>8

\* A coin in the packet was cleared by the run, the execution context, the
\* universe, the portfolio and discovery, and no other name of it was refused.
THEOREM ListedCoinsWereCleared == Spec => []ListedWasCleared
<1>1. ASSUME RunInv, FinalInv PROVE ListedWasCleared
  <2> SUFFICES ASSUME packet # None, NEW coin \in packet.whitelist
               PROVE  /\ state \in {"COMPLETED", "PARTIAL"}
                      /\ \E u \in FirstUniverse :
                           LET items == results[u].report.items
                               Names == {k \in DOMAIN items :
                                           Coin[Formatted(items[k].pair, request.export)] = coin}
                           IN /\ results[u].state = "SUCCESS"
                              /\ Open(steps[u].exec)
                              /\ Names # {}
                              /\ \A k \in Names :
                                   /\ items[k].state \in {"INCLUDED", "WATCHLIST"}
                                   /\ items[k].state = "WATCHLIST" =>
                                        request.export.withWatchlist \/ Cardinality(Names) > 1
                                   /\ steps[u].inline = None => ClearedByPortfolio(u, k)
    BY DEF ListedWasCleared
  <2> DEFINE report == ReportFrom(FirstUniverse)
             config == request.export
  <2>1. /\ state # None
        /\ \E stale \in BOOLEAN : coin \in Packet(ExportOfRun(state, report, config), stale).whitelist
    BY <1>1 DEF FinalInv
  <2> HIDE DEF report
  <2>2. /\ report # NoReport /\ report.safe
        /\ state \notin {"BLOCKED", "FAILED"}
        /\ \E k \in DOMAIN report.items :
             /\ Coin[Formatted(report.items[k].pair, config)] = coin
             /\ \/ report.items[k].state = "INCLUDED"
                \/ config.withWatchlist /\ report.items[k].state = "WATCHLIST"
        /\ \A k \in DOMAIN report.items :
             Coin[Formatted(report.items[k].pair, config)] = coin =>
               report.items[k].state \notin {"BLOCKED", "EXCLUDED", "INSUFFICIENT_DATA"}
    <3> HIDE DEF config
    <3> QED BY <2>1, ListedMeans
  <2>3. state \in {"COMPLETED", "PARTIAL"}
    BY <1>1, <2>1, <2>2 DEF RunInv
  <2>4. PICK u \in FirstUniverse : report = results[u].report
    <3>1. FirstUniverse # {} /\ report = results[CHOOSE i \in FirstUniverse : TRUE].report
      BY <2>2 DEF report, ReportFrom
    <3> QED BY <3>1
  <2>5. u \in 1 .. Done /\ steps[u].kind = "UNIVERSE"
    BY DEF FirstUniverse
  <2> DEFINE From == Source(steps[u], "PORTFOLIO", u - 1)
             given == IF steps[u].inline # None THEN steps[u].inline ELSE ReportFrom(From)
             scores == given.scores
             items == report.items
  <2>6. /\ results[u].state = "SUCCESS"
        /\ Open(steps[u].exec)
        /\ given.kind = "PORTFOLIO" /\ given.safe
        /\ items = UniverseItems(scores, steps[u].exec.allowed, steps[u].config)
    <3>1. DOMAIN results[u].report.items # {} /\ results[u].report # NoReport /\ results[u].report.safe
      BY <2>2, <2>4
    <3> HIDE DEF given
    <3> QED BY <1>1, <2>4, <2>5, <3>1, UniverseMeans DEF given
  <2>7. /\ IsFiniteSet(DOMAIN scores)
        /\ \A k \in DOMAIN scores :
             /\ scores[k].state \in PortfolioStates
             /\ scores[k].state \in {"INCLUDED", "CAPPED", "WATCHLIST"} /\ steps[u].inline = None =>
                  ClearedByPortfolio(u, k)
    <3>1. CASE steps[u].inline # None
      <4>1. u \in 1 .. Len(steps) /\ request \in Requests
        BY <1>1, <2>5, ResultType DEF RunInv
      <4>2. IsPortfolioReport(steps[u].inline)
        BY <2>5, <3>1, <4>1, PlanType DEF IsStep, IsInline
      <4> QED BY <3>1, <4>2 DEF IsPortfolioReport
    <3>2. CASE steps[u].inline = None
      <4>1. given = ReportFrom(From)
        BY <3>2
      <4> HIDE DEF given, From
      <4>2. From # {}
        BY <2>6, <4>1 DEF ReportFrom, NoReport
      <4>3. PICK p \in From : TRUE
        BY <4>2
      <4> QED BY <1>1, <2>5, <2>6, <4>1, <4>3, PortfolioClears DEF From
    <3> QED BY <3>1, <3>2
  <2> HIDE DEF given, From, scores, items
  <2>8. /\ DOMAIN items = DOMAIN scores
        /\ \A i \in DOMAIN scores :
             /\ items[i].state \in {"INCLUDED", "WATCHLIST", "EXCLUDED", "INSUFFICIENT_DATA", "BLOCKED"}
             /\ items[i].state \in {"INCLUDED", "WATCHLIST"} =>
                  scores[i].state \in {"INCLUDED", "CAPPED", "WATCHLIST"}
    BY <2>6, <2>7, ItemsMean
  <2> DEFINE Names == {k \in DOMAIN items : Coin[Formatted(items[k].pair, config)] = coin}
  <2>9. PICK j \in Names : items[j].state = "INCLUDED" \/ config.withWatchlist
    BY <2>2 DEF items
  <2>10. IsFiniteSet(Names)
    <3>1. Names \in SUBSET DOMAIN scores
      BY <2>8
    <3> HIDE DEF Names
    <3> QED BY <2>7, <3>1, FS_Subset
  <2>11. ASSUME NEW k \in Names
         PROVE  /\ items[k].state \in {"INCLUDED", "WATCHLIST"}
                /\ items[k].state = "WATCHLIST" => config.withWatchlist \/ Cardinality(Names) > 1
                /\ steps[u].inline = None => ClearedByPortfolio(u, k)
    <3>1. k \in DOMAIN items /\ Coin[Formatted(items[k].pair, config)] = coin
      OBVIOUS
    <3>2. items[k].state \in {"INCLUDED", "WATCHLIST"}
      BY <2>2, <2>8, <3>1 DEF items
    <3>3. steps[u].inline = None => ClearedByPortfolio(u, k)
      BY <2>7, <2>8, <3>1, <3>2
    <3>4. ASSUME items[k].state = "WATCHLIST", ~config.withWatchlist PROVE Cardinality(Names) > 1
      <4>1. k # j /\ {j, k} \in SUBSET Names
        BY <2>9, <3>4
      <4> HIDE DEF Names
      <4>2. IsFiniteSet({j}) /\ Cardinality({j}) = 1
        BY FS_Singleton
      <4>3. Cardinality({j} \cup {k}) = 2
        BY <4>1, <4>2, FS_AddElement
      <4>4. {j} \cup {k} \in SUBSET Names
        BY <4>1
      <4>5. Cardinality({j} \cup {k}) <= Cardinality(Names)
        BY <2>10, <4>4, FS_Subset
      <4>6. Cardinality(Names) \in Nat
        BY <2>10, FS_CardinalityType
      <4> QED BY <4>3, <4>5, <4>6
    <3> QED BY <3>2, <3>3, <3>4
  <2>12. Names # {}
    BY <2>9
  <2>13. items = results[u].report.items
    BY <2>4 DEF items
  <2> QED BY <2>3, <2>6, <2>11, <2>12, <2>13
<1> QED BY <1>1, RunInvariant, FinalInvariant, PTL
=============================================================================

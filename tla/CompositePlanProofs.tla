-------------------------- MODULE CompositePlanProofs --------------------------
(***************************************************************************)
(* Composite plans of any request, with any number of plans and attempts.  *)
(***************************************************************************)
EXTENDS CompositePlan, FiniteSetTheorems, SequenceTheorems, WellFoundedInduction, TLAPS

All == 1..request.n

Composites == [steps : SUBSET All, present : BOOLEAN, invalidated : BOOLEAN,
               failures : Nat, runs : Nat, rate : Rates]

\* What was learned has steps, and a composite is counted in won.
LibraryInv ==
    /\ library \in Seq(Composites) /\ won \in Seq(Nat) /\ Len(won) = Len(library)
    /\ \A c \in DOMAIN library : library[c].steps # {}

\* A rate is at most one, and at most the share of executions that succeeded.
FairRate(c, w) == c.rate.num <= c.rate.den /\ c.rate.num * c.runs <= w * c.rate.den

RateInv == \A c \in DOMAIN library : FairRate(library[c], won[c])

PlanRecord == [composite : Nat, steps : SUBSET All, options : Options,
               status : UNION {[S -> Statuses] : S \in SUBSET All}]

IsPlan(p) ==
    /\ p \in PlanRecord /\ p.steps # {} /\ p.status \in [p.steps -> Statuses]

ExecRecord == [plan : Nat, phase : {"executing", "validating", "ended"}, step : Nat,
               tries : Nat \ {0}, completed : SUBSET Nat, failed : SUBSET Nat,
               verdict : Verdicts \cup {"none"}, timedOut : BOOLEAN]

\* An execution goes through the steps of its plan in order; only a checked step
\* is validated.
IsExec(x, steps) ==
    /\ x \in ExecRecord /\ x.step \in steps /\ x.completed \cup x.failed \subseteq steps
    /\ x.phase = "executing" => \A i \in x.completed : i < x.step
    /\ x.phase = "validating" =>
         x.step \in request.checked /\ \A i \in x.completed : i <= x.step

WorkInv ==
    /\ request \in Requests /\ overlapped \in BOOLEAN
    /\ plans \in Seq(PlanRecord) /\ execs \in Seq(ExecRecord)
    /\ \A p \in DOMAIN plans : IsPlan(plans[p]) /\ plans[p].composite <= Len(library)
    /\ \A e \in DOMAIN execs :
        /\ execs[e].plan \in DOMAIN plans
        /\ IsExec(execs[e], plans[execs[e].plan].steps)

LibraryWhole == \A c \in DOMAIN library : library[c].steps = All

PlansWhole == \A p \in DOMAIN plans : plans[p].steps = All

OneWorker ==
    \A e, d \in DOMAIN execs :
        AtWork(e) /\ AtWork(d) /\ execs[e].plan = execs[d].plan => e = d

\* What an execution at work has completed is shown as a success.
CompletedShown ==
    \A e \in DOMAIN execs : AtWork(e) =>
        \A i \in execs[e].completed : plans[execs[e].plan].status[i] = "success"

WholeInv == ~overlapped => LibraryWhole /\ PlansWhole /\ OneWorker /\ CompletedShown

IInv == LibraryInv /\ RateInv /\ WorkInv /\ RunningIsExecuted /\ WholeInv

-----------------------------------------------------------------------------
(* Arithmetic *)

LEMMA FirstIsLeast ==
    ASSUME NEW S \in SUBSET Nat, S # {}
    PROVE  First(S) \in S /\ \A j \in S : First(S) <= j
<1> DEFINE R == OpToRel(<, Nat)
<1>1. IsWellFoundedOn(R, Nat)
  BY NatLessThanWellFounded
<1>2. \A x, y \in Nat : y < x => <<y, x>> \in R
  BY DEF OpToRel
<1> HIDE DEF R
<1>3. PICK x \in S : \A y \in S : ~ (<<y, x>> \in R)
  BY <1>1, WFMin
<1>4. \A y \in S : ~(y < x)
  BY <1>2, <1>3
<1>5. \E i \in S : \A j \in S : i <= j
  BY <1>4
<1> QED
  BY <1>5 DEF First

LEMMA Times ==
    ASSUME NEW a \in Nat, NEW b \in Nat, NEW c \in Nat, a <= b
    PROVE  a * c <= b * c
OBVIOUS

LEMMA Quotient ==
    ASSUME NEW a \in Nat, NEW b \in Nat \ {0}, NEW w \in Nat, a < b * (w + 1)
    PROVE  a \div b \in Nat /\ a \div b <= w
<1>1. a \div b \in Int /\ b * (a \div b) <= a /\ a < b * (a \div b) + b
  OBVIOUS
<1> QED
  BY <1>1

\* The successes recovered from a rate by rounding are no more than those there
\* were, nor than the executions.
LEMMA RoundedBounded ==
    ASSUME NEW c \in Composites, NEW w \in Nat, FairRate(c, w)
    PROVE  Rounded(c.rate, c.runs) \in Nat /\ Rounded(c.rate, c.runs) <= w
           /\ Rounded(c.rate, c.runs) <= c.runs
<1> DEFINE num == c.rate.num  den == c.rate.den  n == c.runs
<1>1. num \in Nat /\ den \in Nat \ {0} /\ n \in Nat
  BY DEF Composites, Rates
<1>2. num <= den /\ num * n <= w * den
  BY DEF FairRate
<1>3. Rounded(c.rate, c.runs) = (2 * num * n + den) \div (2 * den)
  BY DEF Rounded
<1> HIDE DEF num, den, n
<1>4. num * n \in Nat /\ w * den \in Nat /\ n * den \in Nat /\ 2 * num * n = 2 * (num * n)
  BY <1>1
<1>5. num * n <= n * den
  <2>1. num * n <= den * n
    BY <1>1, <1>2, Times
  <2> QED
    BY <1>1, <2>1
<1>6. 2 * (num * n) + den < (2 * den) * (w + 1)
  <2>1. (2 * den) * (w + 1) = 2 * (w * den) + 2 * den
    BY <1>1
  <2> QED
    BY <1>1, <1>2, <1>4, <2>1
<1>7. 2 * (num * n) + den < (2 * den) * (n + 1)
  <2>1. (2 * den) * (n + 1) = 2 * (n * den) + 2 * den
    BY <1>1
  <2> QED
    BY <1>1, <1>4, <1>5, <2>1
<1>8. 2 * (num * n) + den \in Nat /\ 2 * den \in Nat \ {0}
  BY <1>1, <1>4
<1>9. Rounded(c.rate, c.runs) = (2 * (num * n) + den) \div (2 * den)
  BY <1>3, <1>4
<1>10. (2 * (num * n) + den) \div (2 * den) \in Nat
       /\ (2 * (num * n) + den) \div (2 * den) <= w
  BY <1>6, <1>8, Quotient
<1>11. (2 * (num * n) + den) \div (2 * den) <= n
  BY <1>1, <1>7, <1>8, Quotient
<1> QED
  BY <1>9, <1>10, <1>11 DEF n

LEMMA Counting ==
    ASSUME NEW c \in Composites
    PROVE  LET d == [c EXCEPT !.runs = @ + 1] IN
           d \in Composites /\ d.steps = c.steps /\ d.rate = c.rate /\ d.runs = c.runs + 1
BY DEF Composites

\* An execution is recorded with its outcome.
LEMMA RecordedFair ==
    ASSUME NEW c \in Composites, NEW w \in Nat, FairRate(c, w), NEW success \in BOOLEAN
    PROVE  /\ Recorded(c, success) \in Composites
           /\ Recorded(c, success).steps = c.steps
           /\ FairRate(Recorded(c, success), IF success THEN w + 1 ELSE w)
<1> DEFINE r == Rounded(c.rate, c.runs)
           k == IF success THEN 1 ELSE 0
           d == Recorded(c, success)
<1>1. r \in Nat /\ r <= w /\ r <= c.runs /\ c.runs \in Nat
  BY RoundedBounded DEF Composites
<1>2. /\ d \in Composites /\ d.steps = c.steps
      /\ d.runs = c.runs + 1
      /\ d.rate.num = r + k /\ d.rate.den = c.runs + 1
  <2> DEFINE rate == [num |-> r + k, den |-> c.runs + 1]
             failures == IF success THEN 0 ELSE c.failures + 1
             bad == c.invalidated \/ (~success /\ (failures >= 3 \/ ~AtLeast(rate, 1, 2)))
  <2>1. d = [c EXCEPT !.runs = c.runs + 1, !.rate = rate, !.failures = failures,
                      !.invalidated = bad]
    BY DEF Recorded, Scored
  <2>2. /\ rate \in Rates /\ rate.num = r + k /\ rate.den = c.runs + 1
        /\ failures \in Nat /\ bad \in BOOLEAN
    BY <1>1 DEF Rates, Composites
  <2> HIDE DEF rate, failures, r, d
  <2>3. PICK b \in BOOLEAN : b = bad
    BY <2>2
  <2>4. d = [c EXCEPT !.runs = c.runs + 1, !.rate = rate, !.failures = failures,
                      !.invalidated = b]
    BY <2>1, <2>3
  <2> HIDE DEF bad
  <2>5. c.runs + 1 \in Nat
    BY <1>1
  <2>6. rate \in Rates /\ failures \in Nat
    BY <2>2
  <2> DEFINE e == [c EXCEPT !.runs = c.runs + 1, !.rate = rate, !.failures = failures,
                            !.invalidated = b]
  <2>7. e \in Composites /\ e.steps = c.steps /\ e.runs = c.runs + 1 /\ e.rate = rate
    BY <2>5, <2>6 DEF Composites
  <2> QED
    BY <2>2, <2>4, <2>7
<1> HIDE DEF r, d
<1>3. r + k <= w + k /\ r + k <= c.runs + 1 /\ k \in Nat
  BY <1>1
<1>4. (r + k) * (c.runs + 1) <= (w + k) * (c.runs + 1)
  BY <1>1, <1>3, Times
<1> QED
  BY <1>1, <1>2, <1>3, <1>4 DEF FairRate, d

-----------------------------------------------------------------------------
(* The library *)

\* A composite is learned, or one learned before is counted again.
LEMMA LearnKeeps ==
    ASSUME LibraryInv, RateInv, NEW S \in SUBSET All, S # {}, Learn(S), request' = request
    PROVE  /\ LibraryInv' /\ RateInv' /\ Len(library) <= Len(library')
           /\ LibraryWhole /\ S = All => LibraryWhole'
<1> DEFINE same == {i \in DOMAIN library :
                      library[i].steps = S /\ library[i].present /\ ~library[i].invalidated}
<1> USE DEF LibraryInv
<1>0. /\ DOMAIN library = 1..Len(library) /\ DOMAIN won = 1..Len(library)
      /\ Len(library) \in Nat /\ All' = All /\ Composites' = Composites
  BY DEF All, Composites
<1>1. CASE same # {}
  <2> DEFINE c == First(same)
  <2>1. c \in DOMAIN library
    <3>1. same \in SUBSET Nat
      BY <1>0
    <3> QED
      BY <1>1, <3>1, FirstIsLeast
  <2> HIDE DEF c
  <2>2. /\ library' = [library EXCEPT ![c].runs = @ + 1]
        /\ won' = [won EXCEPT ![c] = @ + 1]
    BY <1>1 DEF Learn, c
  <2> DEFINE d == [library[c] EXCEPT !.runs = @ + 1]
  <2>3. library[c] \in Composites /\ won[c] \in Nat
    BY <1>0, <2>1, ElementOfSeq
  <2>4. d \in Composites /\ d.steps = library[c].steps /\ FairRate(d, won[c] + 1)
    <3>1. /\ d \in Composites /\ d.steps = library[c].steps /\ d.rate = library[c].rate
          /\ d.runs = library[c].runs + 1
      BY <2>3, Counting
    <3>2. FairRate(library[c], won[c])
      BY <2>1 DEF RateInv
    <3> DEFINE num == library[c].rate.num  den == library[c].rate.den  n == library[c].runs
    <3>3. num \in Nat /\ den \in Nat /\ n \in Nat
      BY <2>3 DEF Composites, Rates
    <3>4. num <= den /\ num * n <= won[c] * den
      BY <3>2 DEF FairRate
    <3> HIDE DEF num, den, n
    <3>5. num * (n + 1) <= (won[c] + 1) * den
      <4>1. num * (n + 1) = num * n + num /\ (won[c] + 1) * den = won[c] * den + den
        BY <2>3, <3>3
      <4>2. num * n \in Nat /\ won[c] * den \in Nat
        BY <2>3, <3>3
      <4> QED
        BY <3>3, <3>4, <4>1, <4>2
    <3> QED
      BY <3>1, <3>4, <3>5 DEF FairRate, num, den, n
  <2> HIDE DEF d
  <2>5. library' = [library EXCEPT ![c] = d]
    BY <2>1, <2>2 DEF d
  <2>6. /\ library' \in Seq(Composites) /\ Len(library') = Len(library)
        /\ won' \in Seq(Nat) /\ Len(won') = Len(won)
    <3>1. won' = [won EXCEPT ![c] = won[c] + 1] /\ won[c] + 1 \in Nat
      BY <1>0, <2>1, <2>2, <2>3
    <3> QED
      BY <1>0, <2>1, <2>4, <2>5, <3>1, ExceptSeq
  <2>7. \A i \in 1..Len(library) :
          /\ library'[i] = IF i = c THEN d ELSE library[i]
          /\ won'[i] = IF i = c THEN won[i] + 1 ELSE won[i]
    BY <1>0, <2>2, <2>5
  <2>8. DOMAIN library' = DOMAIN library
    BY <2>5
  <2>9. \A i \in 1..Len(library) : library'[i].steps = library[i].steps
    BY <2>4, <2>7
  <2>10. RateInv'
    BY <1>0, <2>1, <2>4, <2>7, <2>8 DEF RateInv
  <2>11. LibraryWhole /\ S = All => LibraryWhole'
    BY <1>0, <2>8, <2>9 DEF LibraryWhole
  <2>12. LibraryInv'
    BY <1>0, <2>6, <2>8, <2>9
  <2> QED
    BY <1>0, <2>6, <2>10, <2>11, <2>12
<1>2. CASE same = {}
  <2> DEFINE d == NewComposite(S)
  <2>1. /\ library' = Append(library, d) /\ won' = Append(won, 1)
    BY <1>2 DEF Learn
  <2>2. d \in Composites /\ d.steps = S /\ FairRate(d, 1)
    BY DEF NewComposite, Composites, Rates, FairRate
  <2> HIDE DEF d
  <2>3. /\ library' \in Seq(Composites) /\ Len(library') = Len(library) + 1
        /\ won' \in Seq(Nat) /\ Len(won') = Len(library) + 1
        /\ \A i \in 1..Len(library) : library'[i] = library[i] /\ won'[i] = won[i]
        /\ library'[Len(library) + 1] = d /\ won'[Len(library) + 1] = 1
    BY <1>0, <2>1, <2>2, AppendProperties
  <2>4. DOMAIN library' = 1..(Len(library) + 1)
    BY <2>3
  <2>5. \A i \in DOMAIN library' : i \in 1..Len(library) \/ i = Len(library) + 1
    BY <1>0, <2>4
  <2>6. RateInv'
    BY <1>0, <2>2, <2>3, <2>5 DEF RateInv
  <2>7. \A i \in DOMAIN library' : library'[i].steps # {}
    BY <1>0, <2>2, <2>3, <2>5
  <2>8. LibraryWhole /\ S = All => LibraryWhole'
    BY <1>0, <2>2, <2>3, <2>5 DEF LibraryWhole
  <2> QED
    BY <1>0, <2>3, <2>6, <2>7, <2>8
<1> QED
  BY <1>1, <1>2

\* The outcome of a reused composite is recorded.
LEMMA RecordKeeps ==
    ASSUME LibraryInv, RateInv, NEW c \in DOMAIN library, NEW success \in BOOLEAN,
           Record(c, success), request' = request
    PROVE  /\ LibraryInv' /\ RateInv' /\ Len(library) <= Len(library')
           /\ LibraryWhole => LibraryWhole'
<1> USE DEF LibraryInv
<1>0. /\ DOMAIN library = 1..Len(library) /\ DOMAIN won = 1..Len(library)
      /\ Len(library) \in Nat /\ All' = All /\ Composites' = Composites
  BY DEF All, Composites
<1>1. CASE library[c].present
  <2> DEFINE d == Recorded(library[c], success)
             w == IF success THEN won[c] + 1 ELSE won[c]
  <2>1. library[c] \in Composites /\ won[c] \in Nat /\ FairRate(library[c], won[c])
    BY <1>0, ElementOfSeq DEF RateInv
  <2>2. d \in Composites /\ d.steps = library[c].steps /\ FairRate(d, w) /\ w \in Nat
    BY <2>1, RecordedFair
  <2>3. library' = [library EXCEPT ![c] = d] /\ won' = [won EXCEPT ![c] = w]
    BY <1>0, <1>1 DEF Record
  <2> HIDE DEF d, w
  <2>4. /\ library' \in Seq(Composites) /\ Len(library') = Len(library)
        /\ won' \in Seq(Nat) /\ Len(won') = Len(won)
    BY <1>0, <2>2, <2>3, ExceptSeq
  <2>5. \A i \in 1..Len(library) :
          /\ library'[i] = IF i = c THEN d ELSE library[i]
          /\ won'[i] = IF i = c THEN w ELSE won[i]
    BY <1>0, <2>3
  <2>6. DOMAIN library' = DOMAIN library
    BY <2>3
  <2>7. \A i \in 1..Len(library) : library'[i].steps = library[i].steps
    BY <2>2, <2>5
  <2>8. RateInv'
    BY <1>0, <2>2, <2>5, <2>6 DEF RateInv
  <2>9. LibraryWhole => LibraryWhole'
    BY <1>0, <2>6, <2>7 DEF LibraryWhole
  <2>10. LibraryInv'
    BY <1>0, <2>4, <2>6, <2>7
  <2> QED
    BY <1>0, <2>4, <2>8, <2>9, <2>10
<1>2. CASE ~library[c].present
  BY <1>0, <1>2 DEF Record, RateInv, LibraryWhole
<1> QED
  BY <1>1, <1>2

-----------------------------------------------------------------------------
(* Executions *)

StepsOf(e) == plans[execs[e].plan].steps
StatusOf(e) == plans[execs[e].plan].status

\* Execution e becomes y and its plan shows the statuses st.
Moves(e, y, st) ==
    /\ execs' = [execs EXCEPT ![e] = y]
    /\ plans' = [plans EXCEPT ![execs[e].plan].status = st]

LEMMA MovesFacts ==
    ASSUME WorkInv, NEW e \in DOMAIN execs, NEW y \in ExecRecord,
           NEW st \in [StepsOf(e) -> Statuses], Moves(e, y, st)
    PROVE  /\ plans' \in Seq(PlanRecord) /\ execs' \in Seq(ExecRecord)
           /\ DOMAIN plans' = DOMAIN plans /\ DOMAIN execs' = DOMAIN execs
           /\ \A d \in DOMAIN execs : execs'[d] = IF d = e THEN y ELSE execs[d]
           /\ \A q \in DOMAIN plans :
                /\ plans'[q].steps = plans[q].steps
                /\ plans'[q].composite = plans[q].composite
                /\ plans'[q].options = plans[q].options
                /\ plans'[q].status = IF q = execs[e].plan THEN st ELSE plans[q].status
<1> DEFINE p == execs[e].plan
           r == [plans[p] EXCEPT !.status = st]
<1>1. /\ p \in DOMAIN plans /\ IsPlan(plans[p]) /\ plans[p] \in PlanRecord
      /\ plans \in Seq(PlanRecord) /\ execs \in Seq(ExecRecord)
      /\ DOMAIN plans = 1..Len(plans) /\ DOMAIN execs = 1..Len(execs)
  BY DEF WorkInv, IsPlan
<1>2. plans' = [plans EXCEPT ![p] = r] /\ execs' = [execs EXCEPT ![e] = y]
  BY <1>1 DEF Moves
<1>3. /\ r \in PlanRecord /\ r.steps = plans[p].steps /\ r.status = st
      /\ r.composite = plans[p].composite /\ r.options = plans[p].options
  <2>1. st \in UNION {[S -> Statuses] : S \in SUBSET All}
    BY <1>1 DEF StepsOf, PlanRecord
  <2> QED
    BY <1>1, <2>1 DEF PlanRecord
<1> HIDE DEF r, p
<1>4. /\ plans' \in Seq(PlanRecord) /\ Len(plans') = Len(plans)
      /\ execs' \in Seq(ExecRecord) /\ Len(execs') = Len(execs)
  BY <1>1, <1>2, <1>3, ExceptSeq
<1>5. /\ DOMAIN plans' = DOMAIN plans /\ DOMAIN execs' = DOMAIN execs
      /\ \A q \in DOMAIN plans : plans'[q] = IF q = p THEN r ELSE plans[q]
      /\ \A d \in DOMAIN execs : execs'[d] = IF d = e THEN y ELSE execs[d]
  BY <1>2
<1> QED
  BY <1>1, <1>3, <1>4, <1>5 DEF p

\* What it takes of a move to keep each part of the invariant.
LEMMA MovesKeep ==
    ASSUME WorkInv, RunningIsExecuted, NEW e \in DOMAIN execs, NEW y \in ExecRecord,
           NEW st \in [StepsOf(e) -> Statuses], Moves(e, y, st),
           y.plan = execs[e].plan, IsExec(y, StepsOf(e)),
           Len(library) \in Nat, Len(library') \in Nat, Len(library) <= Len(library'),
           request' = request, overlapped' = overlapped,
           \A i \in StepsOf(e) : st[i] = "running" =>
              \/ y.phase = "executing" /\ y.step = i
              \/ /\ StatusOf(e)[i] = "running"
                 /\ ~(execs[e].phase = "executing" /\ execs[e].step = i),
           WholeInv, AtWork(e),
           ~overlapped /\ y.phase # "ended" => \A i \in y.completed : st[i] = "success"
    PROVE  /\ WorkInv' /\ RunningIsExecuted'
           /\ ~overlapped => PlansWhole' /\ OneWorker' /\ CompletedShown'
<1> DEFINE p == execs[e].plan
<1>0. /\ p \in DOMAIN plans /\ All' = All /\ PlanRecord' = PlanRecord
      /\ \A q \in DOMAIN plans : IsPlan(plans[q]) /\ plans[q].composite <= Len(library)
      /\ \A d \in DOMAIN execs : execs[d].plan \in DOMAIN plans
                                 /\ IsExec(execs[d], plans[execs[d].plan].steps)
  BY DEF WorkInv, All, PlanRecord
<1>1. /\ plans' \in Seq(PlanRecord) /\ execs' \in Seq(ExecRecord)
      /\ DOMAIN plans' = DOMAIN plans /\ DOMAIN execs' = DOMAIN execs
      /\ \A d \in DOMAIN execs : execs'[d] = IF d = e THEN y ELSE execs[d]
      /\ \A q \in DOMAIN plans :
           /\ plans'[q].steps = plans[q].steps
           /\ plans'[q].composite = plans[q].composite
           /\ plans'[q].status = IF q = p THEN st ELSE plans[q].status
  BY MovesFacts
<1>2. \A d \in DOMAIN execs : execs'[d].plan = execs[d].plan
  BY <1>1
<1>3. WorkInv'
  <2>1. \A q \in DOMAIN plans : IsPlan(plans[q])' /\ plans'[q].composite <= Len(library')
    <3> SUFFICES ASSUME NEW q \in DOMAIN plans
                 PROVE  IsPlan(plans[q])' /\ plans'[q].composite <= Len(library')
      OBVIOUS
    <3>1. plans'[q] \in PlanRecord /\ plans[q] \in PlanRecord
      BY <1>0, <1>1, ElementOfSeq DEF IsPlan
    <3>2. plans'[q].status \in [plans'[q].steps -> Statuses] /\ plans'[q].steps # {}
      BY <1>0, <1>1 DEF IsPlan, StepsOf
    <3>3. plans[q].composite <= Len(library) /\ plans[q].composite \in Nat
      BY <1>0, <3>1 DEF PlanRecord
    <3> QED
      BY <1>0, <1>1, <3>1, <3>2, <3>3 DEF IsPlan
  <2>2. \A d \in DOMAIN execs : IsExec(execs[d], plans[execs[d].plan].steps)'
    <3> SUFFICES ASSUME NEW d \in DOMAIN execs
                 PROVE  IsExec(execs[d], plans[execs[d].plan].steps)'
      OBVIOUS
    <3>1. plans'[execs'[d].plan].steps = plans[execs[d].plan].steps
      BY <1>0, <1>1, <1>2
    <3>2. CASE d = e
      <4>1. execs'[d] = y /\ IsExec(y, plans[execs[d].plan].steps)
        BY <1>1, <3>2 DEF StepsOf
      <4> QED
        BY <3>1, <4>1 DEF IsExec
    <3>3. CASE d # e
      <4>1. execs'[d] = execs[d] /\ IsExec(execs[d], plans[execs[d].plan].steps)
        BY <1>0, <1>1, <3>3
      <4> QED
        BY <3>1, <4>1 DEF IsExec
    <3> QED
      BY <3>2, <3>3
  <2> QED
    BY <1>0, <1>1, <1>2, <2>1, <2>2 DEF WorkInv
<1>4. RunningIsExecuted'
  <2> SUFFICES ASSUME NEW q \in DOMAIN plans, NEW i \in plans[q].steps,
                      plans'[q].status[i] = "running"
               PROVE  \E d \in Of(q)' : execs'[d].phase = "executing" /\ execs'[d].step = i
    BY <1>1 DEF RunningIsExecuted
  <2>1. \A d \in DOMAIN execs : d \in Of(q)' <=> execs[d].plan = q
    BY <1>1, <1>2 DEF Of
  <2>2. CASE q = p /\ y.phase = "executing" /\ y.step = i
    BY <1>1, <2>1, <2>2
  <2>3. CASE ~(q = p /\ y.phase = "executing" /\ y.step = i)
    <3>1. /\ plans[q].status[i] = "running"
          /\ q = p => ~(execs[e].phase = "executing" /\ execs[e].step = i)
      BY <1>1, <2>3 DEF StepsOf, StatusOf
    <3>2. PICK d \in Of(q) : execs[d].phase = "executing" /\ execs[d].step = i
      BY <3>1 DEF RunningIsExecuted
    <3>3. d \in DOMAIN execs /\ execs[d].plan = q /\ d # e
      BY <3>1, <3>2 DEF Of
    <3> QED
      BY <1>1, <2>1, <3>2, <3>3
  <2> QED
    BY <2>2, <2>3
<1>5. ASSUME ~overlapped PROVE PlansWhole' /\ OneWorker' /\ CompletedShown'
  <2>1. PlansWhole /\ OneWorker /\ CompletedShown
    BY <1>5 DEF WholeInv
  <2>2. PlansWhole'
    BY <1>0, <1>1, <2>1 DEF PlansWhole
  <2>3. \A d \in DOMAIN execs : AtWork(d)' => AtWork(d)
    BY <1>1 DEF AtWork
  <2>4. OneWorker'
    BY <1>1, <1>2, <2>1, <2>3 DEF OneWorker
  <2>5. CompletedShown'
    <3> SUFFICES ASSUME NEW d \in DOMAIN execs, AtWork(d)', NEW i \in execs'[d].completed
                 PROVE  plans'[execs'[d].plan].status[i] = "success"
      BY <1>1 DEF CompletedShown
    <3>1. CASE d = e
      BY <1>0, <1>1, <1>2, <1>5, <3>1 DEF AtWork
    <3>2. CASE d # e
      <4>1. execs[d].plan # p
        BY <2>1, <2>3, <3>2 DEF OneWorker
      <4>2. plans[execs[d].plan].status[i] = "success"
        BY <1>1, <2>1, <2>3, <3>2 DEF CompletedShown
      <4> QED
        BY <1>0, <1>1, <1>2, <4>1, <4>2
    <3> QED
      BY <3>1, <3>2
  <2> QED
    BY <2>2, <2>4, <2>5
<1> QED
  BY <1>3, <1>4, <1>5

\* The end of an execution: a composite is recorded, or learned from the steps
\* shown as successes, among them the last one.
LEMMA ConcludeKeeps ==
    ASSUME IInv, NEW e \in DOMAIN execs, NEW x \in ExecRecord, x.plan = execs[e].plan,
           x.step \in StepsOf(e), x.completed \subseteq StepsOf(e),
           NEW st \in [StepsOf(e) -> Statuses], NEW v \in Verdicts,
           v = "completed" /\ Cardinality(x.completed) >= 2 => st[x.step] = "success",
           ~overlapped /\ v = "completed" => \A i \in StepsOf(e) : st[i] = "success",
           Conclude(x, v, st), request' = request
    PROVE  /\ LibraryInv' /\ RateInv' /\ Len(library) <= Len(library')
           /\ ~overlapped => LibraryWhole'
<1> DEFINE c == plans[x.plan].composite
           done == {i \in plans[x.plan].steps : st[i] = "success"}
<1> USE DEF IInv
<1>1. /\ x.plan \in DOMAIN plans /\ plans[x.plan].steps = StepsOf(e)
      /\ plans[x.plan] \in PlanRecord /\ c \in Nat /\ c <= Len(library)
      /\ DOMAIN library = 1..Len(library) /\ Len(library) \in Nat
  BY DEF WorkInv, IsPlan, StepsOf, PlanRecord, LibraryInv
<1>2. done \subseteq All /\ done \subseteq StepsOf(e)
  BY <1>1 DEF PlanRecord
<1>3. ~overlapped => LibraryWhole /\ StepsOf(e) = All
  BY <1>1 DEF WholeInv, PlansWhole, StepsOf
<1>4. CASE c # 0
  <2>1. PICK b \in BOOLEAN : Record(c, b)
    BY <1>4 DEF Conclude
  <2>2. c \in DOMAIN library
    BY <1>1, <1>4
  <2> HIDE DEF c
  <2> QED
    BY <1>3, <2>1, <2>2, RecordKeeps
<1>5. CASE c = 0 /\ v = "completed" /\ Cardinality(x.completed) >= 2
  <2>1. Learn(done)
    BY <1>5 DEF Conclude
  <2>2. done # {}
    BY <1>1, <1>5
  <2>3. ~overlapped => done = All
    BY <1>1, <1>2, <1>3, <1>5
  <2> HIDE DEF done
  <2> QED
    BY <1>2, <1>3, <2>1, <2>2, <2>3, LearnKeeps
<1>6. CASE c = 0 /\ ~(v = "completed" /\ Cardinality(x.completed) >= 2)
  <2>1. UNCHANGED <<library, won, request>>
    BY <1>6 DEF Conclude
  <2> QED
    BY <1>1, <1>3, <2>1 DEF LibraryInv, RateInv, LibraryWhole, Composites, All
<1> QED
  BY <1>4, <1>5, <1>6

LEMMA NextStepRecord ==
    ASSUME NEW x \in ExecRecord, NEW i \in Nat
    PROVE  LET y == [x EXCEPT !.phase = "executing", !.step = i, !.tries = 1]
           IN  /\ y \in ExecRecord /\ y.plan = x.plan /\ y.phase = "executing" /\ y.step = i
               /\ y.completed = x.completed /\ y.failed = x.failed
<1> DEFINE z == [x EXCEPT !.phase = "executing", !.step = i]
           y == [z EXCEPT !.tries = 1]
<1>1. /\ z \in ExecRecord /\ z.plan = x.plan /\ z.phase = "executing" /\ z.step = i
      /\ z.completed = x.completed /\ z.failed = x.failed
  BY DEF ExecRecord
<1>2. y = [x EXCEPT !.phase = "executing", !.step = i, !.tries = 1]
  BY DEF ExecRecord
<1> HIDE DEF z
<1>3. /\ y \in ExecRecord /\ y.plan = z.plan /\ y.phase = z.phase /\ y.step = z.step
      /\ y.completed = z.completed /\ y.failed = z.failed
  BY <1>1 DEF ExecRecord
<1> HIDE DEF y
<1> QED
  BY <1>1, <1>2, <1>3

\* After a step, now that it is shown as st: the next step, or the end.
LEMMA ProceedKeeps ==
    ASSUME IInv, NEW e \in DOMAIN execs, AtWork(e),
           NEW x \in ExecRecord, x.plan = execs[e].plan, x.step = execs[e].step,
           x.completed \cup x.failed \subseteq StepsOf(e),
           \A i \in x.completed : i <= x.step,
           NEW st \in [StepsOf(e) -> Statuses], NEW stopped \in BOOLEAN,
           \A i \in StepsOf(e) : st[i] = "running" =>
              /\ StatusOf(e)[i] = "running"
              /\ ~(execs[e].phase = "executing" /\ execs[e].step = i),
           ~overlapped /\ ~stopped => \A i \in x.completed : st[i] = "success",
           ~stopped /\ x.failed = {} /\ Cardinality(x.completed) >= 2 => st[x.step] = "success",
           Proceed(e, x, st, stopped), request' = request, overlapped' = overlapped
    PROVE  IInv'
<1> USE DEF IInv
<1>1. /\ x.plan \in DOMAIN plans /\ x.step \in StepsOf(e) /\ StepsOf(e) \subseteq Nat
      /\ plans[x.plan].steps = StepsOf(e)
      /\ plans[x.plan] \in PlanRecord
  BY DEF WorkInv, IsPlan, IsExec, PlanRecord, StepsOf, All
<1>2. Len(library) \in Nat /\ All' = All /\ Composites' = Composites
  BY DEF LibraryInv, All, Composites
<1>3. CASE stopped \/ Remaining(x) = {} \/ (plans[x.plan].options.stop /\ x.failed # {})
  <2> DEFINE v == Verdict(x, stopped)
             y == [x EXCEPT !.phase = "ended", !.verdict = v]
  <2>1. /\ execs' = [execs EXCEPT ![e] = y]
        /\ plans' = [plans EXCEPT ![x.plan].status = st]
        /\ Conclude(x, v, st)
    BY <1>3 DEF Proceed
  <2>2. v \in Verdicts /\ (v = "completed" => ~stopped /\ x.failed = {} /\ x.completed = StepsOf(e))
    BY <1>1 DEF Verdict, Verdicts
  <2> HIDE DEF v
  <2>3. /\ y \in ExecRecord /\ y.plan = x.plan /\ y.phase = "ended" /\ y.step = x.step
        /\ y.completed = x.completed /\ y.failed = x.failed
    BY <2>2 DEF ExecRecord
  <2> HIDE DEF y
  <2>4. /\ LibraryInv' /\ RateInv' /\ Len(library) <= Len(library')
        /\ ~overlapped => LibraryWhole'
    BY <1>1, <2>1, <2>2, ConcludeKeeps
  <2>5. Len(library') \in Nat
    BY <2>4 DEF LibraryInv
  <2>6. IsExec(y, StepsOf(e))
    BY <1>1, <2>3 DEF IsExec
  <2>7. Moves(e, y, st)
    BY <2>1 DEF Moves
  <2>8. /\ WorkInv' /\ RunningIsExecuted'
        /\ ~overlapped => PlansWhole' /\ OneWorker' /\ CompletedShown'
    BY <1>2, <2>3, <2>4, <2>5, <2>6, <2>7, MovesKeep
  <2> QED
    BY <2>4, <2>8 DEF WholeInv
<1>4. CASE ~(stopped \/ Remaining(x) = {} \/ (plans[x.plan].options.stop /\ x.failed # {}))
  <2> DEFINE next == First(Remaining(x))
             y == [x EXCEPT !.phase = "executing", !.step = next, !.tries = 1]
             s == [st EXCEPT ![next] = "running"]
  <2>1. /\ execs' = [execs EXCEPT ![e] = y]
        /\ plans' = [plans EXCEPT ![x.plan].status = s]
        /\ UNCHANGED <<library, won>>
    BY <1>4 DEF Proceed
  <2>2. next \in StepsOf(e) /\ next > x.step
    <3>1. Remaining(x) \in SUBSET Nat /\ Remaining(x) # {}
      BY <1>1, <1>4 DEF Remaining
    <3>2. next \in Remaining(x)
      BY <3>1, FirstIsLeast
    <3> QED
      BY <1>1, <3>2 DEF Remaining
  <2> HIDE DEF next
  <2>3. s \in [StepsOf(e) -> Statuses] /\ s[next] = "running"
        /\ \A i \in StepsOf(e) : i # next => s[i] = st[i]
    BY <2>2 DEF Statuses
  <2>4. /\ y \in ExecRecord /\ y.plan = x.plan /\ y.phase = "executing" /\ y.step = next
        /\ y.completed = x.completed /\ y.failed = x.failed
    <3>1. next \in Nat
      BY <1>1, <2>2
    <3> QED
      BY <3>1, NextStepRecord
  <2> HIDE DEF y, s
  <2>5. \A i \in y.completed : i \in Nat /\ i < next /\ i \in StepsOf(e)
    BY <1>1, <2>2, <2>4
  <2>6. IsExec(y, StepsOf(e))
    BY <2>2, <2>4, <2>5 DEF IsExec
  <2>7. \A i \in StepsOf(e) : s[i] = "running" =>
              \/ y.phase = "executing" /\ y.step = i
              \/ /\ StatusOf(e)[i] = "running"
                 /\ ~(execs[e].phase = "executing" /\ execs[e].step = i)
    BY <2>3, <2>4
  <2>8. ~overlapped => \A i \in y.completed : s[i] = "success"
    BY <1>4, <2>2, <2>3, <2>4, <2>5
  <2>9. Moves(e, y, s)
    BY <2>1 DEF Moves
  <2>10. library' = library
    BY <2>1
  <2>11. /\ WorkInv' /\ RunningIsExecuted'
         /\ ~overlapped => PlansWhole' /\ OneWorker' /\ CompletedShown'
    BY <1>2, <2>3, <2>4, <2>6, <2>7, <2>8, <2>9, <2>10, MovesKeep
  <2>12. LibraryInv' /\ RateInv' /\ (~overlapped => LibraryWhole')
    BY <1>2, <2>1 DEF LibraryInv, RateInv, WholeInv, LibraryWhole
  <2> QED
    BY <2>11, <2>12 DEF WholeInv
<1> QED
  BY <1>3, <1>4

\* A plan has every step of its composite, or of the request.
LEMMA PlanIsPlan ==
    ASSUME IInv, NEW o \in Options
    PROVE  /\ IsPlan(Plan(o)) /\ Plan(o).composite <= Len(library)
           /\ \A i \in Plan(o).steps : Plan(o).status[i] = "pending"
           /\ ~overlapped => Plan(o).steps = All
<1> DEFINE usable == {i \in DOMAIN library : Usable(library[i])}
           c == IF usable = {} THEN 0 ELSE First(usable)
           steps == IF c = 0 THEN 1..request.n ELSE library[c].steps
           status == [i \in steps |-> "pending"]
<1>1. Plan(o) = [composite |-> c, steps |-> steps, options |-> o, status |-> status]
  BY DEF Plan
<1>2. DOMAIN library = 1..Len(library) /\ Len(library) \in Nat
  BY DEF IInv, LibraryInv
<1>3. c \in Nat /\ c <= Len(library) /\ (c # 0 => c \in DOMAIN library)
  <2>1. CASE usable = {}
    BY <1>2, <2>1
  <2>2. CASE usable # {}
    <3>1. usable \in SUBSET Nat
      BY <1>2
    <3>2. First(usable) \in usable
      BY <2>2, <3>1, FirstIsLeast
    <3> QED
      BY <1>2, <2>2, <3>2
  <2> QED
    BY <2>1, <2>2
<1> HIDE DEF c
<1>4. steps \in SUBSET All /\ steps # {} /\ (~overlapped => steps = All)
  <2>1. CASE c = 0
    <3>1. request.n \in Nat \ {0}
      BY RequestAssumption DEF IInv, WorkInv
    <3>2. steps = All /\ 1 \in All
      BY <2>1, <3>1 DEF All
    <3> QED
      BY <3>2
  <2>2. CASE c # 0
    <3>1. library[c] \in Composites /\ library[c].steps # {}
      BY <1>2, <1>3, <2>2, ElementOfSeq DEF IInv, LibraryInv
    <3> QED
      BY <1>3, <2>2, <3>1 DEF IInv, WholeInv, LibraryWhole, Composites
  <2> QED
    BY <2>1, <2>2
<1> HIDE DEF steps
<1>5. status \in [steps -> Statuses] /\ \A i \in steps : status[i] = "pending"
  BY DEF Statuses
<1> HIDE DEF status
<1>6. Plan(o) \in PlanRecord
  BY <1>1, <1>3, <1>4, <1>5 DEF PlanRecord
<1> QED
  BY <1>1, <1>3, <1>4, <1>5, <1>6 DEF IsPlan

LEMMA StartedIsPlan ==
    ASSUME NEW r, IsPlan(r)
    PROVE  /\ IsPlan(Started(r)) /\ Started(r).steps = r.steps
           /\ Started(r).composite = r.composite
           /\ First(r.steps) \in r.steps /\ Started(r).status[First(r.steps)] = "running"
           /\ \A i \in r.steps : i # First(r.steps) => Started(r).status[i] = r.status[i]
<1> DEFINE i == First(r.steps)
           st == [r.status EXCEPT ![i] = "running"]
<1>1. r.steps \in SUBSET Nat /\ r.steps # {} /\ r \in PlanRecord /\ r.steps \in SUBSET All
  BY DEF IsPlan, PlanRecord, All
<1>2. i \in r.steps
  BY <1>1, FirstIsLeast
<1>3. st \in [r.steps -> Statuses] /\ st[i] = "running"
      /\ \A j \in r.steps : j # i => st[j] = r.status[j]
  BY <1>2 DEF IsPlan, Statuses
<1>4. Started(r) = [r EXCEPT !.status = st]
  BY <1>1 DEF Started, PlanRecord
<1> HIDE DEF st, i
<1>5. st \in UNION {[S -> Statuses] : S \in SUBSET All}
  BY <1>1, <1>3
<1>6. /\ Started(r) \in PlanRecord /\ Started(r).steps = r.steps /\ Started(r).status = st
      /\ Started(r).composite = r.composite
  BY <1>1, <1>4, <1>5 DEF PlanRecord
<1> QED
  BY <1>1, <1>2, <1>3, <1>6 DEF IsPlan, i

\* An execution begins on plan p, new or not.
LEMMA BeginKeeps ==
    ASSUME IInv, NEW p \in DOMAIN plans',
           plans' \in Seq(PlanRecord),
           DOMAIN plans \subseteq DOMAIN plans' /\ DOMAIN plans' \subseteq DOMAIN plans \cup {p},
           \A q \in DOMAIN plans \ {p} : plans'[q] = plans[q],
           NEW r, IsPlan(r), r.composite <= Len(library), ~overlapped => r.steps = All,
           p \in DOMAIN plans => r = plans[p],
           p \notin DOMAIN plans => \A i \in r.steps : r.status[i] = "pending",
           plans'[p] = Started(r),
           execs' = Append(execs, Execution(p, r.steps)),
           UNCHANGED <<request, library, won>>,
           overlapped' = (overlapped \/ \E e \in Of(p) : AtWork(e))
    PROVE  IInv'
<1> DEFINE x == Execution(p, r.steps)
           n == Len(execs) + 1
<1> USE DEF IInv
<1>0. /\ All' = All /\ PlanRecord' = PlanRecord /\ Composites' = Composites
      /\ execs \in Seq(ExecRecord) /\ DOMAIN execs = 1..Len(execs) /\ Len(execs) \in Nat
      /\ \A q \in DOMAIN plans : IsPlan(plans[q]) /\ plans[q].composite <= Len(library)
      /\ \A d \in DOMAIN execs : execs[d].plan \in DOMAIN plans
                                 /\ IsExec(execs[d], plans[execs[d].plan].steps)
  BY DEF WorkInv, All, PlanRecord, Composites
<1>1. /\ IsPlan(plans'[p]) /\ plans'[p].steps = r.steps /\ plans'[p].composite = r.composite
      /\ First(r.steps) \in r.steps /\ plans'[p].status[First(r.steps)] = "running"
      /\ \A i \in r.steps : i # First(r.steps) => plans'[p].status[i] = r.status[i]
  BY StartedIsPlan
<1>2. /\ x \in ExecRecord /\ x.plan = p /\ x.phase = "executing" /\ x.step = First(r.steps)
      /\ x.completed = {} /\ x.failed = {} /\ IsExec(x, r.steps)
  <2>1. p \in Nat /\ First(r.steps) \in Nat
    BY <1>1 DEF IsPlan, PlanRecord, All
  <2>2. x = [plan |-> p, phase |-> "executing", step |-> First(r.steps), tries |-> 1,
             completed |-> {}, failed |-> {}, verdict |-> "none", timedOut |-> FALSE]
    BY DEF Execution
  <2> HIDE DEF x
  <2>3. x \in ExecRecord
    BY <2>1, <2>2 DEF ExecRecord
  <2> QED
    BY <1>1, <2>2, <2>3 DEF IsExec
<1> HIDE DEF x
<1>3. /\ execs' \in Seq(ExecRecord) /\ Len(execs') = n /\ execs'[n] = x
      /\ \A d \in DOMAIN execs : execs'[d] = execs[d]
      /\ DOMAIN execs' = DOMAIN execs \cup {n} /\ n \notin DOMAIN execs
  <2>1. execs' = Append(execs, x)
    BY DEF x
  <2>2. /\ execs' \in Seq(ExecRecord) /\ Len(execs') = n /\ execs'[n] = x
        /\ \A d \in 1..Len(execs) : execs'[d] = execs[d]
    BY <1>0, <1>2, <2>1, AppendProperties
  <2>3. DOMAIN execs' = 1..n
    BY <2>2
  <2> QED
    BY <1>0, <2>2, <2>3
<1> HIDE DEF n
<1>4. \A q \in DOMAIN plans : plans'[q].steps = plans[q].steps
  BY <1>1
<1>5. WorkInv'
  <2>1. \A q \in DOMAIN plans' : IsPlan(plans[q])' /\ plans'[q].composite <= Len(library')
    <3> SUFFICES ASSUME NEW q \in DOMAIN plans'
                 PROVE  IsPlan(plans[q])' /\ plans'[q].composite <= Len(library')
      OBVIOUS
    <3>1. IsPlan(plans'[q]) /\ plans'[q].composite <= Len(library')
      BY <1>0, <1>1
    <3> QED
      BY <1>0, <3>1 DEF IsPlan
  <2>2. \A d \in DOMAIN execs' : IsExec(execs[d], plans[execs[d].plan].steps)'
    <3> SUFFICES ASSUME NEW d \in DOMAIN execs'
                 PROVE  IsExec(execs[d], plans[execs[d].plan].steps)'
      OBVIOUS
    <3>1. IsExec(execs'[d], plans'[execs'[d].plan].steps)
      BY <1>0, <1>1, <1>2, <1>3, <1>4
    <3> QED
      BY <3>1 DEF IsExec
  <2>3. \A d \in DOMAIN execs' : execs'[d].plan \in DOMAIN plans'
    BY <1>0, <1>2, <1>3
  <2>4. overlapped' \in BOOLEAN /\ request' \in Requests
    BY DEF WorkInv
  <2> QED
    BY <1>0, <1>3, <2>1, <2>2, <2>3, <2>4 DEF WorkInv
<1>6. RunningIsExecuted'
  <2> SUFFICES ASSUME NEW q \in DOMAIN plans', NEW i \in plans'[q].steps,
                      plans'[q].status[i] = "running"
               PROVE  \E d \in Of(q)' : execs'[d].phase = "executing" /\ execs'[d].step = i
    BY DEF RunningIsExecuted
  <2>1. CASE q = p /\ i = First(r.steps)
    BY <1>2, <1>3, <2>1 DEF Of
  <2>2. CASE ~(q = p /\ i = First(r.steps))
    <3>1. q \in DOMAIN plans /\ i \in plans[q].steps /\ plans[q].status[i] = "running"
      BY <1>1, <2>2
    <3>2. PICK d \in Of(q) : execs[d].phase = "executing" /\ execs[d].step = i
      BY <3>1 DEF RunningIsExecuted
    <3> QED
      BY <1>3, <3>2 DEF Of
  <2> QED
    BY <2>1, <2>2
<1>7. WholeInv'
  <2> SUFFICES ASSUME ~overlapped' PROVE LibraryWhole' /\ PlansWhole' /\ OneWorker' /\ CompletedShown'
    BY DEF WholeInv
  <2>1. ~overlapped /\ \A e \in Of(p) : ~AtWork(e)
    OBVIOUS
  <2>2. LibraryWhole /\ PlansWhole /\ OneWorker /\ CompletedShown
    BY <2>1 DEF WholeInv
  <2>3. PlansWhole'
    BY <1>0, <1>1, <2>1, <2>2 DEF PlansWhole
  <2>4. \A d \in DOMAIN execs : (AtWork(d)' <=> AtWork(d)) /\ (AtWork(d) => execs[d].plan # p)
    BY <1>3, <2>1 DEF AtWork, Of
  <2>5. OneWorker'
    BY <1>2, <1>3, <2>2, <2>4 DEF OneWorker
  <2>6. CompletedShown'
    <3> SUFFICES ASSUME NEW d \in DOMAIN execs', AtWork(d)', NEW i \in execs'[d].completed
                 PROVE  plans'[execs'[d].plan].status[i] = "success"
      BY DEF CompletedShown
    <3>1. d \in DOMAIN execs
      BY <1>2, <1>3
    <3> QED
      BY <1>0, <1>3, <2>2, <2>4, <3>1 DEF CompletedShown
  <2> QED
    BY <1>0, <2>2, <2>3, <2>5, <2>6 DEF LibraryWhole
<1>8. LibraryInv' /\ RateInv'
  BY <1>0 DEF LibraryInv, RateInv
<1> QED
  BY <1>5, <1>6, <1>7, <1>8

-----------------------------------------------------------------------------
(* The invariant *)

LEMMA Initially == Init => IInv
<1> SUFFICES ASSUME Init PROVE IInv
  OBVIOUS
<1>1. LibraryInv /\ RateInv
  BY DEF Init, LibraryInv, RateInv
<1>2. WorkInv
  <2>1. plans \in Seq(PlanRecord) /\ execs \in Seq(ExecRecord)
    BY EmptySeq DEF Init
  <2>2. request \in Requests /\ overlapped \in BOOLEAN
    BY DEF Init
  <2>3. DOMAIN plans = {} /\ DOMAIN execs = {}
    BY DEF Init
  <2> QED
    BY <2>1, <2>2, <2>3 DEF WorkInv
<1>3. RunningIsExecuted /\ WholeInv
  BY DEF Init, RunningIsExecuted, WholeInv, LibraryWhole, PlansWhole, OneWorker, CompletedShown
<1> QED
  BY <1>1, <1>2, <1>3 DEF IInv

LEMMA SubmitKeeps ==
    ASSUME IInv, NEW o \in Options, Submit(o)
    PROVE  IInv'
<1> DEFINE r == Plan(o)
           p == Len(plans) + 1
<1> USE DEF IInv
<1>0. /\ plans \in Seq(PlanRecord) /\ execs \in Seq(ExecRecord)
      /\ DOMAIN plans = 1..Len(plans) /\ Len(plans) \in Nat /\ p \notin DOMAIN plans
      /\ \A q \in DOMAIN plans : IsPlan(plans[q]) /\ plans[q].composite <= Len(library)
      /\ \A d \in DOMAIN execs : execs[d].plan \in DOMAIN plans
                                 /\ IsExec(execs[d], plans[execs[d].plan].steps)
      /\ All' = All /\ PlanRecord' = PlanRecord /\ Composites' = Composites
  BY DEF WorkInv, Submit, All, PlanRecord, Composites
<1>1. /\ IsPlan(r) /\ r.composite <= Len(library)
      /\ \A i \in r.steps : r.status[i] = "pending"
      /\ ~overlapped => r.steps = All
  BY PlanIsPlan
<1> HIDE DEF r
<1>2. CASE o.direct
  <2>1. /\ plans' = Append(plans, Started(r))
        /\ execs' = Append(execs, Execution(p, r.steps))
        /\ UNCHANGED <<request, library, overlapped, won>>
    BY <1>2 DEF Submit, r
  <2>2. Started(r) \in PlanRecord
    BY <1>1, StartedIsPlan DEF IsPlan
  <2>3. /\ plans' \in Seq(PlanRecord) /\ Len(plans') = p /\ plans'[p] = Started(r)
        /\ \A q \in 1..Len(plans) : plans'[q] = plans[q]
    BY <1>0, <2>1, <2>2, AppendProperties
  <2>4. DOMAIN plans' = DOMAIN plans \cup {p}
    <3>1. DOMAIN plans' = 1..(Len(plans) + 1)
      BY <2>3
    <3> QED
      BY <1>0, <3>1
  <2>5. Of(p) = {}
    BY <1>0 DEF Of
  <2>6. overlapped' = (overlapped \/ \E e \in Of(p) : AtWork(e))
    BY <2>1, <2>5 DEF WorkInv
  <2> HIDE DEF p
  <2> QED
    BY <1>0, <1>1, <2>1, <2>3, <2>4, <2>6, BeginKeeps
<1>3. CASE ~o.direct
  <2>1. plans' = Append(plans, r) /\ UNCHANGED <<request, library, execs, overlapped, won>>
    BY <1>3 DEF Submit, r
  <2>2. /\ plans' \in Seq(PlanRecord) /\ Len(plans') = p /\ plans'[p] = r
        /\ \A q \in 1..Len(plans) : plans'[q] = plans[q]
    BY <1>0, <1>1, <2>1, AppendProperties DEF IsPlan
  <2>3. DOMAIN plans' = DOMAIN plans \cup {p}
    <3>1. DOMAIN plans' = 1..(Len(plans) + 1)
      BY <2>2
    <3> QED
      BY <1>0, <3>1
  <2> HIDE DEF p
  <2>4. \A q \in DOMAIN plans' : IsPlan(plans[q])' /\ plans'[q].composite <= Len(library')
    <3> SUFFICES ASSUME NEW q \in DOMAIN plans'
                 PROVE  IsPlan(plans[q])' /\ plans'[q].composite <= Len(library')
      OBVIOUS
    <3>1. IsPlan(plans'[q]) /\ plans'[q].composite <= Len(library')
      BY <1>0, <1>1, <2>1, <2>2, <2>3
    <3> QED
      BY <1>0, <3>1 DEF IsPlan
  <2>5. WorkInv'
    <3>1. \A d \in DOMAIN execs : IsExec(execs[d], plans[execs[d].plan].steps)'
      BY <1>0, <2>1, <2>2 DEF IsExec
    <3> QED
      BY <1>0, <2>1, <2>2, <2>3, <2>4, <3>1 DEF WorkInv
  <2>6. RunningIsExecuted'
    BY <1>0, <1>1, <2>1, <2>2, <2>3 DEF RunningIsExecuted, Of
  <2>7. WholeInv'
    <3>1. ~overlapped => PlansWhole'
      BY <1>0, <1>1, <2>1, <2>2, <2>3 DEF WholeInv, PlansWhole
    <3>2. ~overlapped => CompletedShown'
      BY <1>0, <2>1, <2>2 DEF WholeInv, CompletedShown, AtWork
    <3> QED
      BY <1>0, <2>1, <3>1, <3>2 DEF WholeInv, LibraryWhole, OneWorker, AtWork
  <2>8. LibraryInv' /\ RateInv'
    BY <1>0, <2>1 DEF LibraryInv, RateInv
  <2> QED
    BY <2>5, <2>6, <2>7, <2>8
<1> QED
  BY <1>2, <1>3

LEMMA AttemptKeeps ==
    ASSUME IInv, NEW p \in DOMAIN plans, Begin(p)
    PROVE  IInv'
<1> DEFINE r == plans[p]
<1> USE DEF IInv
<1>1. /\ plans \in Seq(PlanRecord) /\ DOMAIN plans = 1..Len(plans)
      /\ IsPlan(r) /\ r.composite <= Len(library)
  BY DEF WorkInv
<1>2. ~overlapped => r.steps = All
  BY DEF WholeInv, PlansWhole
<1>3. /\ plans' = [plans EXCEPT ![p] = Started(r)]
      /\ execs' = Append(execs, Execution(p, r.steps))
      /\ overlapped' = (overlapped \/ \E e \in Of(p) : AtWork(e))
      /\ UNCHANGED <<request, library, won>>
  BY DEF Begin
<1>4. Started(r) \in PlanRecord
  BY <1>1, StartedIsPlan DEF IsPlan
<1>5. /\ plans' \in Seq(PlanRecord) /\ DOMAIN plans' = DOMAIN plans /\ plans'[p] = Started(r)
      /\ \A q \in DOMAIN plans \ {p} : plans'[q] = plans[q]
  BY <1>1, <1>3, <1>4, ExceptSeq
<1>6. r = plans[p]
  OBVIOUS
<1> HIDE DEF r
<1> QED
  BY <1>1, <1>2, <1>3, <1>5, <1>6, BeginKeeps

\* What is known of an execution at work.
LEMMA AtWorkFacts ==
    ASSUME IInv, NEW e \in DOMAIN execs
    PROVE  /\ execs[e] \in ExecRecord /\ execs[e].step \in StepsOf(e)
           /\ execs[e].step \in Nat
           /\ execs[e].plan \in DOMAIN plans /\ IsExec(execs[e], StepsOf(e))
           /\ plans[execs[e].plan] \in PlanRecord /\ IsPlan(plans[execs[e].plan])
           /\ StatusOf(e) \in [StepsOf(e) -> Statuses] /\ StepsOf(e) \subseteq Nat
           /\ ~overlapped /\ AtWork(e) =>
                \A i \in execs[e].completed : StatusOf(e)[i] = "success"
<1> USE DEF IInv
<1>1. /\ execs[e].plan \in DOMAIN plans /\ IsPlan(plans[execs[e].plan])
      /\ IsExec(execs[e], StepsOf(e))
  BY DEF WorkInv, StepsOf
<1>2. StepsOf(e) \subseteq Nat
  BY <1>1 DEF StepsOf, IsPlan, PlanRecord, All
<1>3. ~overlapped /\ AtWork(e) => \A i \in execs[e].completed : StatusOf(e)[i] = "success"
  BY DEF WholeInv, CompletedShown, StatusOf
<1> QED
  BY <1>1, <1>2, <1>3 DEF IsPlan, IsExec, StepsOf, StatusOf

LEMMA SuccessKeeps ==
    ASSUME IInv, NEW e \in DOMAIN execs, StepSucceeds(e)
    PROVE  IInv'
<1> DEFINE x == [execs[e] EXCEPT !.completed = @ \cup {execs[e].step}]
           st == [StatusOf(e) EXCEPT ![execs[e].step] = "success"]
<1>1. /\ execs[e] \in ExecRecord /\ execs[e].step \in StepsOf(e) /\ execs[e].step \in Nat
      /\ IsExec(execs[e], StepsOf(e)) /\ StatusOf(e) \in [StepsOf(e) -> Statuses]
      /\ ~overlapped /\ AtWork(e) =>
           \A i \in execs[e].completed : StatusOf(e)[i] = "success"
  BY AtWorkFacts
<1>2. execs[e].phase = "executing" /\ AtWork(e) /\ request' = request /\ overlapped' = overlapped
  BY DEF StepSucceeds, AtWork
<1>3. /\ x \in ExecRecord /\ x.plan = execs[e].plan /\ x.step = execs[e].step
      /\ x.completed = execs[e].completed \cup {execs[e].step} /\ x.failed = execs[e].failed
  BY <1>1 DEF ExecRecord
<1>4. /\ st \in [StepsOf(e) -> Statuses] /\ st[execs[e].step] = "success"
      /\ \A i \in StepsOf(e) : i # execs[e].step => st[i] = StatusOf(e)[i]
  BY <1>1 DEF Statuses
<1>5. /\ x.completed \cup x.failed \subseteq StepsOf(e)
      /\ \A i \in x.completed : i <= x.step
      /\ ~overlapped => \A i \in x.completed : st[i] = "success"
  <2>1. /\ execs[e].completed \cup execs[e].failed \subseteq StepsOf(e)
        /\ \A i \in execs[e].completed : i < execs[e].step
    BY <1>1, <1>2 DEF IsExec
  <2>2. \A i \in execs[e].completed : i \in Nat
    BY <1>1 DEF ExecRecord
  <2> QED
    BY <1>1, <1>2, <1>3, <1>4, <2>1, <2>2
<1>6. \A i \in StepsOf(e) : st[i] = "running" =>
         StatusOf(e)[i] = "running" /\ ~(execs[e].phase = "executing" /\ execs[e].step = i)
  BY <1>4
<1>7. CASE x.step \in request.checked
  <2> DEFINE y == [x EXCEPT !.phase = "validating"]
  <2>1. Moves(e, y, st) /\ UNCHANGED <<library, won>>
    BY <1>3, <1>7 DEF StepSucceeds, Moves, StatusOf
  <2> HIDE DEF x, st
  <2>2. /\ y \in ExecRecord /\ y.plan = x.plan /\ y.phase = "validating" /\ y.step = x.step
        /\ y.completed = x.completed /\ y.failed = x.failed
    BY <1>3 DEF ExecRecord
  <2> HIDE DEF y
  <2>3. IsExec(y, StepsOf(e))
    BY <1>1, <1>3, <1>5, <1>7, <2>2 DEF IsExec
  <2>4. library' = library /\ Len(library) \in Nat
    BY <2>1 DEF IInv, LibraryInv
  <2>5. /\ WorkInv' /\ RunningIsExecuted'
        /\ ~overlapped => PlansWhole' /\ OneWorker' /\ CompletedShown'
    BY <1>2, <1>3, <1>4, <1>5, <1>6, <2>1, <2>2, <2>3, <2>4, MovesKeep DEF IInv
  <2>6. LibraryInv' /\ RateInv' /\ (~overlapped => LibraryWhole')
    BY <1>2, <2>1 DEF IInv, LibraryInv, RateInv, WholeInv, LibraryWhole, Composites, All
  <2> QED
    BY <1>2, <2>5, <2>6 DEF IInv, WholeInv
<1>8. CASE x.step \notin request.checked
  <2>1. Proceed(e, x, st, FALSE)
    BY <1>3, <1>8 DEF StepSucceeds, StatusOf
  <2> HIDE DEF x, st
  <2> QED
    BY <1>2, <1>3, <1>4, <1>5, <1>6, <2>1, ProceedKeeps
<1> QED
  BY <1>7, <1>8

LEMMA FailureKeeps ==
    ASSUME IInv, NEW e \in DOMAIN execs, StepFails(e)
    PROVE  IInv'
<1> DEFINE x == [execs[e] EXCEPT !.failed = @ \cup {execs[e].step}]
           st == [StatusOf(e) EXCEPT ![execs[e].step] = "failed"]
<1>1. /\ execs[e] \in ExecRecord /\ execs[e].step \in StepsOf(e) /\ execs[e].step \in Nat
      /\ execs[e].plan \in DOMAIN plans /\ plans[execs[e].plan] \in PlanRecord
      /\ IsExec(execs[e], StepsOf(e)) /\ StatusOf(e) \in [StepsOf(e) -> Statuses]
      /\ ~overlapped /\ AtWork(e) =>
           \A i \in execs[e].completed : StatusOf(e)[i] = "success"
  BY AtWorkFacts
<1>2. execs[e].phase = "executing" /\ AtWork(e) /\ request' = request /\ overlapped' = overlapped
  BY DEF StepFails, AtWork
<1>3. /\ execs[e].completed \cup execs[e].failed \subseteq StepsOf(e)
      /\ \A i \in execs[e].completed : i \in Nat /\ i < execs[e].step
  BY <1>1, <1>2 DEF IsExec, ExecRecord
<1>4. CASE execs[e].tries < plans[execs[e].plan].options.tries
  <2> DEFINE y == [execs[e] EXCEPT !.tries = @ + 1]
  <2>1. execs' = [execs EXCEPT ![e] = y] /\ UNCHANGED <<plans, library, won>>
    BY <1>4 DEF StepFails
  <2>2. /\ y \in ExecRecord /\ y.plan = execs[e].plan /\ y.phase = "executing"
        /\ y.step = execs[e].step
        /\ y.completed = execs[e].completed /\ y.failed = execs[e].failed
    BY <1>1, <1>2 DEF ExecRecord
  <2> HIDE DEF y
  <2>3. Moves(e, y, StatusOf(e))
    <3>1. plans' = [plans EXCEPT ![execs[e].plan].status = StatusOf(e)]
      <4>1. plans[execs[e].plan] =
              [plans[execs[e].plan] EXCEPT !.status = plans[execs[e].plan].status]
        BY <1>1 DEF PlanRecord
      <4>2. plans \in Seq(PlanRecord)
        BY DEF IInv, WorkInv
      <4> QED
        BY <1>1, <2>1, <4>1, <4>2 DEF StatusOf
    <3> QED
      BY <2>1, <3>1 DEF Moves
  <2>4. IsExec(y, StepsOf(e))
    BY <1>1, <1>3, <2>2 DEF IsExec
  <2>5. library' = library /\ Len(library) \in Nat
    BY <2>1 DEF IInv, LibraryInv
  <2>6. \A i \in StepsOf(e) : StatusOf(e)[i] = "running" =>
           \/ y.phase = "executing" /\ y.step = i
           \/ /\ StatusOf(e)[i] = "running"
              /\ ~(execs[e].phase = "executing" /\ execs[e].step = i)
    BY <2>2
  <2>7. ~overlapped => \A i \in y.completed : StatusOf(e)[i] = "success"
    BY <1>1, <1>2, <2>2
  <2>8. /\ WorkInv' /\ RunningIsExecuted'
        /\ ~overlapped => PlansWhole' /\ OneWorker' /\ CompletedShown'
    BY <1>1, <1>2, <2>2, <2>3, <2>4, <2>5, <2>6, <2>7, MovesKeep DEF IInv
  <2>9. LibraryInv' /\ RateInv' /\ (~overlapped => LibraryWhole')
    BY <1>2, <2>1 DEF IInv, LibraryInv, RateInv, WholeInv, LibraryWhole, Composites, All
  <2> QED
    BY <1>2, <2>8, <2>9 DEF IInv, WholeInv
<1>5. CASE ~(execs[e].tries < plans[execs[e].plan].options.tries)
  <2>1. Proceed(e, x, st, FALSE)
    BY <1>5 DEF StepFails, StatusOf
  <2>2. /\ x \in ExecRecord /\ x.plan = execs[e].plan /\ x.step = execs[e].step
        /\ x.completed = execs[e].completed
        /\ x.failed = execs[e].failed \cup {execs[e].step}
    BY <1>1 DEF ExecRecord
  <2>3. /\ st \in [StepsOf(e) -> Statuses] /\ st[execs[e].step] = "failed"
        /\ \A i \in StepsOf(e) : i # execs[e].step => st[i] = StatusOf(e)[i]
    BY <1>1 DEF Statuses
  <2> HIDE DEF x, st
  <2>4. /\ x.completed \cup x.failed \subseteq StepsOf(e) /\ x.failed # {}
        /\ \A i \in x.completed : i <= x.step
        /\ ~overlapped => \A i \in x.completed : st[i] = "success"
    BY <1>1, <1>2, <1>3, <2>2, <2>3
  <2>5. \A i \in StepsOf(e) : st[i] = "running" =>
           StatusOf(e)[i] = "running" /\ ~(execs[e].phase = "executing" /\ execs[e].step = i)
    BY <2>3
  <2> QED
    BY <1>2, <2>1, <2>2, <2>3, <2>4, <2>5, ProceedKeeps
<1> QED
  BY <1>4, <1>5

\* Only the plan of a single action is validated: an execution that was has
\* nothing to learn.
LEMMA ValidationKeeps ==
    ASSUME IInv, NEW e \in DOMAIN execs, NEW ok \in BOOLEAN, StepValidated(e, ok)
    PROVE  IInv'
<1> DEFINE stopped == ~ok /\ execs[e].step \in request.critical
           st == IF stopped
                 THEN [StatusOf(e) EXCEPT ![execs[e].step] = "validation_failed"]
                 ELSE StatusOf(e)
<1>1. /\ execs[e] \in ExecRecord /\ execs[e].step \in StepsOf(e) /\ execs[e].step \in Nat
      /\ execs[e].plan \in DOMAIN plans /\ plans[execs[e].plan] \in PlanRecord
      /\ IsExec(execs[e], StepsOf(e)) /\ StatusOf(e) \in [StepsOf(e) -> Statuses]
      /\ ~overlapped /\ AtWork(e) =>
           \A i \in execs[e].completed : StatusOf(e)[i] = "success"
  BY AtWorkFacts
<1>2. execs[e].phase = "validating" /\ AtWork(e) /\ request' = request /\ overlapped' = overlapped
  BY DEF StepValidated, AtWork
<1>3. /\ execs[e].completed \cup execs[e].failed \subseteq StepsOf(e)
      /\ \A i \in execs[e].completed : i <= execs[e].step
      /\ execs[e].step \in request.checked
  BY <1>1, <1>2 DEF IsExec
<1>4. ~(Cardinality(execs[e].completed) >= 2)
  <2>1. request.n \in Nat \ {0} /\ ~(request.n > 1)
    BY <1>3, RequestAssumption DEF IInv, WorkInv
  <2>2. execs[e].completed \subseteq {1}
    BY <1>1, <1>3, <2>1 DEF StepsOf, PlanRecord, All
  <2>3. execs[e].completed = {} \/ execs[e].completed = {1}
    BY <2>2
  <2>4. Cardinality({}) = 0 /\ Cardinality({1}) = 1
    BY FS_EmptySet, FS_Singleton
  <2> QED
    BY <2>3, <2>4
<1>5. Proceed(e, execs[e], st, stopped)
  BY DEF StepValidated, StatusOf
<1>6. /\ st \in [StepsOf(e) -> Statuses]
      /\ stopped \/ st = StatusOf(e)
      /\ \A i \in StepsOf(e) : st[i] = StatusOf(e)[i] \/ st[i] = "validation_failed"
  BY <1>1 DEF Statuses
<1>7. PICK b \in BOOLEAN : b = stopped
  <2>1. stopped \in BOOLEAN
    OBVIOUS
  <2> QED
    BY <2>1
<1> HIDE DEF st, stopped
<1>8. Proceed(e, execs[e], st, b) /\ (~b => st = StatusOf(e))
  BY <1>5, <1>6, <1>7
<1>9. \A i \in StepsOf(e) : st[i] = "running" =>
         StatusOf(e)[i] = "running" /\ ~(execs[e].phase = "executing" /\ execs[e].step = i)
  BY <1>2, <1>6
<1>10. ~overlapped /\ ~b => \A i \in execs[e].completed : st[i] = "success"
  BY <1>1, <1>2, <1>8
<1> QED
  BY <1>1, <1>2, <1>3, <1>4, <1>6, <1>8, <1>9, <1>10, ProceedKeeps

LEMMA TimeoutKeeps ==
    ASSUME IInv, NEW e \in DOMAIN execs, TimesOut(e)
    PROVE  IInv'
<1> DEFINE y == [execs[e] EXCEPT !.timedOut = TRUE]
<1>1. /\ execs[e] \in ExecRecord /\ execs[e].plan \in DOMAIN plans
      /\ plans[execs[e].plan] \in PlanRecord
      /\ IsExec(execs[e], StepsOf(e)) /\ StatusOf(e) \in [StepsOf(e) -> Statuses]
      /\ ~overlapped /\ AtWork(e) =>
           \A i \in execs[e].completed : StatusOf(e)[i] = "success"
  BY AtWorkFacts
<1>2. /\ AtWork(e) /\ execs' = [execs EXCEPT ![e] = y]
      /\ UNCHANGED <<request, library, plans, overlapped, won>>
  BY DEF TimesOut
<1>3. /\ y \in ExecRecord /\ y.plan = execs[e].plan /\ y.phase = execs[e].phase
      /\ y.step = execs[e].step
      /\ y.completed = execs[e].completed /\ y.failed = execs[e].failed
  BY <1>1 DEF ExecRecord
<1> HIDE DEF y
<1>4. Moves(e, y, StatusOf(e))
  <2>1. plans[execs[e].plan] =
          [plans[execs[e].plan] EXCEPT !.status = plans[execs[e].plan].status]
    BY <1>1 DEF PlanRecord
  <2>2. plans \in Seq(PlanRecord)
    BY DEF IInv, WorkInv
  <2>3. plans' = [plans EXCEPT ![execs[e].plan].status = StatusOf(e)]
    BY <1>1, <1>2, <2>1, <2>2 DEF StatusOf
  <2> QED
    BY <1>2, <2>3 DEF Moves
<1>5. IsExec(y, StepsOf(e))
  BY <1>1, <1>3 DEF IsExec
<1>6. library' = library /\ Len(library) \in Nat
  BY <1>2 DEF IInv, LibraryInv
<1>7. \A i \in StepsOf(e) : StatusOf(e)[i] = "running" =>
         \/ y.phase = "executing" /\ y.step = i
         \/ /\ StatusOf(e)[i] = "running"
            /\ ~(execs[e].phase = "executing" /\ execs[e].step = i)
  BY <1>3
<1>8. /\ WorkInv' /\ RunningIsExecuted'
      /\ ~overlapped => PlansWhole' /\ OneWorker' /\ CompletedShown'
  BY <1>1, <1>2, <1>3, <1>4, <1>5, <1>6, <1>7, MovesKeep DEF IInv
<1>9. LibraryInv' /\ RateInv' /\ (~overlapped => LibraryWhole')
  BY <1>2 DEF IInv, LibraryInv, RateInv, WholeInv, LibraryWhole, Composites, All
<1> QED
  BY <1>2, <1>8, <1>9 DEF IInv, WholeInv

\* The administration of composites keeps their steps and their scores.
LEMMA AdministrationKeeps ==
    ASSUME IInv, Administer
    PROVE  IInv'
<1> USE DEF IInv
<1>0. /\ library \in Seq(Composites) /\ DOMAIN library = 1..Len(library)
      /\ Len(library) \in Nat /\ \A c \in DOMAIN library : library[c] \in Composites
  BY ElementOfSeq DEF LibraryInv
<1>1. UNCHANGED <<request, plans, execs, overlapped, won>> /\ Composites' = Composites
      /\ All' = All
  BY DEF Administer, Invalidate, Revalidate, Delete, Composites, All
<1> DEFINE Kept(d, c) == /\ d \in Composites /\ d.steps = c.steps
                         /\ d.runs = c.runs /\ d.rate = c.rate
<1>2. /\ library' \in Seq(Composites) /\ Len(library') = Len(library)
      /\ \A c \in DOMAIN library : Kept(library'[c], library[c])
  <2>1. ASSUME NEW c \in DOMAIN library, Invalidate(c)
        PROVE  <1>2!:
    <3> DEFINE d == [library[c] EXCEPT !.invalidated = TRUE]
    <3>1. Kept(d, library[c]) /\ \A i \in DOMAIN library : Kept(library[i], library[i])
      BY <1>0 DEF Composites
    <3>2. library' = [library EXCEPT ![c] = d]
      BY <2>1 DEF Invalidate
    <3> HIDE DEF d
    <3> QED
      BY <1>0, <2>1, <3>1, <3>2, ExceptSeq
  <2>2. ASSUME NEW c \in DOMAIN library, Revalidate(c)
        PROVE  <1>2!:
    <3> DEFINE d == [library[c] EXCEPT !.invalidated = FALSE, !.failures = 0]
    <3>1. Kept(d, library[c]) /\ \A i \in DOMAIN library : Kept(library[i], library[i])
      BY <1>0 DEF Composites
    <3>2. library' = [library EXCEPT ![c] = d]
      BY <1>0, <2>2 DEF Revalidate, Composites
    <3> HIDE DEF d
    <3> QED
      BY <1>0, <2>2, <3>1, <3>2, ExceptSeq
  <2>3. ASSUME NEW S, Delete(S)
        PROVE  <1>2!:
    <3>1. library' = [c \in 1..Len(library) |->
             IF c \in S THEN [library[c] EXCEPT !.present = FALSE] ELSE library[c]]
      BY <1>0, <2>3 DEF Delete
    <3>2. \A c \in 1..Len(library) : Kept(library'[c], library[c])
      BY <1>0, <3>1 DEF Composites
    <3>3. library' \in [1..Len(library) -> Composites]
      BY <3>1, <3>2
    <3> QED
      BY <1>0, <3>2, <3>3, LenProperties, IsASeq
  <2> QED
    BY <2>1, <2>2, <2>3 DEF Administer
<1>3. DOMAIN library' = DOMAIN library
  BY <1>0, <1>2
<1>4. LibraryInv'
  BY <1>1, <1>2, <1>3 DEF LibraryInv
<1>5. RateInv'
  BY <1>1, <1>2, <1>3 DEF RateInv, FairRate
<1>6. WholeInv'
  <2>1. LibraryWhole => LibraryWhole'
    BY <1>1, <1>2, <1>3 DEF LibraryWhole
  <2> QED
    BY <1>1, <2>1 DEF WholeInv, PlansWhole, OneWorker, CompletedShown, AtWork
<1>7. WorkInv' /\ RunningIsExecuted'
  BY <1>1, <1>2 DEF WorkInv, IsPlan, IsExec, PlanRecord, All, RunningIsExecuted, Of
<1> QED
  BY <1>4, <1>5, <1>6, <1>7

LEMMA NextKeeps == IInv /\ [Next]_vars => IInv'
<1> SUFFICES ASSUME IInv, [Next]_vars PROVE IInv'
  OBVIOUS
<1>1. ASSUME NEW o \in Options, Submit(o) PROVE IInv'
  BY <1>1, SubmitKeeps
<1>2. ASSUME NEW p \in DOMAIN plans, Begin(p) PROVE IInv'
  BY <1>2, AttemptKeeps
<1>3. ASSUME NEW e \in DOMAIN execs, Execute(e) PROVE IInv'
  BY <1>3, SuccessKeeps, FailureKeeps, ValidationKeeps DEF Execute
<1>4. ASSUME NEW e \in DOMAIN execs, TimesOut(e) PROVE IInv'
  BY <1>4, TimeoutKeeps
<1>5. CASE Administer
  BY <1>5, AdministrationKeeps
<1>6. CASE UNCHANGED vars
  <2> USE DEF IInv
  <2>1. UNCHANGED <<request, library, plans, execs, overlapped, won>>
    BY <1>6 DEF vars
  <2>2. LibraryInv' /\ RateInv'
    BY <2>1 DEF LibraryInv, RateInv, Composites, All
  <2>3. RunningIsExecuted'
    BY <2>1 DEF RunningIsExecuted, Of
  <2>4. WorkInv'
    BY <2>1 DEF WorkInv, IsPlan, IsExec, PlanRecord, All
  <2>5. WholeInv'
    BY <2>1 DEF WholeInv, LibraryWhole, PlansWhole, OneWorker, CompletedShown, AtWork, All
  <2> QED
    BY <2>2, <2>3, <2>4, <2>5
<1> QED
  BY <1>1, <1>2, <1>3, <1>4, <1>5, <1>6 DEF Next

\* The invariant holds of every request, with any number of plans and attempts.
THEOREM Invariance == Spec => []IInv
BY Initially, NextKeeps, PTL DEF Spec

\* Every variable keeps its type, whatever the request and the attempts.
THEOREM TypeCorrect == Spec => []TypeOK
<1>1. IInv => TypeOK
  <2> SUFFICES ASSUME IInv PROVE TypeOK
    OBVIOUS
  <2> USE DEF IInv
  <2>1. /\ request \in Requests /\ overlapped \in BOOLEAN
        /\ library \in Seq(Composites) /\ won \in Seq(Nat) /\ Len(won) = Len(library)
        /\ Len(library) \in Nat
    BY DEF WorkInv, LibraryInv
  <2>2. ASSUME NEW p \in DOMAIN plans
        PROVE  /\ plans[p].composite \in 0..Len(library)
               /\ plans[p].steps \in (SUBSET All) \ {{}}
               /\ plans[p].options \in Options
               /\ plans[p].status \in [plans[p].steps -> Statuses]
    <3>1. IsPlan(plans[p]) /\ plans[p].composite <= Len(library)
      BY DEF WorkInv
    <3>2. /\ plans[p].composite \in Nat /\ plans[p].options \in Options
          /\ plans[p].steps \in SUBSET All
      BY <3>1 DEF IsPlan, PlanRecord
    <3>3. plans[p].composite \in 0..Len(library)
      BY <2>1, <3>1, <3>2
    <3>4. plans[p].steps # {} /\ plans[p].status \in [plans[p].steps -> Statuses]
      BY <3>1 DEF IsPlan
    <3> QED
      BY <3>2, <3>3, <3>4
  <2>3. ASSUME NEW e \in DOMAIN execs
        PROVE  /\ execs[e].plan \in DOMAIN plans /\ execs[e].tries \in Nat \ {0}
               /\ execs[e].phase \in {"executing", "validating", "ended"}
               /\ execs[e].step \in plans[execs[e].plan].steps
               /\ execs[e].completed \cup execs[e].failed \subseteq plans[execs[e].plan].steps
               /\ execs[e].verdict \in Verdicts \cup {"none"}
    BY DEF WorkInv, IsExec, ExecRecord
  <2> QED
    BY <2>1, <2>2, <2>3 DEF TypeOK, Composites, All
<1> QED
  BY <1>1, Invariance, PTL

\* As long as no attempt overlapped an earlier one on its plan, a request is
\* never planned, nor learned, with less than all of its steps.
THEOREM WholePlans == Spec => []PlansAreWhole
<1>1. IInv => PlansAreWhole
  BY DEF IInv, WholeInv, PlansAreWhole, LibraryWhole, PlansWhole, All
<1> QED
  BY <1>1, Invariance, PTL

\* However attempts overlap, a step shown as running is being carried out.
THEOREM RunningExecuted == Spec => []RunningIsExecuted
<1>1. IInv => RunningIsExecuted
  BY DEF IInv
<1> QED
  BY <1>1, Invariance, PTL

\* Rounding, relearning and revalidation never raise a success rate above the
\* share of the executions that succeeded.
THEOREM RateFair == Spec => []RateNeverFlatters
<1>1. IInv => RateNeverFlatters
  BY DEF IInv, RateInv, FairRate, RateNeverFlatters
<1> QED
  BY <1>1, Invariance, PTL

=============================================================================

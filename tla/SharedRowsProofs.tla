-------------------------- MODULE SharedRowsProofs --------------------------
(***************************************************************************)
(* Facts about the rows that the handlers share, for the proofs about      *)
(* them: the rows of the jobs (LeasedJob) and of the budgets               *)
(* (BudgetLedger).                                                         *)
(*                                                                         *)
(* The ledger is a sum over its reservations, and many of them change in   *)
(* one step. Both are folds over a finite set. Their induction is that of  *)
(* SubsetInduction: a set of sets stands for the predicate, so that no     *)
(* operator is passed. A fold of BudgetLedger chooses its own function,    *)
(* which is compared with one that is known to exist.                      *)
(***************************************************************************)
EXTENDS LeasedJob, BudgetLedger, FiniteSetTheorems, TLAPS

-----------------------------------------------------------------------------
(* Jobs.                                                                   *)

Statuses == {"queued", "running"} \cup Finished
JobRows == [status : Statuses, epoch : Nat, held : BOOLEAN, asked : BOOLEAN]
JobsTyped == job \in [Jobs -> JobRows]

LEMMA JobRowRecords ==
  /\ \A x \in JobRows : x.epoch \in Nat
  /\ \A x \in JobRows, s \in Statuses : [x EXCEPT !.status = s] \in JobRows
  /\ \A x \in JobRows, b \in BOOLEAN : [x EXCEPT !.held = b] \in JobRows
  /\ \A x \in JobRows, s \in Statuses, e \in Nat :
       [x EXCEPT !.status = s, !.epoch = e, !.held = TRUE] \in JobRows
  /\ \A x \in JobRows, s \in Statuses :
       /\ [x EXCEPT !.held = FALSE, !.status = s] \in JobRows
       /\ [x EXCEPT !.asked = TRUE, !.status = s] \in JobRows
  BY DEF JobRows

LEMMA JobInitTyped == JobInit => JobsTyped
  BY DEF JobInit, JobsTyped, JobRows, Statuses

LEMMA JobsTypedIsTypeOK == JobsTyped <=> JobTypeOK
  BY DEF JobsTyped, JobTypeOK, JobRows, Statuses

LEMMA JobStepsTyped ==
  ASSUME JobsTyped, NEW j \in Jobs,
         Acquire(j) \/ LeaseEnds(j) \/ AskCancel(j) \/ RetryByHand(j)
  PROVE  JobsTyped'
<1> USE DEF JobsTyped
<1>0. job[j] \in JobRows
  OBVIOUS
<1>1. job[j] \in JobRows /\ job[j].epoch + 1 \in Nat
  BY <1>0 DEF JobRows
<1>2. {"cancelled", "queued", "running", job[j].status} \subseteq Statuses
  BY <1>1 DEF JobRows, Finished, Statuses
<1>3. CASE Acquire(j)
  BY <1>1, <1>2, <1>3, JobRowRecords DEF Acquire
<1>4. CASE LeaseEnds(j)
  BY <1>1, <1>4, JobRowRecords DEF LeaseEnds
<1>5. CASE AskCancel(j)
  <2>1. (IF job[j].held THEN job[j].status ELSE "cancelled") \in Statuses
    BY <1>2
  <2> QED
    BY <1>1, <1>5, <2>1, JobRowRecords DEF AskCancel
<1>6. CASE RetryByHand(j)
  BY <1>1, <1>2, <1>6, JobRowRecords DEF RetryByHand
<1> QED
  BY <1>3, <1>4, <1>5, <1>6

LEMMA ReleasedTyped ==
  ASSUME JobsTyped, NEW j \in Jobs, NEW outcome \in Statuses
  PROVE  Released(j, outcome) \in [Jobs -> JobRows]
<1>1. job[j] \in JobRows
  BY DEF JobsTyped
<1>2. "cancelled" \in Statuses
  BY DEF Statuses, Finished
<1> QED
  BY <1>1, <1>2, JobRowRecords DEF Released, JobsTyped

(* What each step does to the status and the epoch of the jobs.            *)
LEMMA JobStepsMove ==
  ASSUME JobsTyped, NEW j \in Jobs
  PROVE  /\ Acquire(j) => \A i \in Jobs :
              /\ job'[i].epoch = IF i = j THEN job[i].epoch + 1 ELSE job[i].epoch
              /\ job'[i].status = IF i = j THEN "running" ELSE job[i].status
         /\ LeaseEnds(j) \/ AskCancel(j) \/ RetryByHand(j) => \A i \in Jobs :
              /\ job'[i].epoch = job[i].epoch
              /\ job'[i].status \in {job[i].status, "cancelled", "queued"}
         /\ \A outcome : job' = Released(j, outcome) => \A i \in Jobs :
              /\ job'[i].epoch = job[i].epoch
              /\ job'[i].status \in IF i = j THEN {"cancelled", outcome} ELSE {job[i].status}
<1> USE DEF JobsTyped, JobRows
<1>1. Acquire(j) => \A i \in Jobs :
        /\ job'[i].epoch = IF i = j THEN job[i].epoch + 1 ELSE job[i].epoch
        /\ job'[i].status = IF i = j THEN "running" ELSE job[i].status
  BY DEF Acquire
<1>2. LeaseEnds(j) => \A i \in Jobs :
        job'[i].epoch = job[i].epoch /\ job'[i].status = job[i].status
  BY DEF LeaseEnds
<1>3. AskCancel(j) => \A i \in Jobs :
        job'[i].epoch = job[i].epoch /\ job'[i].status \in {job[i].status, "cancelled"}
  BY DEF AskCancel
<1>4. RetryByHand(j) => \A i \in Jobs :
        job'[i].epoch = job[i].epoch /\ job'[i].status \in {job[i].status, "queued"}
  BY DEF RetryByHand
<1>5. ASSUME NEW outcome, job' = Released(j, outcome), NEW i \in Jobs
      PROVE  /\ job'[i].epoch = job[i].epoch
             /\ job'[i].status \in IF i = j THEN {"cancelled", outcome} ELSE {job[i].status}
  BY <1>5 DEF Released
<1> QED
  BY <1>1, <1>2, <1>3, <1>4, <1>5

-----------------------------------------------------------------------------
(* Induction over the subsets of a finite set.                             *)

LEMMA SubsetInduction ==
  ASSUME NEW S, IsFiniteSet(S), NEW Q,
         \A T \in SUBSET S : (\A U \in SUBSET T : U # T => U \in Q) => T \in Q
  PROVE  \A T \in SUBSET S : T \in Q
<1> DEFINE bad == {T \in SUBSET S : T \notin Q}
<1> SUFFICES ASSUME bad # {} PROVE FALSE
  OBVIOUS
<1>1. IsWellFoundedOn(StrictSubsetOrdering(S), SUBSET S)
  <2>1. FiniteSubsetsOf(S) = SUBSET S
    BY FS_FiniteSubsetsOfFinite
  <2>2. IsWellFoundedOn(StrictSubsetOrdering(S), FiniteSubsetsOf(S))
    BY FS_StrictSubsetOrderingWellFounded
  <2> QED
    BY <2>1, <2>2
<1>2. PICK T \in bad : \A U \in bad : <<U, T>> \notin StrictSubsetOrdering(S)
  <2>1. bad \subseteq SUBSET S
    OBVIOUS
  <2> HIDE DEF bad
  <2> QED
    BY <1>1, <2>1, WFMin
<1>3. \A U \in SUBSET T : U # T => U \in Q
  BY <1>2 DEF StrictSubsetOrdering
<1> QED
  BY <1>2, <1>3

(* The element a fold takes first.                                         *)
First(s) == CHOOSE x \in s : TRUE

(* What a fold of F over the subsets of S computes.                        *)
Folds(g, S, L, base, F) ==
  /\ g \in [SUBSET S -> L]
  /\ \A s \in SUBSET S : g[s] = IF s = {} THEN base ELSE F[<<First(s), g[s \ {First(s)}]>>]

LEMMA FoldExists ==
  ASSUME NEW S, IsFiniteSet(S), NEW L, NEW base \in L, NEW F \in [S \X L -> L]
  PROVE  \E g : Folds(g, S, L, base, F)
<1> DEFINE Up(n) == {s \in SUBSET S : Cardinality(s) <= n}
           Step(g, s) == IF s = {} THEN base ELSE F[<<First(s), g[s \ {First(s)}]>>]
           Fine(n) == \E g \in [Up(n) -> L] : \A s \in Up(n) : g[s] = Step(g, s)
<1>0. \A s \in SUBSET S : /\ IsFiniteSet(s) /\ Cardinality(s) \in Nat
                          /\ Cardinality(s) <= Cardinality(S) /\ Cardinality(S) \in Nat
                          /\ s # {} => First(s) \in s
  BY FS_Subset, FS_CardinalityType DEF First
<1>1. Fine(0)
  <2> DEFINE g == [s \in Up(0) |-> base]
  <2>1. \A s \in Up(0) : s = {}
    BY <1>0, FS_EmptySet
  <2>2. g \in [Up(0) -> L] /\ \A s \in Up(0) : g[s] = Step(g, s)
    BY <2>1
  <2> HIDE DEF g
  <2> QED
    BY <2>2
<1>2. ASSUME NEW n \in Nat, Fine(n) PROVE Fine(n + 1)
  <2>1. PICK g \in [Up(n) -> L] : \A s \in Up(n) : g[s] = Step(g, s)
    BY <1>2
  <2>2. \A s \in Up(n + 1) : s # {} => s \ {First(s)} \in Up(n)
    BY <1>0, FS_RemoveElement
  <2>3. \A s \in Up(n + 1) : s # {} => <<First(s), g[s \ {First(s)}]>> \in S \X L
    BY <1>0, <2>2
  <2> DEFINE h == [s \in Up(n + 1) |-> Step(g, s)]
  <2>4. h \in [Up(n + 1) -> L]
    BY <2>3
  <2>5. \A s \in Up(n) : s \in Up(n + 1) /\ h[s] = g[s]
    BY <1>0, <2>1
  <2>6. \A s \in Up(n + 1) : h[s] = Step(h, s)
    BY <2>2, <2>5
  <2> HIDE DEF h, Up, Step
  <2> QED
    BY <2>4, <2>6
<1> HIDE DEF Fine
<1>3. \A T \in SUBSET S : T \in {t \in SUBSET S : Fine(Cardinality(t))}
  <2> DEFINE Q == {t \in SUBSET S : Fine(Cardinality(t))}
  <2>1. ASSUME NEW T \in SUBSET S, \A U \in SUBSET T : U # T => U \in Q
        PROVE  T \in Q
    <3>1. CASE T = {}
      BY <1>1, <3>1, FS_EmptySet
    <3>2. ASSUME NEW x \in T PROVE T \in Q
      <4>1. Fine(Cardinality(T \ {x}))
        BY <2>1
      <4>2. Cardinality(T \ {x}) \in Nat /\ Cardinality(T) = Cardinality(T \ {x}) + 1
        BY <1>0, FS_RemoveElement
      <4> QED
        BY <1>2, <4>1, <4>2
    <3> QED
      BY <3>1, <3>2
  <2> HIDE DEF Q
  <2>2. \A T \in SUBSET S : T \in Q
    BY <2>1, SubsetInduction
  <2> QED
    BY <2>2 DEF Q
<1>4. SUBSET S = Up(Cardinality(S))
  BY <1>0
<1>5. Fine(Cardinality(S))
  BY <1>3
<1> QED
  BY <1>4, <1>5 DEF Fine, Folds

-----------------------------------------------------------------------------
(* Sums.                                                                   *)

(* What the recursive function inside SumFunctionOnSet computes.           *)
Adds(g, f, S) ==
  \A s \in SUBSET S : g[s] = IF s = {} THEN 0 ELSE f[First(s)] + g[s \ {First(s)}]

LEMMA FirstOf == \A s : s # {} => First(s) \in s
  BY DEF First

LEMMA AddsOnce ==
  ASSUME NEW S, IsFiniteSet(S), NEW f, NEW g, NEW h, Adds(g, f, S), Adds(h, f, S)
  PROVE  \A T \in SUBSET S : g[T] = h[T]
<1> DEFINE Q == {T \in SUBSET S : g[T] = h[T]}
<1>1. ASSUME NEW T \in SUBSET S, \A U \in SUBSET T : U # T => U \in Q
      PROVE  T \in Q
  <2>1. CASE T = {}
    BY <2>1 DEF Adds
  <2>2. CASE T # {}
    <3>1. T \ {First(T)} \in SUBSET T /\ T \ {First(T)} # T
      BY <2>2, FirstOf
    <3>2. g[T \ {First(T)}] = h[T \ {First(T)}]
      BY <1>1, <3>1
    <3> QED
      BY <2>2, <3>2 DEF Adds
  <2> QED
    BY <2>1, <2>2
<1> HIDE DEF Q
<1>2. \A T \in SUBSET S : T \in Q
  BY <1>1, SubsetInduction
<1> QED
  BY <1>2 DEF Q

LEMMA SumIsFold ==
  ASSUME NEW S, IsFiniteSet(S), NEW f, \A x \in S : f[x] \in Int
  PROVE  \E g \in [SUBSET S -> Int] : SumFunctionOnSet(f, S) = g[S] /\ Adds(g, f, S)
<1> DEFINE F == [p \in S \X Int |-> f[p[1]] + p[2]]
           Step(g, s) == IF s = {} THEN 0
                         ELSE f[CHOOSE x \in s : TRUE] + g[s \ {CHOOSE x \in s : TRUE}]
           iter == CHOOSE g : g = [s \in SUBSET S |-> Step(g, s)]
<1>1. F \in [S \X Int -> Int] /\ 0 \in Int
  OBVIOUS
<1>2. PICK g \in [SUBSET S -> Int] : \A s \in SUBSET S :
        g[s] = IF s = {} THEN 0 ELSE F[<<First(s), g[s \ {First(s)}]>>]
  <2> HIDE DEF F
  <2>1. \E g : Folds(g, S, Int, 0, F)
    BY <1>1, FoldExists
  <2> QED
    BY <2>1 DEF Folds
<1>3. \A s \in SUBSET S : g[s] = Step(g, s)
  <2>1. \A s \in SUBSET S : s # {} => First(s) \in S
    BY FirstOf
  <2>2. \A s \in SUBSET S : s # {} => <<First(s), g[s \ {First(s)}]>> \in S \X Int
    BY <2>1
  <2> QED
    BY <1>2, <2>2 DEF First
<1>4. iter = [s \in SUBSET S |-> Step(iter, s)]
  <2>1. g = [s \in SUBSET S |-> Step(g, s)]
    BY <1>3
  <2> HIDE DEF Step
  <2> QED
    BY <2>1
<1>5. SumFunctionOnSet(f, S) = iter[S]
  BY DEF SumFunctionOnSet, FoldFunctionOnSet, MapThenFoldSet
<1>6. Adds(g, f, S) /\ Adds(iter, f, S)
  <2> HIDE DEF iter
  <2>1. \A s \in SUBSET S : iter[s] = Step(iter, s)
    BY <1>4
  <2> QED
    BY <1>3, <2>1 DEF Adds, First
<1> HIDE DEF iter
<1>7. iter[S] = g[S]
  BY <1>6, AddsOnce
<1> QED
  BY <1>5, <1>6, <1>7

LEMMA SumUnfolds ==
  ASSUME NEW S, IsFiniteSet(S), NEW f, \A x \in S : f[x] \in Int
  PROVE  /\ SumFunctionOnSet(f, S) \in Int
         /\ S = {} => SumFunctionOnSet(f, S) = 0
         /\ S # {} => SumFunctionOnSet(f, S) =
                        f[First(S)] + SumFunctionOnSet(f, S \ {First(S)})
<1>1. PICK g \in [SUBSET S -> Int] : SumFunctionOnSet(f, S) = g[S] /\ Adds(g, f, S)
  BY SumIsFold
<1>2. ASSUME S # {} PROVE SumFunctionOnSet(f, S \ {First(S)}) = g[S \ {First(S)}]
  <2> DEFINE T == S \ {First(S)}
  <2>1. IsFiniteSet(T) /\ \A x \in T : f[x] \in Int
    BY FS_Subset
  <2> HIDE DEF T
  <2>2. PICK h \in [SUBSET T -> Int] : SumFunctionOnSet(f, T) = h[T] /\ Adds(h, f, T)
    BY <2>1, SumIsFold
  <2>3. T \in SUBSET S
    BY DEF T
  <2>4. Adds(g, f, T)
    BY <1>1, <2>3 DEF Adds
  <2>5. g[T] = h[T]
    BY <2>1, <2>2, <2>4, AddsOnce
  <2> QED
    BY <2>2, <2>5 DEF T
<1> QED
  BY <1>1, <1>2 DEF Adds

(* Any element may be taken first.                                         *)
LEMMA SumRemove ==
  ASSUME NEW S, IsFiniteSet(S), NEW f, \A x \in S : f[x] \in Int
  PROVE  \A x \in S : SumFunctionOnSet(f, S) = f[x] + SumFunctionOnSet(f, S \ {x})
<1> DEFINE Q == {T \in SUBSET S : \A x \in T :
                   SumFunctionOnSet(f, T) = f[x] + SumFunctionOnSet(f, T \ {x})}
<1>1. \A T \in SUBSET S : IsFiniteSet(T) /\ \A x \in T : f[x] \in Int
  BY FS_Subset
<1>2. \A T \in SUBSET S :
        /\ SumFunctionOnSet(f, T) \in Int
        /\ T # {} => SumFunctionOnSet(f, T) =
                       f[First(T)] + SumFunctionOnSet(f, T \ {First(T)})
  BY <1>1, SumUnfolds
<1>3. ASSUME NEW T \in SUBSET S, \A U \in SUBSET T : U # T => U \in Q
      PROVE  T \in Q
  <2> SUFFICES ASSUME NEW x \in T
               PROVE  SumFunctionOnSet(f, T) = f[x] + SumFunctionOnSet(f, T \ {x})
    OBVIOUS
  <2> DEFINE c == First(T)
  <2>1. c \in T /\ SumFunctionOnSet(f, T) = f[c] + SumFunctionOnSet(f, T \ {c})
    BY <1>2, FirstOf
  <2> HIDE DEF c
  <2>2. CASE x = c
    BY <2>1, <2>2
  <2>3. CASE x # c
    <3>1. T \ {c} \in Q /\ T \ {x} \in Q
      BY <1>3, <2>1
    <3>2. SumFunctionOnSet(f, T \ {c}) = f[x] + SumFunctionOnSet(f, (T \ {c}) \ {x})
      BY <2>3, <3>1
    <3>3. SumFunctionOnSet(f, T \ {x}) = f[c] + SumFunctionOnSet(f, (T \ {x}) \ {c})
      BY <2>1, <2>3, <3>1
    <3>4. (T \ {c}) \ {x} = (T \ {x}) \ {c} /\ (T \ {c}) \ {x} \in SUBSET S
      OBVIOUS
    <3>5. /\ f[x] \in Int /\ f[c] \in Int
          /\ SumFunctionOnSet(f, (T \ {c}) \ {x}) \in Int
      BY <1>1, <1>2, <2>1, <3>4
    <3>6. SumFunctionOnSet(f, T \ {x}) = f[c] + SumFunctionOnSet(f, (T \ {c}) \ {x})
      BY <3>3, <3>4
    <3> DEFINE rest == SumFunctionOnSet(f, (T \ {c}) \ {x})
    <3>7. /\ SumFunctionOnSet(f, T \ {x}) = f[c] + rest
          /\ SumFunctionOnSet(f, T) = f[c] + (f[x] + rest)
          /\ f[x] \in Int /\ f[c] \in Int /\ rest \in Int
      BY <2>1, <3>2, <3>5, <3>6
    <3> HIDE DEF rest
    <3> QED
      BY <3>7
  <2> QED
    BY <2>2, <2>3
<1> HIDE DEF Q
<1>4. \A T \in SUBSET S : T \in Q
  BY <1>3, SubsetInduction
<1> QED
  BY <1>4 DEF Q

LEMMA SumAdd ==
  ASSUME NEW S, IsFiniteSet(S), NEW x, x \notin S,
         NEW f, \A y \in S \cup {x} : f[y] \in Int
  PROVE  SumFunctionOnSet(f, S \cup {x}) = f[x] + SumFunctionOnSet(f, S)
<1>1. IsFiniteSet(S \cup {x}) /\ (S \cup {x}) \ {x} = S
  BY FS_AddElement
<1> QED
  BY <1>1, SumRemove

(* A sum depends only on what is summed.                                   *)
LEMMA SumSame ==
  ASSUME NEW S, IsFiniteSet(S), NEW f, NEW h, \A x \in S : f[x] \in Int /\ f[x] = h[x]
  PROVE  SumFunctionOnSet(f, S) = SumFunctionOnSet(h, S)
<1>1. PICK g \in [SUBSET S -> Int] : SumFunctionOnSet(f, S) = g[S] /\ Adds(g, f, S)
  BY SumIsFold
<1>2. PICK k \in [SUBSET S -> Int] : SumFunctionOnSet(h, S) = k[S] /\ Adds(k, h, S)
  BY SumIsFold
<1>3. Adds(k, f, S)
  BY <1>2, FirstOf DEF Adds
<1> QED
  BY <1>1, <1>2, <1>3, AddsOnce

LEMMA SumAtMost ==
  ASSUME NEW S, IsFiniteSet(S), NEW f, NEW h,
         \A x \in S : f[x] \in Int /\ h[x] \in Int /\ f[x] <= h[x]
  PROVE  SumFunctionOnSet(f, S) <= SumFunctionOnSet(h, S)
<1> DEFINE Q == {T \in SUBSET S : SumFunctionOnSet(f, T) <= SumFunctionOnSet(h, T)}
<1>1. \A T \in SUBSET S : IsFiniteSet(T) /\ \A x \in T : f[x] \in Int /\ h[x] \in Int
  BY FS_Subset
<1>2. \A T \in SUBSET S :
        /\ SumFunctionOnSet(f, T) \in Int /\ SumFunctionOnSet(h, T) \in Int
        /\ T = {} => SumFunctionOnSet(f, T) = 0 /\ SumFunctionOnSet(h, T) = 0
        /\ T # {} => /\ SumFunctionOnSet(f, T) =
                          f[First(T)] + SumFunctionOnSet(f, T \ {First(T)})
                     /\ SumFunctionOnSet(h, T) =
                          h[First(T)] + SumFunctionOnSet(h, T \ {First(T)})
  BY <1>1, SumUnfolds
<1>3. ASSUME NEW T \in SUBSET S, \A U \in SUBSET T : U # T => U \in Q
      PROVE  T \in Q
  <2>1. CASE T = {}
    <3>1. SumFunctionOnSet(f, T) = 0 /\ SumFunctionOnSet(h, T) = 0
      BY <1>2, <2>1
    <3>2. SumFunctionOnSet(f, T) <= SumFunctionOnSet(h, T)
      BY <3>1
    <3> QED
      BY <3>2
  <2>2. CASE T # {}
    <3> DEFINE c == First(T)
    <3>1. c \in T /\ T \ {c} \in SUBSET S
      BY <2>2, FirstOf
    <3>2. T \ {c} \in Q
      BY <1>3, <3>1
    <3> DEFINE a == SumFunctionOnSet(f, T \ {c})
               b == SumFunctionOnSet(h, T \ {c})
    <3>3. /\ SumFunctionOnSet(f, T) = f[c] + a /\ SumFunctionOnSet(h, T) = h[c] + b
          /\ a \in Int /\ b \in Int /\ a <= b
          /\ f[c] \in Int /\ h[c] \in Int /\ f[c] <= h[c]
      BY <1>2, <2>2, <3>1, <3>2
    <3> HIDE DEF a, b, c
    <3>4. SumFunctionOnSet(f, T) <= SumFunctionOnSet(h, T)
      BY <3>3
    <3> QED
      BY <3>4
  <2> QED
    BY <2>1, <2>2
<1> HIDE DEF Q
<1>4. \A T \in SUBSET S : T \in Q
  BY <1>3, SubsetInduction
<1> QED
  BY <1>4 DEF Q

LEMMA SumNat ==
  ASSUME NEW S, IsFiniteSet(S), NEW f, \A x \in S : f[x] \in Nat
  PROVE  SumFunctionOnSet(f, S) \in Nat
<1> DEFINE Q == {T \in SUBSET S : SumFunctionOnSet(f, T) \in Nat}
<1>1. \A T \in SUBSET S :
        /\ T = {} => SumFunctionOnSet(f, T) = 0
        /\ T # {} => SumFunctionOnSet(f, T) =
                       f[First(T)] + SumFunctionOnSet(f, T \ {First(T)})
  <2>1. \A T \in SUBSET S : IsFiniteSet(T) /\ \A x \in T : f[x] \in Int
    BY FS_Subset
  <2> QED
    BY <2>1, SumUnfolds
<1>2. ASSUME NEW T \in SUBSET S, \A U \in SUBSET T : U # T => U \in Q
      PROVE  T \in Q
  <2>1. CASE T = {}
    BY <1>1, <2>1
  <2>2. CASE T # {}
    <3>1. First(T) \in T /\ T \ {First(T)} \in Q
      BY <1>2, <2>2, FirstOf
    <3> QED
      BY <1>1, <2>2, <3>1
  <2> QED
    BY <2>1, <2>2
<1> HIDE DEF Q
<1>3. \A T \in SUBSET S : T \in Q
  BY <1>2, SubsetInduction
<1> QED
  BY <1>3 DEF Q

LEMMA SumUnion ==
  ASSUME NEW S, IsFiniteSet(S), NEW T, T \cap S = {}, IsFiniteSet(T),
         NEW f, \A x \in S \cup T : f[x] \in Int
  PROVE  SumFunctionOnSet(f, S \cup T) = SumFunctionOnSet(f, S) + SumFunctionOnSet(f, T)
<1> DEFINE Q == {U \in SUBSET T : SumFunctionOnSet(f, S \cup U) =
                                    SumFunctionOnSet(f, S) + SumFunctionOnSet(f, U)}
<1>1. \A U \in SUBSET T : /\ IsFiniteSet(U) /\ IsFiniteSet(S \cup U)
                          /\ \A x \in S \cup U : f[x] \in Int
  BY FS_Subset, FS_Union
<1>2. SumFunctionOnSet(f, S) \in Int
  BY SumUnfolds
<1>3. ASSUME NEW U \in SUBSET T, \A V \in SUBSET U : V # U => V \in Q
      PROVE  U \in Q
  <2>0. SumFunctionOnSet(f, U) \in Int /\ (U = {} => SumFunctionOnSet(f, U) = 0)
    BY <1>1, SumUnfolds
  <2>1. CASE U = {}
    <3>1. S \cup U = S
      BY <2>1
    <3> QED
      BY <1>2, <2>0, <2>1, <3>1
  <2>2. ASSUME NEW x \in U PROVE U \in Q
    <3> DEFINE V == U \ {x}
    <3>1. V \in Q /\ (S \cup U) \ {x} = S \cup V /\ V \in SUBSET T
      BY <1>3
    <3>2. SumFunctionOnSet(f, U) = f[x] + SumFunctionOnSet(f, V)
      BY <1>1, SumRemove
    <3>3. SumFunctionOnSet(f, S \cup U) = f[x] + SumFunctionOnSet(f, (S \cup U) \ {x})
      BY <1>1, SumRemove
    <3>4. SumFunctionOnSet(f, V) \in Int /\ f[x] \in Int
      BY <1>1, <3>1, SumUnfolds
    <3> DEFINE a == SumFunctionOnSet(f, S)
               b == SumFunctionOnSet(f, V)
    <3>5. /\ SumFunctionOnSet(f, U) = f[x] + b
          /\ SumFunctionOnSet(f, S \cup U) = f[x] + (a + b)
          /\ a \in Int /\ b \in Int /\ f[x] \in Int
      BY <1>2, <3>1, <3>2, <3>3, <3>4
    <3>6. SumFunctionOnSet(f, S \cup U) = a + SumFunctionOnSet(f, U)
      <4> HIDE DEF a, b, V
      <4> QED
        BY <3>5
    <3> QED
      BY <3>6
  <2> QED
    BY <2>1, <2>2
<1> HIDE DEF Q
<1>4. \A U \in SUBSET T : U \in Q
  BY <1>3, SubsetInduction
<1> QED
  BY <1>4 DEF Q

LEMMA FiniteImage ==
  ASSUME NEW S, IsFiniteSet(S), NEW f, DOMAIN f = S
  PROVE  IsFiniteSet({f[x] : x \in S})
<1> DEFINE T == {f[x] : x \in S}
           g == [x \in S |-> f[x]]
<1>1. g \in Surjection(S, T)
  BY DEF Surjection
<1> QED
  BY <1>1, FS_Surjection

-----------------------------------------------------------------------------
(* The sums of BudgetLedger.                                               *)

LEMMA SumGrows ==
  ASSUME NEW S, IsFiniteSet(S), NEW x, x \notin S,
         NEW f, DOMAIN f = S, NEW g, DOMAIN g = S \cup {x},
         \A y \in S \cup {x} : g[y] \in Int, \A y \in S : f[y] = g[y]
  PROVE  SumFunction(g) = SumFunction(f) + g[x]
<1>1. SumFunctionOnSet(g, S \cup {x}) = g[x] + SumFunctionOnSet(g, S)
  BY SumAdd
<1>2. SumFunctionOnSet(f, S) = SumFunctionOnSet(g, S)
  BY SumSame
<1>3. SumFunctionOnSet(g, S) \in Int
  BY SumUnfolds
<1> DEFINE a == SumFunctionOnSet(g, S)
<1>4. /\ SumFunctionOnSet(g, S \cup {x}) = g[x] + a /\ SumFunctionOnSet(f, S) = a
      /\ a \in Int /\ g[x] \in Int
  BY <1>1, <1>2, <1>3
<1> HIDE DEF a
<1> QED
  BY <1>4 DEF SumFunction

(* What the sums need to know of a row.                                    *)
Counts(r) == r.requested \in Nat /\ r.actual \in Nat \cup {Unsettled}

LEMMA CommittedIsNat == \A r : Counts(r) => Committed(r) \in Nat
  BY DEF Counts, Committed

LEMMA RowSums ==
  ASSUME NEW R, IsFiniteSet(R), \A r \in R : Counts(r)
  PROVE  /\ RequestedIn(R) \in Nat /\ CommittedIn(R) \in Nat /\ ChargedIn(R) \in Int
         /\ OpenRows(R) = {} => ChargedIn(R) \in Nat
         /\ R = {} => RequestedIn(R) = 0 /\ ChargedIn(R) = 0 /\ CommittedIn(R) = 0
<1> DEFINE f == [r \in R |-> r.requested]
           g == [r \in R |-> r.actual]
           h == [r \in R |-> Committed(r)]
<1>1. \A r \in R : /\ f[r] \in Nat /\ g[r] \in Int /\ h[r] \in Nat
                   /\ OpenRows(R) = {} => g[r] \in Nat
  BY CommittedIsNat DEF Counts, OpenRows, Unsettled
<1>2. DOMAIN f = R /\ DOMAIN g = R /\ DOMAIN h = R
  OBVIOUS
<1>3. RequestedIn(R) = SumFunctionOnSet(f, R)
  BY DEF RequestedIn, SumFunction
<1>4. ChargedIn(R) = SumFunctionOnSet(g, R)
  BY DEF ChargedIn, SumFunction
<1>5. CommittedIn(R) = SumFunctionOnSet(h, R)
  BY DEF CommittedIn, SumFunction
<1> HIDE DEF f, g, h
<1>6. SumFunctionOnSet(f, R) \in Nat /\ SumFunctionOnSet(h, R) \in Nat
  BY <1>1, SumNat
<1>7. OpenRows(R) = {} => SumFunctionOnSet(g, R) \in Nat
  BY <1>1, SumNat
<1>8. /\ SumFunctionOnSet(g, R) \in Int
      /\ R = {} => /\ SumFunctionOnSet(f, R) = 0 /\ SumFunctionOnSet(g, R) = 0
                   /\ SumFunctionOnSet(h, R) = 0
  <2>1. \A r \in R : f[r] \in Int /\ g[r] \in Int /\ h[r] \in Int
    BY <1>1
  <2> QED
    BY <2>1, SumUnfolds
<1> QED
  BY <1>3, <1>4, <1>5, <1>6, <1>7, <1>8

LEMMA RowSumsGrow ==
  ASSUME NEW R, IsFiniteSet(R), NEW x, x \notin R, \A r \in R \cup {x} : Counts(r)
  PROVE  /\ RequestedIn(R \cup {x}) = RequestedIn(R) + x.requested
         /\ ChargedIn(R \cup {x}) = ChargedIn(R) + x.actual
         /\ CommittedIn(R \cup {x}) = CommittedIn(R) + Committed(x)
<1>0. \A r \in R \cup {x} : r.requested \in Int /\ r.actual \in Int /\ Committed(r) \in Int
  BY CommittedIsNat DEF Counts, Unsettled
<1>1. RequestedIn(R \cup {x}) = RequestedIn(R) + x.requested
  <2> DEFINE f == [r \in R |-> r.requested]
             g == [r \in R \cup {x} |-> r.requested]
  <2>1. /\ DOMAIN f = R /\ DOMAIN g = R \cup {x} /\ g[x] = x.requested
        /\ \A r \in R \cup {x} : g[r] \in Int
        /\ \A r \in R : f[r] = g[r]
    BY <1>0
  <2> HIDE DEF f, g
  <2>2. SumFunction(g) = SumFunction(f) + g[x]
    BY <2>1, SumGrows
  <2> QED
    BY <2>1, <2>2 DEF RequestedIn, f, g
<1>2. ChargedIn(R \cup {x}) = ChargedIn(R) + x.actual
  <2> DEFINE f == [r \in R |-> r.actual]
             g == [r \in R \cup {x} |-> r.actual]
  <2>1. /\ DOMAIN f = R /\ DOMAIN g = R \cup {x} /\ g[x] = x.actual
        /\ \A r \in R \cup {x} : g[r] \in Int
        /\ \A r \in R : f[r] = g[r]
    BY <1>0
  <2> HIDE DEF f, g
  <2>2. SumFunction(g) = SumFunction(f) + g[x]
    BY <2>1, SumGrows
  <2> QED
    BY <2>1, <2>2 DEF ChargedIn, f, g
<1>3. CommittedIn(R \cup {x}) = CommittedIn(R) + Committed(x)
  <2> DEFINE f == [r \in R |-> Committed(r)]
             g == [r \in R \cup {x} |-> Committed(r)]
  <2>1. /\ DOMAIN f = R /\ DOMAIN g = R \cup {x}
        /\ \A r \in R \cup {x} : g[r] \in Int
        /\ \A r \in R : f[r] = g[r]
    BY <1>0
  <2>2. g[x] = Committed(x)
    OBVIOUS
  <2> HIDE DEF f, g
  <2>3. SumFunction(g) = SumFunction(f) + g[x]
    BY <2>1, SumGrows
  <2> QED
    BY <2>2, <2>3 DEF CommittedIn, f, g
<1> QED
  BY <1>1, <1>2, <1>3

(* Less is committed in a window than it holds reserved and used.          *)
LEMMA CommittedIsHeld ==
  ASSUME NEW R, IsFiniteSet(R), \A r \in R : Counts(r)
  PROVE  CommittedIn(R) <= ChargedIn(R \ OpenRows(R)) + RequestedIn(OpenRows(R))
<1> DEFINE open == OpenRows(R)
           shut == R \ OpenRows(R)
           c == [r \in R |-> Committed(r)]
           q == [r \in open |-> r.requested]
           a == [r \in shut |-> r.actual]
<1>1. /\ IsFiniteSet(open) /\ IsFiniteSet(shut) /\ open \cap shut = {} /\ R = open \cup shut
  BY FS_Subset, FS_Difference DEF OpenRows
<1>2. /\ \A r \in R : c[r] \in Int
      /\ \A r \in open : q[r] \in Int /\ c[r] = q[r] /\ r \in R
      /\ \A r \in shut : a[r] \in Int /\ c[r] <= a[r] /\ r \in R
  BY CommittedIsNat DEF Counts, OpenRows, Committed, Unsettled
<1>3. DOMAIN c = R /\ DOMAIN q = open /\ DOMAIN a = shut
  OBVIOUS
<1>4. CommittedIn(R) = SumFunctionOnSet(c, R)
  BY DEF CommittedIn, SumFunction
<1>5. RequestedIn(open) = SumFunctionOnSet(q, open)
  BY DEF RequestedIn, SumFunction
<1>6. ChargedIn(shut) = SumFunctionOnSet(a, shut)
  BY DEF ChargedIn, SumFunction
<1> HIDE DEF c, q, a, open, shut
<1>7. SumFunctionOnSet(c, R) = SumFunctionOnSet(c, open) + SumFunctionOnSet(c, shut)
  BY <1>1, <1>2, SumUnion
<1>8. SumFunctionOnSet(c, open) = SumFunctionOnSet(q, open)
  BY <1>1, <1>2, SumSame
<1>9. SumFunctionOnSet(c, shut) <= SumFunctionOnSet(a, shut)
  BY <1>1, <1>2, SumAtMost
<1>10. /\ SumFunctionOnSet(c, shut) \in Int /\ SumFunctionOnSet(a, shut) \in Int
       /\ SumFunctionOnSet(q, open) \in Int
  BY <1>1, <1>2, SumUnfolds
<1> DEFINE x == SumFunctionOnSet(c, shut)
           y == SumFunctionOnSet(a, shut)
           z == SumFunctionOnSet(q, open)
<1>11. /\ CommittedIn(R) = z + x /\ x <= y /\ x \in Int /\ y \in Int /\ z \in Int
       /\ ChargedIn(shut) = y /\ RequestedIn(open) = z
  BY <1>4, <1>5, <1>6, <1>7, <1>8, <1>9, <1>10
<1> HIDE DEF x, y, z
<1>12. CommittedIn(R) <= ChargedIn(shut) + RequestedIn(open)
  BY <1>11
<1> QED
  BY <1>12 DEF open, shut

-----------------------------------------------------------------------------
(* Ledgers whose reservations and attempts have ids in I.                  *)

RowSet(I) ==
  [id : I, budget : Budgets, window : 0 .. MaxTime, version : Nat, limit : Nat,
   requested : Nat \ {0}, actual : Nat \cup {Unsettled}]
WindowTables == [Budgets -> [0 .. MaxTime -> [used : Int, reserved : Int]]]
AttemptStates == {"started", "succeeded", "failed"}
AttemptTables(I) == UNION {[D -> AttemptStates] : D \in SUBSET I}
Ledgers(I) ==
  [windows : WindowTables, rows : {R \in SUBSET RowSet(I) : IsFiniteSet(R)},
   attempts : AttemptTables(I)]

LEMMA LedgerParts ==
  ASSUME NEW I, NEW l \in Ledgers(I)
  PROVE  /\ l.windows \in WindowTables /\ l.attempts \in AttemptTables(I)
         /\ l.rows \subseteq RowSet(I) /\ IsFiniteSet(l.rows)
         /\ DOMAIN l.attempts \subseteq I
         /\ \A id \in DOMAIN l.attempts : l.attempts[id] \in AttemptStates
         /\ l = [windows |-> l.windows, rows |-> l.rows, attempts |-> l.attempts]
<1>1. /\ l.windows \in WindowTables /\ l.attempts \in AttemptTables(I)
      /\ l.rows \subseteq RowSet(I) /\ IsFiniteSet(l.rows)
      /\ l = [windows |-> l.windows, rows |-> l.rows, attempts |-> l.attempts]
  BY DEF Ledgers
<1> QED
  BY <1>1 DEF AttemptTables

LEMMA RowRecords ==
  ASSUME NEW I
  PROVE  /\ \A r \in RowSet(I) : /\ Counts(r) /\ r.id \in I /\ r.budget \in Budgets
                                 /\ r.window \in 0 .. MaxTime /\ r.limit \in Nat
                                 /\ r.requested \in Nat \ {0} /\ r.actual \in Nat \cup {Unsettled}
         /\ \A r \in RowSet(I), n \in Nat :
              /\ [r EXCEPT !.actual = n] \in RowSet(I)
              /\ [r EXCEPT !.actual = n].id = r.id /\ [r EXCEPT !.actual = n].budget = r.budget
              /\ [r EXCEPT !.actual = n].window = r.window
              /\ [r EXCEPT !.actual = n].limit = r.limit
              /\ [r EXCEPT !.actual = n].requested = r.requested
              /\ [r EXCEPT !.actual = n].actual = n
  BY DEF RowSet, Counts

-----------------------------------------------------------------------------
(* The books of a ledger are in order.                                     *)

RowsAgree(l) ==
  /\ \A r, s \in l.rows : r.id = s.id => r.requested = s.requested /\ r.actual = s.actual
  /\ \A r, s \in l.rows : r.id = s.id /\ r.budget = s.budget => r = s
WindowBalances(l, b, w) ==
  LET here == RowsIn(l, b, w)
  IN /\ l.windows[b][w].reserved = RequestedIn(OpenRows(here))
     /\ l.windows[b][w].used = ChargedIn(here \ OpenRows(here))
WindowKept(rows) == rows # {} => \E r \in rows : CommittedIn(rows) <= r.limit
Books(l) ==
  /\ RowsAgree(l)
  /\ \A b \in Budgets, w \in 0 .. MaxTime :
       WindowBalances(l, b, w) /\ WindowKept(RowsIn(l, b, w))

LEMMA BooksBalance ==
  ASSUME NEW I, ledger \in Ledgers(I), Books(ledger)
  PROVE  /\ WindowsBalance /\ NeverOversold
         /\ \A b \in Budgets, w \in 0 .. MaxTime :
              ledger.windows[b][w].used \in Nat /\ ledger.windows[b][w].reserved \in Nat
<1>1. WindowsBalance /\ NeverOversold
  BY DEF Books, RowsAgree, WindowBalances, WindowKept, WindowsBalance, NeverOversold
<1>2. ASSUME NEW b \in Budgets, NEW w \in 0 .. MaxTime
      PROVE  ledger.windows[b][w].used \in Nat /\ ledger.windows[b][w].reserved \in Nat
  <2> DEFINE here == RowsIn(ledger, b, w)
             open == OpenRows(here)
             shut == here \ OpenRows(here)
  <2>1. /\ open \subseteq ledger.rows /\ shut \subseteq ledger.rows
        /\ OpenRows(shut) = {}
    BY DEF OpenRows, RowsIn
  <2>2. IsFiniteSet(open) /\ IsFiniteSet(shut) /\ \A r \in ledger.rows : Counts(r)
    BY <2>1, LedgerParts, RowRecords, FS_Subset
  <2> HIDE DEF open, shut
  <2>3. RequestedIn(open) \in Nat /\ ChargedIn(shut) \in Nat
    BY <2>1, <2>2, RowSums
  <2> QED
    BY <2>3 DEF Books, WindowBalances, open, shut
<1> QED
  BY <1>1, <1>2

(* The rows of one reservation say the same.                               *)
LEMMA RowsSay ==
  ASSUME NEW l, RowsAgree(l), NEW id
  PROVE  \A r \in RowsOf(l, id) : Requested(l, id) = r.requested /\ Charged(l, id) = r.actual
<1>1. ASSUME NEW r \in RowsOf(l, id) PROVE (CHOOSE s \in RowsOf(l, id) : TRUE) \in RowsOf(l, id)
  OBVIOUS
<1> QED
  BY <1>1 DEF RowsOf, RowsAgree, Requested, Charged

-----------------------------------------------------------------------------
(* What an operation leaves alone.                                         *)

Touches(l, m, ids) ==
  \A i : i \notin ids => RowsOf(m, i) = RowsOf(l, i) /\ AttemptOf(m, i) = AttemptOf(l, i)

LEMMA TouchesMore ==
  ASSUME NEW l, NEW m, NEW k, NEW A, NEW B, Touches(l, m, A), Touches(m, k, B)
  PROVE  Touches(l, k, A \cup B)
  BY DEF Touches

LEMMA UntouchedSaysTheSame ==
  ASSUME NEW l, NEW m, NEW i, RowsOf(m, i) = RowsOf(l, i)
  PROVE  /\ Requested(m, i) = Requested(l, i) /\ Charged(m, i) = Charged(l, i)
         /\ IsSettled(m, i) <=> IsSettled(l, i)
  BY DEF Requested, Charged, IsSettled

-----------------------------------------------------------------------------
(* Settling.                                                               *)

LEMMA MovedParts ==
  ASSUME NEW I, NEW l \in Ledgers(I), RowsAgree(l), NEW id, NEW units \in Nat
  PROVE  LET m == Moved(l, id, units) IN
         /\ m.rows = (l.rows \ RowsOf(l, id)) \cup {[r EXCEPT !.actual = units] : r \in RowsOf(l, id)}
         /\ m.attempts = l.attempts
         /\ \A b \in Budgets, w \in 0 .. MaxTime : m.windows[b][w] =
              IF \E r \in RowsOf(l, id) : r.budget = b /\ r.window = w
                THEN [used |-> l.windows[b][w].used + units
                                 - (IF IsSettled(l, id) THEN Charged(l, id) ELSE 0),
                      reserved |-> l.windows[b][w].reserved
                                 - (IF IsSettled(l, id) THEN 0 ELSE Requested(l, id))]
                ELSE l.windows[b][w]
         /\ m \in Ledgers(I)
<1> DEFINE before == IF IsSettled(l, id) THEN Charged(l, id) ELSE 0
           freed == IF IsSettled(l, id) THEN 0 ELSE Requested(l, id)
           m == Moved(l, id, units)
           rows == (l.rows \ RowsOf(l, id)) \cup {[r EXCEPT !.actual = units] : r \in RowsOf(l, id)}
           Cell(b, w) == IF \E r \in RowsOf(l, id) : r.budget = b /\ r.window = w
                           THEN [used |-> l.windows[b][w].used + units - before,
                                 reserved |-> l.windows[b][w].reserved - freed]
                           ELSE l.windows[b][w]
           windows == [b \in Budgets |-> [w \in 0 .. MaxTime |-> Cell(b, w)]]
<1>1. /\ l.windows \in WindowTables /\ l.attempts \in AttemptTables(I)
      /\ l.rows \subseteq RowSet(I) /\ IsFiniteSet(l.rows)
      /\ l = [windows |-> l.windows, rows |-> l.rows, attempts |-> l.attempts]
  BY LedgerParts
<1>2. m = [l EXCEPT !.windows = windows, !.rows = rows]
  BY DEF Moved
<1>3. m = [windows |-> windows, rows |-> rows, attempts |-> l.attempts]
  <2> HIDE DEF m, windows, rows
  <2> QED
    BY <1>1, <1>2
<1>4. rows \in SUBSET RowSet(I) /\ IsFiniteSet(rows)
  <2>1. RowsOf(l, id) \subseteq l.rows /\ IsFiniteSet(RowsOf(l, id))
    BY <1>1, FS_Subset DEF RowsOf
  <2>2. IsFiniteSet({[r EXCEPT !.actual = units] : r \in RowsOf(l, id)})
    <3> DEFINE f == [r \in RowsOf(l, id) |-> [r EXCEPT !.actual = units]]
    <3>1. {[r EXCEPT !.actual = units] : r \in RowsOf(l, id)} = {f[r] : r \in RowsOf(l, id)}
      OBVIOUS
    <3>2. DOMAIN f = RowsOf(l, id)
      OBVIOUS
    <3> HIDE DEF f
    <3> QED
      BY <2>1, <3>1, <3>2, FiniteImage
  <2>3. IsFiniteSet(l.rows \ RowsOf(l, id))
    BY <1>1, FS_Difference
  <2>4. {[r EXCEPT !.actual = units] : r \in RowsOf(l, id)} \subseteq RowSet(I)
    BY <1>1, <2>1, RowRecords
  <2>5. IsFiniteSet(rows)
    BY <2>2, <2>3, FS_Union
  <2> QED
    BY <1>1, <2>4, <2>5
<1>5. windows \in WindowTables
  <2>1. ASSUME NEW b \in Budgets, NEW w \in 0 .. MaxTime
        PROVE  Cell(b, w) \in [used : Int, reserved : Int]
    <3>1. l.windows[b][w] \in [used : Int, reserved : Int]
      BY <1>1 DEF WindowTables
    <3>2. ASSUME NEW r \in RowsOf(l, id) PROVE before \in Int /\ freed \in Int
      <4>1. Requested(l, id) = r.requested /\ Charged(l, id) = r.actual /\ Counts(r)
        BY <1>1, RowsSay, RowRecords DEF RowsOf
      <4> QED
        BY <4>1 DEF Counts, Unsettled
    <3> HIDE DEF before, freed
    <3> QED
      BY <3>1, <3>2
  <2> HIDE DEF Cell
  <2> QED
    BY <2>1 DEF WindowTables
<1> HIDE DEF rows
<1>6. m \in Ledgers(I)
  <2> HIDE DEF windows, m
  <2> QED
    BY <1>1, <1>3, <1>4, <1>5 DEF Ledgers
<1>7. \A b \in Budgets, w \in 0 .. MaxTime : m.windows[b][w] = Cell(b, w)
  <2>1. m.windows = windows
    <3> HIDE DEF windows, m
    <3> QED
      BY <1>3
  <2> HIDE DEF m, Cell
  <2> QED
    BY <2>1
<1>8. m.rows = rows /\ m.attempts = l.attempts
  <2> HIDE DEF windows, m
  <2> QED
    BY <1>3
<1> QED
  BY <1>6, <1>7, <1>8 DEF rows

LEMMA MovedSays ==
  ASSUME NEW I, NEW l \in Ledgers(I), RowsAgree(l), NEW id, NEW units \in Nat
  PROVE  LET m == Moved(l, id, units) IN
         /\ \A i : i # id => RowsOf(m, i) = RowsOf(l, i)
         /\ RowsOf(m, id) = {[r EXCEPT !.actual = units] : r \in RowsOf(l, id)}
         /\ RowsAgree(m)
<1> DEFINE m == Moved(l, id, units)
<1>1. /\ m.rows = (l.rows \ RowsOf(l, id)) \cup {[r EXCEPT !.actual = units] : r \in RowsOf(l, id)}
      /\ l.rows \subseteq RowSet(I)
  BY MovedParts, LedgerParts
<1> HIDE DEF m
<1>2. \A r \in RowsOf(l, id) : r \in RowSet(I) /\ r.id = id
  BY <1>1 DEF RowsOf
<1>3. \A r \in RowsOf(l, id) : [r EXCEPT !.actual = units].id = id
  BY <1>2, RowRecords
<1>4. \A i : i # id => RowsOf(m, i) = RowsOf(l, i)
  BY <1>1, <1>3 DEF RowsOf
<1>5. RowsOf(m, id) = {[r EXCEPT !.actual = units] : r \in RowsOf(l, id)}
  BY <1>1, <1>3 DEF RowsOf
<1>6. RowsAgree(m)
  <2> SUFFICES ASSUME NEW r \in m.rows, NEW s \in m.rows, r.id = s.id
               PROVE  /\ r.requested = s.requested /\ r.actual = s.actual
                      /\ r.budget = s.budget => r = s
    BY DEF RowsAgree
  <2>1. CASE r.id # id
    BY <1>1, <1>3, <2>1 DEF RowsAgree
  <2>2. CASE r.id = id
    <3>1. r \in RowsOf(m, id) /\ s \in RowsOf(m, id)
      BY <2>2 DEF RowsOf
    <3>2. PICK x \in RowsOf(l, id), y \in RowsOf(l, id) :
            r = [x EXCEPT !.actual = units] /\ s = [y EXCEPT !.actual = units]
      BY <1>5, <3>1
    <3>3. /\ r.requested = x.requested /\ r.budget = x.budget /\ r.actual = units
          /\ s.requested = y.requested /\ s.budget = y.budget /\ s.actual = units
      BY <1>2, <3>2, RowRecords
    <3>4. x \in l.rows /\ y \in l.rows /\ x.id = y.id
      BY DEF RowsOf
    <3> QED
      BY <3>2, <3>3, <3>4 DEF RowsAgree
  <2> QED
    BY <2>1, <2>2
<1> QED
  BY <1>4, <1>5, <1>6 DEF m

(* One window when one of its rows is settled or charged more.             *)
LEMMA MovedWindow ==
  ASSUME NEW I, NEW l \in Ledgers(I), Books(l), NEW id, NEW units \in Nat,
         IsSettled(l, id) => Charged(l, id) >= Requested(l, id),
         NEW b \in Budgets, NEW w \in 0 .. MaxTime
  PROVE  LET m == Moved(l, id, units) IN
         WindowBalances(m, b, w) /\ WindowKept(RowsIn(m, b, w))
<1> DEFINE m == Moved(l, id, units)
           here == RowsIn(l, b, w)
           there == RowsIn(m, b, w)
<1>0. RowsAgree(l) /\ WindowBalances(l, b, w) /\ WindowKept(here)
  BY DEF Books
<1>1. /\ m.rows = (l.rows \ RowsOf(l, id)) \cup {[r EXCEPT !.actual = units] : r \in RowsOf(l, id)}
      /\ m.windows[b][w] =
           IF \E r \in RowsOf(l, id) : r.budget = b /\ r.window = w
             THEN [used |-> l.windows[b][w].used + units
                              - (IF IsSettled(l, id) THEN Charged(l, id) ELSE 0),
                   reserved |-> l.windows[b][w].reserved
                              - (IF IsSettled(l, id) THEN 0 ELSE Requested(l, id))]
             ELSE l.windows[b][w]
  BY <1>0, MovedParts
<1>2. /\ l.rows \subseteq RowSet(I) /\ IsFiniteSet(l.rows) /\ IsFiniteSet(here)
      /\ \A r \in here : Counts(r) /\ r \in RowSet(I)
  BY LedgerParts, RowRecords, FS_Subset DEF RowsIn
<1>3. \A r \in RowsOf(l, id) :
        /\ r \in RowSet(I) /\ r \in l.rows /\ r.id = id
        /\ r.requested = Requested(l, id) /\ r.actual = Charged(l, id)
  BY <1>0, <1>2, RowsSay DEF RowsOf
<1> HIDE DEF m
<1>4. CASE ~\E r \in RowsOf(l, id) : r.budget = b /\ r.window = w
  <2>0. \A r \in RowsOf(l, id) : LET n == [r EXCEPT !.actual = units]
                                IN n.budget = r.budget /\ n.window = r.window
    BY <1>3, RowRecords
  <2> DEFINE new == {[r EXCEPT !.actual = units] : r \in RowsOf(l, id)}
  <2>01. \A r \in new \cup RowsOf(l, id) : ~(r.budget = b /\ r.window = w)
    BY <1>4, <2>0
  <2>02. m.rows = (l.rows \ RowsOf(l, id)) \cup new
    BY <1>1
  <2> HIDE DEF new
  <2>1. there = here
    BY <1>3, <2>01, <2>02 DEF RowsIn
  <2>2. m.windows[b][w] = l.windows[b][w]
    BY <1>1, <1>4
  <2>3. WindowBalances(m, b, w)
    BY <1>0, <2>1, <2>2 DEF WindowBalances
  <2> QED
    BY <1>0, <2>1, <2>3 DEF m
<1>5. ASSUME NEW r \in RowsOf(l, id), r.budget = b, r.window = w
      PROVE  WindowBalances(m, b, w) /\ WindowKept(there)
  <2> DEFINE rest == here \ {r}
             new == [r EXCEPT !.actual = units]
  <2>1. /\ r \in here /\ here = rest \cup {r} /\ r \notin rest
        /\ \A s \in rest : s \in l.rows /\ s.id # id
    BY <1>0, <1>3, <1>5 DEF RowsIn, RowsAgree, RowsOf
  <2>2. /\ new \in RowSet(I) /\ new.id = id /\ new.budget = b /\ new.window = w
        /\ new.actual = units /\ new.requested = r.requested /\ new.limit = r.limit
    BY <1>3, <1>5, RowRecords
  <2>3. there = rest \cup {new} /\ new \notin rest
    <3>1. \A s \in RowsOf(l, id) :
            [s EXCEPT !.actual = units].budget = b => s = r
      BY <1>0, <1>3, <1>5, RowRecords DEF RowsAgree
    <3>2. there \subseteq rest \cup {new}
      <4> SUFFICES ASSUME NEW s \in there, s \notin rest PROVE s = new
        OBVIOUS
      <4>1. s \in m.rows /\ s.budget = b /\ s.window = w
        BY DEF RowsIn
      <4>2. CASE s \in l.rows \ RowsOf(l, id)
        BY <2>1, <4>1, <4>2, <1>3 DEF RowsIn
      <4>3. ASSUME NEW t \in RowsOf(l, id), s = [t EXCEPT !.actual = units] PROVE s = new
        BY <3>1, <4>1, <4>3
      <4> QED
        BY <1>1, <4>1, <4>2, <4>3
    <3>3. new \in there
      BY <1>1, <2>2 DEF RowsIn
    <3>4. rest \subseteq there
      BY <1>1, <2>1 DEF RowsIn, RowsOf
    <3>5. new \notin rest
      BY <2>1, <2>2
    <3> QED
      BY <3>2, <3>3, <3>4, <3>5
  <2>4. /\ IsFiniteSet(rest) /\ Counts(r) /\ Counts(new)
        /\ \A s \in rest : Counts(s)
    <3>1. IsFiniteSet(rest)
      BY <1>2, FS_RemoveElement
    <3> QED
      BY <1>2, <1>3, <2>1, <2>2, <3>1, RowRecords
  <2> HIDE DEF rest, new, here, there
  <2>5. WindowBalances(m, b, w)
    <3> DEFINE open == OpenRows(rest)
               shut == rest \ OpenRows(rest)
    <3>1. /\ IsFiniteSet(open) /\ IsFiniteSet(shut)
          /\ r \notin open /\ r \notin shut /\ new \notin open /\ new \notin shut
          /\ \A s \in open \cup {r} : Counts(s)
          /\ \A s \in shut \cup {r} : Counts(s)
          /\ \A s \in shut \cup {new} : Counts(s)
      BY <2>1, <2>3, <2>4, FS_Subset, FS_Difference DEF OpenRows
    <3>2. /\ OpenRows(there) = open /\ there \ OpenRows(there) = shut \cup {new}
      BY <2>2, <2>3 DEF OpenRows, Unsettled
    <3>3. /\ ChargedIn(shut \cup {new}) = ChargedIn(shut) + units
          /\ ChargedIn(shut) \in Int /\ RequestedIn(open) \in Int
      <4>1. ChargedIn(shut \cup {new}) = ChargedIn(shut) + new.actual
        BY <3>1, RowSumsGrow
      <4>2. \A s \in open : Counts(s)
        BY <3>1
      <4>3. \A s \in shut : Counts(s)
        BY <3>1
      <4> QED
        BY <2>2, <3>1, <4>1, <4>2, <4>3, RowSums
    <3>4. l.windows[b][w] \in [used : Int, reserved : Int]
      <4>1. l.windows \in WindowTables
        BY LedgerParts
      <4> QED
        BY <4>1 DEF WindowTables
    <3>5. CASE r.actual = Unsettled
      <4>1. ~IsSettled(l, id)
        BY <1>3, <3>5 DEF IsSettled
      <4>2. OpenRows(here) = open \cup {r} /\ here \ OpenRows(here) = shut
        BY <2>1, <3>5 DEF OpenRows
      <4>3. RequestedIn(open \cup {r}) = RequestedIn(open) + r.requested
        BY <3>1, RowSumsGrow
      <4>4. /\ l.windows[b][w].reserved = RequestedIn(open) + r.requested
            /\ l.windows[b][w].used = ChargedIn(shut)
        BY <1>0, <4>2, <4>3 DEF WindowBalances, here
      <4>5. /\ m.windows[b][w].reserved = l.windows[b][w].reserved - r.requested
            /\ m.windows[b][w].used = l.windows[b][w].used + units - 0
        BY <1>1, <1>3, <1>5, <4>1
      <4>6. r.requested \in Int
        BY <2>4 DEF Counts
      <4>7. /\ m.windows[b][w].reserved = RequestedIn(open)
            /\ m.windows[b][w].used = ChargedIn(shut) + units
        <5> DEFINE q == RequestedIn(open)
                   a == ChargedIn(shut)
        <5>1. /\ l.windows[b][w].reserved = q + r.requested /\ l.windows[b][w].used = a
              /\ q \in Int /\ a \in Int
          BY <3>3, <4>4
        <5> HIDE DEF q, a
        <5>2. m.windows[b][w].reserved = q /\ m.windows[b][w].used = a + units
          BY <4>5, <4>6, <5>1
        <5> QED
          BY <5>2 DEF q, a
      <4> QED
        BY <3>2, <3>3, <4>7 DEF WindowBalances, there
    <3>6. CASE r.actual # Unsettled
      <4>1. IsSettled(l, id)
        BY <1>3, <3>6 DEF IsSettled
      <4>2. OpenRows(here) = open /\ here \ OpenRows(here) = shut \cup {r}
        BY <2>1, <3>6 DEF OpenRows
      <4>3. ChargedIn(shut \cup {r}) = ChargedIn(shut) + r.actual
        BY <3>1, RowSumsGrow
      <4>4. /\ l.windows[b][w].reserved = RequestedIn(open)
            /\ l.windows[b][w].used = ChargedIn(shut) + r.actual
        BY <1>0, <4>2, <4>3 DEF WindowBalances, here
      <4>5. /\ m.windows[b][w].reserved = l.windows[b][w].reserved - 0
            /\ m.windows[b][w].used = l.windows[b][w].used + units - r.actual
        BY <1>1, <1>3, <1>5, <4>1
      <4>6. r.actual \in Int
        BY <2>4 DEF Counts, Unsettled
      <4>7. /\ m.windows[b][w].reserved = RequestedIn(open)
            /\ m.windows[b][w].used = ChargedIn(shut) + units
        <5> DEFINE q == RequestedIn(open)
                   a == ChargedIn(shut)
        <5>1. /\ l.windows[b][w].reserved = q /\ l.windows[b][w].used = a + r.actual
              /\ q \in Int /\ a \in Int
          BY <3>3, <4>4
        <5> HIDE DEF q, a
        <5>2. m.windows[b][w].reserved = q /\ m.windows[b][w].used = a + units
          BY <4>5, <4>6, <5>1
        <5> QED
          BY <5>2 DEF q, a
      <4> QED
        BY <3>2, <3>3, <4>7 DEF WindowBalances, there
    <3> QED
      BY <3>5, <3>6
  <2>6. WindowKept(there)
    <3>1. /\ CommittedIn(here) = CommittedIn(rest) + Committed(r)
          /\ CommittedIn(there) = CommittedIn(rest) + Committed(new)
          /\ CommittedIn(rest) \in Nat
      BY <2>1, <2>3, <2>4, RowSumsGrow, RowSums
    <3>2. Committed(new) <= Committed(r)
      <4>1. Committed(new) <= r.requested
        BY <2>2, <2>4 DEF Committed, Counts, Unsettled
      <4>2. Committed(r) = r.requested
        BY <1>3, <2>4 DEF Committed, Counts, Unsettled, IsSettled
      <4> QED
        BY <4>1, <4>2
    <3>3. PICK s \in here : CommittedIn(here) <= s.limit
      BY <1>0, <2>1 DEF WindowKept, here
    <3>4. CommittedIn(there) <= s.limit
      <4> DEFINE c == CommittedIn(rest)
                 x == Committed(r)
                 y == Committed(new)
      <4>1. /\ CommittedIn(here) = c + x /\ CommittedIn(there) = c + y /\ c \in Nat
            /\ y <= x /\ x \in Nat /\ y \in Nat /\ s.limit \in Nat
        BY <1>2, <2>4, <3>1, <3>2, CommittedIsNat, RowRecords DEF here
      <4> HIDE DEF c, x, y
      <4> QED
        BY <3>3, <4>1
    <3>5. \E t \in there : t.limit = s.limit
      BY <2>1, <2>2, <2>3
    <3> QED
      BY <3>4, <3>5 DEF WindowKept
  <2> QED
    BY <2>5, <2>6
<1> QED
  BY <1>4, <1>5 DEF m

LEMMA SettleKeeps ==
  ASSUME NEW I, NEW l \in Ledgers(I), Books(l), NEW id, NEW units \in Nat,
         IsSettled(l, id) => Charged(l, id) >= Requested(l, id) \/ units <= Charged(l, id)
  PROVE  LET m == Settle(l, id, units) IN
         /\ m \in Ledgers(I) /\ Books(m) /\ m.attempts = l.attempts
         /\ \A i : i # id => RowsOf(m, i) = RowsOf(l, i)
         /\ RowsOf(m, id) = {} <=> RowsOf(l, id) = {}
         /\ RowsOf(l, id) # {} =>
              /\ IsSettled(m, id) /\ Requested(m, id) = Requested(l, id)
              /\ Charged(m, id) = IF IsSettled(l, id) /\ units <= Charged(l, id)
                                    THEN Charged(l, id) ELSE units
<1>1. CASE IsSettled(l, id) /\ units <= Charged(l, id)
  BY <1>1 DEF Settle, IsSettled
<1>2. CASE ~(IsSettled(l, id) /\ units <= Charged(l, id))
  <2> DEFINE m == Moved(l, id, units)
  <2>1. Settle(l, id, units) = m
    BY <1>2 DEF Settle
  <2>2. RowsAgree(l)
    BY DEF Books
  <2>3. m \in Ledgers(I) /\ m.attempts = l.attempts
    BY <2>2, MovedParts
  <2>4. /\ \A i : i # id => RowsOf(m, i) = RowsOf(l, i)
        /\ RowsOf(m, id) = {[r EXCEPT !.actual = units] : r \in RowsOf(l, id)}
        /\ RowsAgree(m)
    BY <2>2, MovedSays
  <2>5. \A b \in Budgets, w \in 0 .. MaxTime :
          WindowBalances(m, b, w) /\ WindowKept(RowsIn(m, b, w))
    BY <1>2, MovedWindow
  <2> HIDE DEF m
  <2>6. Books(m)
    BY <2>4, <2>5 DEF Books
  <2>7. ASSUME NEW r \in RowsOf(l, id)
        PROVE  /\ IsSettled(m, id) /\ Requested(m, id) = Requested(l, id)
               /\ Charged(m, id) = units
    <3> DEFINE n == [r EXCEPT !.actual = units]
    <3>1. r \in RowSet(I)
      BY LedgerParts DEF RowsOf
    <3>2. n \in RowsOf(m, id) /\ n.actual = units /\ n.requested = r.requested
      BY <2>4, <3>1, RowRecords
    <3> HIDE DEF n
    <3>3. Charged(m, id) = units /\ Requested(m, id) = r.requested
      BY <2>4, <3>2, RowsSay
    <3>4. Requested(l, id) = r.requested
      BY <2>2, RowsSay
    <3> QED
      BY <3>2, <3>3, <3>4 DEF IsSettled, Unsettled
  <2> QED
    BY <1>2, <2>1, <2>3, <2>4, <2>6, <2>7
<1> QED
  BY <1>1, <1>2

-----------------------------------------------------------------------------
(* Reserving.                                                              *)

PoliciesTyped ==
  /\ policy \in [Budgets -> [limit : Nat, enabled : BOOLEAN, version : 1 .. MaxVersion]]
  /\ now \in 0 .. MaxTime

LEMMA WindowOfNow ==
  ASSUME PoliciesTyped, NEW b \in Budgets
  PROVE  WindowNow(b) \in 0 .. MaxTime
<1> DEFINE t == b.ticks
<1>1. t \in Nat \ {0} /\ now \in Nat /\ now <= MaxTime /\ MaxTime \in Nat
  BY BudgetsAssumption DEF PoliciesTyped
<1> HIDE DEF t
<1>2. now \div t \in Nat /\ now \div t <= now
  BY <1>1
<1>3. now \div t \in 0 .. MaxTime
  BY <1>1, <1>2
<1> QED
  BY <1>3 DEF WindowNow, t

NewRow(id, b, units) ==
  [id |-> id, budget |-> b, window |-> WindowNow(b), version |-> policy[b].version,
   limit |-> policy[b].limit, requested |-> units, actual |-> Unsettled]

LEMMA NewRowRecords ==
  ASSUME PoliciesTyped, NEW I, NEW id \in I, NEW b \in Budgets, NEW units \in Nat \ {0}
  PROVE  NewRow(id, b, units) \in RowSet(I)
<1>1. WindowNow(b) \in 0 .. MaxTime
  BY WindowOfNow
<1>2. policy[b] \in [limit : Nat, enabled : BOOLEAN, version : 1 .. MaxVersion]
  BY DEF PoliciesTyped
<1>3. policy[b].version \in Nat /\ policy[b].limit \in Nat
  BY <1>2
<1> QED
  BY <1>1, <1>3 DEF NewRow, RowSet

LEMMA ReserveParts ==
  ASSUME PoliciesTyped, NEW I, NEW l \in Ledgers(I), NEW id \in I, NEW metric, NEW scopes,
         NEW units \in Nat \ {0}, RowsOf(l, id) = {}
  PROVE  LET m == Reserve(l, id, metric, scopes, units)
             hit == Applicable(metric, scopes)
         IN
         /\ m.rows = l.rows \cup {NewRow(id, b, units) : b \in hit}
         /\ m.attempts = l.attempts
         /\ \A b \in Budgets, w \in 0 .. MaxTime : m.windows[b][w] =
              IF b \in hit /\ w = WindowNow(b)
                THEN [used |-> l.windows[b][w].used, reserved |-> l.windows[b][w].reserved + units]
                ELSE l.windows[b][w]
         /\ m \in Ledgers(I)
<1> DEFINE m == Reserve(l, id, metric, scopes, units)
           hit == Applicable(metric, scopes)
           rows == l.rows \cup {NewRow(id, b, units) : b \in hit}
           Table(b) == IF b \in hit THEN [l.windows[b] EXCEPT ![WindowNow(b)].reserved = @ + units]
                       ELSE l.windows[b]
           windows == [b \in Budgets |-> Table(b)]
<1>1. /\ l.windows \in WindowTables /\ l.attempts \in AttemptTables(I)
      /\ l.rows \subseteq RowSet(I) /\ IsFiniteSet(l.rows)
      /\ l = [windows |-> l.windows, rows |-> l.rows, attempts |-> l.attempts]
  BY LedgerParts
<1>2. m = [l EXCEPT !.windows = windows, !.rows = rows]
  BY DEF Reserve, NewRow
<1>3. m = [windows |-> windows, rows |-> rows, attempts |-> l.attempts]
  <2> HIDE DEF m, windows, rows
  <2> QED
    BY <1>1, <1>2
<1>4. rows \in SUBSET RowSet(I) /\ IsFiniteSet(rows)
  <2>1. hit \subseteq Budgets /\ IsFiniteSet(hit)
    BY BudgetsAssumption, FS_Subset DEF Applicable
  <2>2. IsFiniteSet({NewRow(id, b, units) : b \in hit})
    <3> DEFINE f == [b \in hit |-> NewRow(id, b, units)]
    <3>1. {NewRow(id, b, units) : b \in hit} = {f[b] : b \in hit} /\ DOMAIN f = hit
      OBVIOUS
    <3> HIDE DEF f, hit
    <3> QED
      BY <2>1, <3>1, FiniteImage
  <2>3. {NewRow(id, b, units) : b \in hit} \subseteq RowSet(I)
    BY <2>1, NewRowRecords
  <2> HIDE DEF hit
  <2> QED
    BY <1>1, <2>2, <2>3, FS_Union
<1>5. ASSUME NEW b \in Budgets
      PROVE  /\ Table(b) \in [0 .. MaxTime -> [used : Int, reserved : Int]]
             /\ \A w \in 0 .. MaxTime : Table(b)[w] =
                  IF b \in hit /\ w = WindowNow(b)
                    THEN [used |-> l.windows[b][w].used,
                          reserved |-> l.windows[b][w].reserved + units]
                    ELSE l.windows[b][w]
  <2> HIDE DEF hit
  <2>1. l.windows[b] \in [0 .. MaxTime -> [used : Int, reserved : Int]]
    BY <1>1 DEF WindowTables
  <2>2. WindowNow(b) \in 0 .. MaxTime
    BY WindowOfNow
  <2>3. \A x \in [used : Int, reserved : Int] :
          /\ [x EXCEPT !.reserved = @ + units] = [used |-> x.used, reserved |-> x.reserved + units]
          /\ [x EXCEPT !.reserved = @ + units] \in [used : Int, reserved : Int]
    OBVIOUS
  <2> QED
    BY <2>1, <2>2, <2>3
<1> HIDE DEF Table, rows
<1>6. windows \in WindowTables
  BY <1>5 DEF WindowTables
<1>7. m \in Ledgers(I)
  <2> HIDE DEF windows, m
  <2> QED
    BY <1>1, <1>3, <1>4, <1>6 DEF Ledgers
<1>8. m.windows = windows /\ m.rows = rows /\ m.attempts = l.attempts
  <2> HIDE DEF windows, m
  <2> QED
    BY <1>3
<1> HIDE DEF m, hit
<1>9. \A b \in Budgets : m.windows[b] = Table(b)
  BY <1>8
<1> QED
  BY <1>5, <1>7, <1>8, <1>9 DEF rows, m, hit

(* One window when a reservation joins it.                                 *)
LEMMA ReservedWindow ==
  ASSUME PoliciesTyped, NEW I, NEW l \in Ledgers(I), Books(l), NEW id \in I,
         NEW metric, NEW scopes, NEW units \in Nat \ {0},
         RowsOf(l, id) = {}, Fits(l, Applicable(metric, scopes), units),
         NEW b \in Budgets, NEW w \in 0 .. MaxTime
  PROVE  LET m == Reserve(l, id, metric, scopes, units) IN
         WindowBalances(m, b, w) /\ WindowKept(RowsIn(m, b, w))
<1> DEFINE m == Reserve(l, id, metric, scopes, units)
           hit == Applicable(metric, scopes)
           here == RowsIn(l, b, w)
           there == RowsIn(m, b, w)
           new == NewRow(id, b, units)
<1>0. WindowBalances(l, b, w) /\ WindowKept(here)
  BY DEF Books
<1>1. /\ m.rows = l.rows \cup {NewRow(id, c, units) : c \in hit}
      /\ m.windows[b][w] =
           IF b \in hit /\ w = WindowNow(b)
             THEN [used |-> l.windows[b][w].used, reserved |-> l.windows[b][w].reserved + units]
             ELSE l.windows[b][w]
  BY ReserveParts
<1>2. /\ l.rows \subseteq RowSet(I) /\ IsFiniteSet(l.rows) /\ IsFiniteSet(here)
      /\ \A r \in here : Counts(r) /\ r.id # id /\ r \in RowSet(I)
  BY LedgerParts, RowRecords, FS_Subset DEF RowsIn, RowsOf
<1>3. \A c \in hit : /\ NewRow(id, c, units).budget = c
                     /\ NewRow(id, c, units).window = WindowNow(c)
  BY DEF NewRow
<1>4. hit \subseteq Budgets
  BY DEF Applicable
<1> HIDE DEF m, hit
<1>5. CASE ~(b \in hit /\ w = WindowNow(b))
  <2>1. there = here
    BY <1>1, <1>3, <1>5 DEF RowsIn
  <2>2. m.windows[b][w] = l.windows[b][w]
    BY <1>1, <1>5
  <2>3. WindowBalances(m, b, w)
    BY <1>0, <2>1, <2>2 DEF WindowBalances
  <2> QED
    BY <1>0, <2>1, <2>3 DEF m
<1>6. CASE b \in hit /\ w = WindowNow(b)
  <2>1. /\ new \in RowSet(I) /\ Counts(new)
        /\ new.requested = units /\ new.actual = Unsettled /\ new.limit = policy[b].limit
        /\ new.id = id
    <3>1. new \in RowSet(I)
      BY NewRowRecords
    <3>2. Counts(new)
      BY <3>1, RowRecords
    <3> QED
      BY <3>1, <3>2 DEF NewRow
  <2>2. there = here \cup {new} /\ new \notin here
    <3>1. new \notin here
      BY <1>2, <2>1
    <3>2. new \in there
      BY <1>1, <1>3, <1>6 DEF RowsIn
    <3>3. there \subseteq here \cup {new}
      BY <1>1, <1>3, <1>6 DEF RowsIn
    <3>4. here \subseteq there
      BY <1>1 DEF RowsIn
    <3> QED
      BY <3>1, <3>2, <3>3, <3>4
  <2>3. l.windows[b][w] \in [used : Int, reserved : Int]
    <3>1. l.windows \in WindowTables
      BY LedgerParts
    <3> QED
      BY <3>1 DEF WindowTables
  <2>4. policy[b].limit \in Nat
    <3>1. policy[b] \in [limit : Nat, enabled : BOOLEAN, version : 1 .. MaxVersion]
      BY DEF PoliciesTyped
    <3> QED
      BY <3>1
  <2> DEFINE open == OpenRows(here)
             shut == here \ OpenRows(here)
  <2>5. /\ IsFiniteSet(open) /\ new \notin open /\ \A r \in open \cup {new} : Counts(r)
        /\ OpenRows(there) = open \cup {new} /\ there \ OpenRows(there) = shut
    BY <1>2, <2>1, <2>2, FS_Subset DEF OpenRows
  <2>6. RequestedIn(open \cup {new}) = RequestedIn(open) + units
    BY <2>1, <2>5, RowSumsGrow
  <2>7. /\ l.windows[b][w].reserved = RequestedIn(open)
        /\ l.windows[b][w].used = ChargedIn(shut)
    BY <1>0 DEF WindowBalances
  <2>8. WindowBalances(m, b, w)
    <3>1. /\ m.windows[b][w].reserved = l.windows[b][w].reserved + units
          /\ m.windows[b][w].used = l.windows[b][w].used
      BY <1>1, <1>6
    <3> HIDE DEF open, shut, here, new
    <3> QED
      BY <2>5, <2>6, <2>7, <3>1 DEF WindowBalances, there
  <2>9. WindowKept(there)
    <3>1. CommittedIn(here) <= ChargedIn(shut) + RequestedIn(open)
      BY <1>2, CommittedIsHeld
    <3>2. CommittedIn(there) = CommittedIn(here) + units
      <4>1. \A r \in here \cup {new} : Counts(r)
        BY <1>2, <2>1
      <4>2. Committed(new) = units
        BY <2>1 DEF Committed
      <4> QED
        BY <1>2, <2>2, <4>1, <4>2, RowSumsGrow
    <3>3. l.windows[b][w].used + l.windows[b][w].reserved + units <= policy[b].limit
      BY <1>6 DEF Fits, hit
    <3>4. CommittedIn(here) \in Nat
      BY <1>2, RowSums
    <3> DEFINE u == l.windows[b][w].used
               v == l.windows[b][w].reserved
               c == CommittedIn(here)
    <3>5. /\ u \in Int /\ v \in Int /\ c \in Nat /\ c <= u + v /\ u + v + units <= policy[b].limit
          /\ CommittedIn(there) = c + units
      BY <2>3, <2>7, <3>1, <3>2, <3>3, <3>4
    <3> HIDE DEF u, v, c, there, here, open, shut
    <3>6. CommittedIn(there) <= new.limit
      BY <2>1, <2>4, <3>5
    <3> QED
      BY <2>2, <3>6 DEF WindowKept
  <2> QED
    BY <2>8, <2>9 DEF m
<1> QED
  BY <1>5, <1>6

LEMMA ReserveKeeps ==
  ASSUME PoliciesTyped, NEW I, NEW l \in Ledgers(I), Books(l), NEW id \in I,
         NEW metric, NEW scopes, NEW units \in Nat \ {0}, MayReserve(l, id, metric, scopes, units)
  PROVE  LET m == Reserve(l, id, metric, scopes, units) IN
         /\ m \in Ledgers(I) /\ Books(m) /\ m.attempts = l.attempts
         /\ \A i : i # id => RowsOf(m, i) = RowsOf(l, i)
         /\ RowsOf(m, id) # {}
         /\ RowsOf(l, id) # {} => m = l
         /\ RowsOf(l, id) = {} =>
              ~IsSettled(m, id) /\ Requested(m, id) = units /\ Charged(m, id) = Unsettled
<1>1. CASE RowsOf(l, id) # {}
  BY <1>1 DEF Reserve
<1>2. CASE RowsOf(l, id) = {}
  <2> DEFINE m == Reserve(l, id, metric, scopes, units)
             hit == Applicable(metric, scopes)
             new == {NewRow(id, b, units) : b \in hit}
  <2>1. m.rows = l.rows \cup new /\ m.attempts = l.attempts /\ m \in Ledgers(I)
    BY <1>2, ReserveParts
  <2>2. hit # {} /\ hit \subseteq Budgets /\ Fits(l, hit, units)
    BY <1>2 DEF MayReserve, Applicable
  <2>3. \A b \in Budgets, w \in 0 .. MaxTime :
          WindowBalances(m, b, w) /\ WindowKept(RowsIn(m, b, w))
    BY <1>2, <2>2, ReservedWindow
  <2> HIDE DEF m
  <2>4. \A r \in new : /\ r.id = id /\ r.requested = units /\ r.actual = Unsettled
                       /\ r = NewRow(id, r.budget, units)
    BY DEF NewRow
  <2>5. new # {}
    BY <2>2
  <2> HIDE DEF new
  <2>6. \A r \in l.rows : r.id # id
    BY <1>2 DEF RowsOf
  <2>7. RowsOf(m, id) = new /\ \A i : i # id => RowsOf(m, i) = RowsOf(l, i)
    BY <2>1, <2>4, <2>6 DEF RowsOf
  <2>8. RowsAgree(m)
    BY <2>1, <2>4, <2>6 DEF Books, RowsAgree
  <2>9. Books(m)
    BY <2>3, <2>8 DEF Books
  <2>10. ~IsSettled(m, id) /\ Requested(m, id) = units /\ Charged(m, id) = Unsettled
    <3>1. PICK r \in RowsOf(m, id) : r.requested = units /\ r.actual = Unsettled
      BY <2>4, <2>5, <2>7
    <3> QED
      BY <2>8, <3>1, RowsSay DEF IsSettled
  <2> QED
    BY <1>2, <2>1, <2>5, <2>7, <2>9, <2>10 DEF m
<1> QED
  BY <1>1, <1>2

LEMMA ReservedElsewhere ==
  ASSUME PoliciesTyped, NEW I, NEW l \in Ledgers(I), NEW id \in I, NEW metric, NEW scopes,
         NEW units \in Nat \ {0}, NEW b \in Budgets \ Applicable(metric, scopes),
         NEW w \in 0 .. MaxTime
  PROVE  Reserve(l, id, metric, scopes, units).windows[b][w] = l.windows[b][w]
<1>1. CASE RowsOf(l, id) # {}
  BY <1>1 DEF Reserve
<1>2. CASE RowsOf(l, id) = {}
  <2> DEFINE m == Reserve(l, id, metric, scopes, units)
  <2>1. /\ m \in Ledgers(I)
        /\ \A c \in Budgets, v \in 0 .. MaxTime : m.windows[c][v] =
             IF c \in Applicable(metric, scopes) /\ v = WindowNow(c)
               THEN [used |-> l.windows[c][v].used, reserved |-> l.windows[c][v].reserved + units]
               ELSE l.windows[c][v]
    BY <1>2, ReserveParts
  <2> HIDE DEF m
  <2> QED
    BY <2>1 DEF m
<1> QED
  BY <1>1, <1>2

(* A reservation of another metric takes no room.                          *)
LEMMA ReservedApart ==
  ASSUME PoliciesTyped, NEW I, NEW l \in Ledgers(I), Books(l), NEW id \in I,
         NEW metric, NEW scopes, NEW units \in Nat \ {0}, MayReserve(l, id, metric, scopes, units),
         NEW other, NEW metric2, NEW scopes2, NEW units2, other # id, metric2 # metric,
         MayReserve(l, other, metric2, scopes2, units2)
  PROVE  MayReserve(Reserve(l, id, metric, scopes, units), other, metric2, scopes2, units2)
<1> DEFINE m == Reserve(l, id, metric, scopes, units)
           hit == Applicable(metric2, scopes2)
<1>1. RowsOf(m, other) = RowsOf(l, other)
  BY ReserveKeeps
<1>2. ASSUME NEW b \in hit PROVE m.windows[b][WindowNow(b)] = l.windows[b][WindowNow(b)]
  <2>1. b \in Budgets \ Applicable(metric, scopes)
    BY DEF Applicable
  <2>2. WindowNow(b) \in 0 .. MaxTime
    BY <2>1, WindowOfNow
  <2> QED
    BY <2>1, <2>2, ReservedElsewhere
<1> HIDE DEF m, hit
<1>3. Fits(l, hit, units2) => Fits(m, hit, units2)
  BY <1>2 DEF Fits
<1> QED
  BY <1>1, <1>3 DEF MayReserve, m, hit

-----------------------------------------------------------------------------
(* Attempts.                                                               *)

NotedAs(l, m, id, status) == m = [l EXCEPT !.attempts = Noted(@, id, status)]

LEMMA NotedIs ==
  ASSUME NEW I, NEW l \in Ledgers(I), NEW id \in I, NEW status \in AttemptStates,
         NEW m, NotedAs(l, m, id, status)
  PROVE  /\ m \in Ledgers(I) /\ m.windows = l.windows /\ m.rows = l.rows
         /\ DOMAIN m.attempts = DOMAIN l.attempts \cup {id}
         /\ \A i \in DOMAIN l.attempts \ {id} : m.attempts[i] = l.attempts[i]
         /\ m.attempts[id] = status
<1> DEFINE a == l.attempts
           n == Noted(a, id, status)
<1>1. /\ l.windows \in WindowTables /\ l.rows \in {R \in SUBSET RowSet(I) : IsFiniteSet(R)}
      /\ l = [windows |-> l.windows, rows |-> l.rows, attempts |-> a]
      /\ DOMAIN a \subseteq I /\ \A i \in DOMAIN a : a[i] \in AttemptStates
  BY LedgerParts
<1> HIDE DEF a
<1>2. n = [i \in DOMAIN a \cup {id} |-> IF i = id THEN status ELSE a[i]]
  BY DEF Noted
<1> HIDE DEF n
<1>3. n \in [DOMAIN a \cup {id} -> AttemptStates] /\ DOMAIN a \cup {id} \in SUBSET I
  BY <1>1, <1>2
<1>4. n \in AttemptTables(I)
  BY <1>3 DEF AttemptTables
<1>5. m = [windows |-> l.windows, rows |-> l.rows, attempts |-> n]
  BY <1>1 DEF a, n, NotedAs
<1>6. [windows |-> l.windows, rows |-> l.rows, attempts |-> n] \in Ledgers(I)
  BY <1>1, <1>4 DEF Ledgers
<1>7. /\ n[id] = status /\ DOMAIN n = DOMAIN a \cup {id}
      /\ \A i \in DOMAIN a \ {id} : n[i] = a[i]
  BY <1>2
<1>8. m.windows = l.windows /\ m.rows = l.rows /\ m.attempts = n
  BY <1>5
<1> QED
  BY <1>5, <1>6, <1>7, <1>8 DEF a

(* An attempt changes nothing but itself.                                  *)
OnlyAttempt(l, m, id) ==
  /\ m.windows = l.windows /\ m.rows = l.rows
  /\ DOMAIN l.attempts \subseteq DOMAIN m.attempts
  /\ DOMAIN m.attempts \subseteq DOMAIN l.attempts \cup {id}
  /\ \A i : i # id => AttemptOf(m, i) = AttemptOf(l, i)

LEMMA OnlyAttemptKeeps ==
  ASSUME NEW l, NEW m, NEW id, OnlyAttempt(l, m, id)
  PROVE  /\ Books(l) => Books(m)
         /\ \A i : RowsOf(m, i) = RowsOf(l, i)
         /\ \A i : /\ Requested(m, i) = Requested(l, i) /\ Charged(m, i) = Charged(l, i)
                   /\ IsSettled(m, i) <=> IsSettled(l, i)
<1>1. \A i : RowsOf(m, i) = RowsOf(l, i)
  BY DEF OnlyAttempt, RowsOf
<1>2. \A b, w : /\ RowsIn(m, b, w) = RowsIn(l, b, w)
  BY DEF OnlyAttempt, RowsIn
<1>3. Books(l) => Books(m)
  BY <1>2 DEF OnlyAttempt, Books, RowsAgree, WindowBalances
<1> QED
  BY <1>1, <1>3, UntouchedSaysTheSame

LEMMA FinishKeeps ==
  ASSUME NEW I, NEW l \in Ledgers(I), NEW id \in I, NEW outcome \in AttemptStates
  PROVE  LET m == FinishAttempt(l, id, outcome) IN
         /\ m \in Ledgers(I) /\ OnlyAttempt(l, m, id)
         /\ id \in DOMAIN m.attempts /\ m.attempts[id] = outcome
<1> DEFINE m == FinishAttempt(l, id, outcome)
<1>0. NotedAs(l, m, id, outcome)
  BY DEF FinishAttempt, NotedAs
<1> HIDE DEF m
<1>1. /\ m \in Ledgers(I) /\ m.windows = l.windows /\ m.rows = l.rows
      /\ DOMAIN m.attempts = DOMAIN l.attempts \cup {id}
      /\ \A i \in DOMAIN l.attempts \ {id} : m.attempts[i] = l.attempts[i]
      /\ m.attempts[id] = outcome
  BY <1>0, NotedIs
<1> QED
  BY <1>1 DEF OnlyAttempt, AttemptOf, m

LEMMA BeginKeeps ==
  ASSUME NEW I, NEW l \in Ledgers(I), NEW id \in I
  PROVE  LET m == BeginAttempt(l, id) IN
         /\ m \in Ledgers(I) /\ OnlyAttempt(l, m, id)
         /\ id \in DOMAIN m.attempts
         /\ m.attempts[id] = "started" \/ (id \in DOMAIN l.attempts /\ m.attempts[id] = l.attempts[id])
<1> DEFINE m == BeginAttempt(l, id)
<1>0. /\ \A i \in DOMAIN l.attempts : l.attempts[i] # "none"
      /\ "started" \in AttemptStates
  BY LedgerParts DEF AttemptStates
<1>1. CASE id \in DOMAIN l.attempts
  BY <1>0, <1>1 DEF BeginAttempt, AttemptOf, OnlyAttempt
<1>2. CASE id \notin DOMAIN l.attempts
  <2>0. NotedAs(l, m, id, "started")
    BY <1>2 DEF BeginAttempt, AttemptOf, NotedAs
  <2> HIDE DEF m
  <2>1. /\ m \in Ledgers(I) /\ m.windows = l.windows /\ m.rows = l.rows
        /\ DOMAIN m.attempts = DOMAIN l.attempts \cup {id}
        /\ \A i \in DOMAIN l.attempts \ {id} : m.attempts[i] = l.attempts[i]
        /\ m.attempts[id] = "started"
    BY <1>0, <2>0, NotedIs
  <2> QED
    BY <1>2, <2>1 DEF OnlyAttempt, AttemptOf, m
<1> QED
  BY <1>1, <1>2

-----------------------------------------------------------------------------
(* Folds over a ledger. FoldExists gives a function g that folds; these    *)
(* say what it reaches, and that it is the one FoldSet chooses.            *)

LEMMA FoldReaches ==
  ASSUME NEW S, IsFiniteSet(S), NEW L, NEW base, NEW F, NEW g, Folds(g, S, L, base, F),
         NEW Q, <<{}, base>> \in Q,
         \A T \in SUBSET S, x \in S, l \in L :
           x \notin T /\ <<T, l>> \in Q => <<T \cup {x}, F[<<x, l>>]>> \in Q
  PROVE  g[S] \in L /\ <<S, g[S]>> \in Q
<1> DEFINE R == {T \in SUBSET S : <<T, g[T]>> \in Q}
<1>1. ASSUME NEW T \in SUBSET S, \A U \in SUBSET T : U # T => U \in R
      PROVE  T \in R
  <2>1. CASE T = {}
    <3>1. g[T] = base
      BY <2>1 DEF Folds
    <3> QED
      BY <2>1, <3>1
  <2>2. CASE T # {}
    <3> DEFINE x == First(T)
               U == T \ {x}
    <3>1. x \in T /\ x \in S
      BY <2>2, FirstOf
    <3>2. U \in SUBSET T /\ U # T /\ U \in SUBSET S /\ x \notin U /\ T = U \cup {x}
      BY <3>1
    <3>3. g[T] = F[<<x, g[U]>>] /\ g[U] \in L
      BY <2>2, <3>2 DEF Folds
    <3> HIDE DEF x, U
    <3>4. <<U, g[U]>> \in Q
      BY <1>1, <3>2
    <3>5. <<U \cup {x}, F[<<x, g[U]>>]>> \in Q
      BY <3>1, <3>2, <3>3, <3>4
    <3> QED
      BY <3>2, <3>3, <3>5
  <2> QED
    BY <2>1, <2>2
<1> HIDE DEF R
<1>2. \A T \in SUBSET S : T \in R
  BY <1>1, SubsetInduction
<1> QED
  BY <1>2 DEF R, Folds

LEMMA FoldsOnce ==
  ASSUME NEW S, IsFiniteSet(S), NEW L, NEW base, NEW F, NEW g, Folds(g, S, L, base, F),
         NEW h, h[{}] = base,
         \A s \in SUBSET S : s # {} /\ h[s \ {First(s)}] = g[s \ {First(s)}]
                               => h[s] = F[<<First(s), g[s \ {First(s)}]>>]
  PROVE  h[S] = g[S]
<1> DEFINE Q == {T \in SUBSET S : h[T] = g[T]}
<1>1. ASSUME NEW T \in SUBSET S, \A U \in SUBSET T : U # T => U \in Q
      PROVE  T \in Q
  <2>1. CASE T = {}
    BY <2>1 DEF Folds
  <2>2. CASE T # {}
    <3>1. T \ {First(T)} \in SUBSET T /\ T \ {First(T)} # T
      BY <2>2, FirstOf
    <3>2. h[T \ {First(T)}] = g[T \ {First(T)}]
      BY <1>1, <3>1
    <3> QED
      BY <2>2, <3>2 DEF Folds
  <2> QED
    BY <2>1, <2>2
<1> HIDE DEF Q
<1>2. \A T \in SUBSET S : T \in Q
  BY <1>1, SubsetInduction
<1> QED
  BY <1>2 DEF Q

(* Settling a reservation of one unit and finishing its attempt.           *)
UnitRows(l, P) == \A r \in l.rows : r.id \in P => r.requested = 1 /\ r.actual \in {Unsettled, 1}
UnitBooks(I, P) == {l \in Ledgers(I) : Books(l) /\ UnitRows(l, P)}
Close(l, id, outcome) == FinishAttempt(Settle(l, id, 1), id, outcome)

LEMMA UnitsSay ==
  ASSUME NEW I, NEW P, NEW l \in UnitBooks(I, P), NEW id \in P, RowsOf(l, id) # {}
  PROVE  /\ Requested(l, id) = 1 /\ Charged(l, id) \in {Unsettled, 1}
         /\ IsSettled(l, id) <=> Charged(l, id) = 1
<1>1. PICK r \in RowsOf(l, id) : TRUE
  OBVIOUS
<1>2. Requested(l, id) = r.requested /\ Charged(l, id) = r.actual /\ r \in l.rows /\ r.id = id
  BY RowsSay DEF UnitBooks, Books, RowsOf
<1> QED
  BY <1>2 DEF UnitBooks, UnitRows, IsSettled, Unsettled

LEMMA CloseKeeps ==
  ASSUME NEW I, NEW P \in SUBSET I, NEW l \in UnitBooks(I, P), NEW id \in P, RowsOf(l, id) # {},
         NEW outcome \in AttemptStates
  PROVE  LET m == Close(l, id, outcome) IN
         /\ m \in UnitBooks(I, P) /\ Touches(l, m, {id})
         /\ RowsOf(m, id) # {} /\ IsSettled(m, id) /\ AttemptOf(m, id) = outcome
         /\ DOMAIN l.attempts \subseteq DOMAIN m.attempts
         /\ DOMAIN m.attempts \subseteq DOMAIN l.attempts \cup {id}
<1> DEFINE n == Settle(l, id, 1)
           m == Close(l, id, outcome)
<1>1. /\ Requested(l, id) = 1 /\ Charged(l, id) \in {Unsettled, 1}
      /\ IsSettled(l, id) <=> Charged(l, id) = 1
  BY UnitsSay
<1>2. /\ n \in Ledgers(I) /\ Books(n) /\ n.attempts = l.attempts
      /\ \A i : i # id => RowsOf(n, i) = RowsOf(l, i)
      /\ RowsOf(n, id) # {} /\ IsSettled(n, id) /\ Requested(n, id) = 1 /\ Charged(n, id) = 1
  <2>1. Books(l) /\ l \in Ledgers(I)
    BY DEF UnitBooks
  <2> QED
    BY <1>1, <2>1, SettleKeeps
<1> HIDE DEF n
<1>3. UnitRows(n, P)
  <2> SUFFICES ASSUME NEW r \in n.rows, r.id \in P PROVE r.requested = 1 /\ r.actual \in {Unsettled, 1}
    BY DEF UnitRows
  <2>1. CASE r.id = id
    <3>1. Requested(n, id) = r.requested /\ Charged(n, id) = r.actual
      BY <1>2, <2>1, RowsSay DEF Books, RowsOf
    <3> QED
      BY <1>2, <3>1
  <2>2. CASE r.id # id
    <3>1. r \in RowsOf(n, r.id)
      BY DEF RowsOf
    <3>2. r \in RowsOf(l, r.id)
      BY <1>2, <2>2, <3>1
    <3>3. r \in l.rows
      BY <3>2 DEF RowsOf
    <3> QED
      BY <3>3 DEF UnitBooks, UnitRows
  <2> QED
    BY <2>1, <2>2
<1>4. m = FinishAttempt(n, id, outcome)
  BY DEF Close, n
<1>5. m \in Ledgers(I) /\ OnlyAttempt(n, m, id) /\ id \in DOMAIN m.attempts /\ m.attempts[id] = outcome
  BY <1>2, <1>4, FinishKeeps
<1> HIDE DEF m
<1>6. /\ Books(m) /\ \A i : RowsOf(m, i) = RowsOf(n, i)
      /\ IsSettled(m, id) /\ UnitRows(m, P)
  BY <1>2, <1>3, <1>5, OnlyAttemptKeeps DEF OnlyAttempt, UnitRows
<1>7. Touches(l, m, {id})
  BY <1>2, <1>5, <1>6 DEF Touches, OnlyAttempt, AttemptOf
<1> QED
  BY <1>2, <1>5, <1>6, <1>7 DEF UnitBooks, OnlyAttempt, AttemptOf, m

(* What closing every reservation of a set leaves.                         *)
Rowed(I, P, S) == {l \in UnitBooks(I, P) : \A id \in S : RowsOf(l, id) # {}}
ClosedAll(I, P, l, m, S, outcome) ==
  /\ m \in UnitBooks(I, P) /\ Touches(l, m, S)
  /\ \A id \in S : RowsOf(m, id) # {} /\ IsSettled(m, id) /\ AttemptOf(m, id) = outcome
  /\ DOMAIN l.attempts \subseteq DOMAIN m.attempts
  /\ DOMAIN m.attempts \subseteq DOMAIN l.attempts \cup S
Closing(I, P, S, outcome) == [p \in S \X Rowed(I, P, S) |-> Close(p[2], p[1], outcome)]

LEMMA ClosingCloses ==
  ASSUME NEW I, NEW P \in SUBSET I, NEW S \in SUBSET P, NEW outcome \in AttemptStates
  PROVE  /\ Closing(I, P, S, outcome) \in [S \X Rowed(I, P, S) -> Rowed(I, P, S)]
         /\ \A id \in S, l \in Rowed(I, P, S) :
              /\ Closing(I, P, S, outcome)[<<id, l>>] = Close(l, id, outcome)
              /\ ClosedAll(I, P, l, Close(l, id, outcome), {id}, outcome)
<1>1. ASSUME NEW id \in S, NEW l \in Rowed(I, P, S)
      PROVE  /\ Close(l, id, outcome) \in Rowed(I, P, S)
             /\ ClosedAll(I, P, l, Close(l, id, outcome), {id}, outcome)
  <2> DEFINE m == Close(l, id, outcome)
  <2>1. l \in UnitBooks(I, P) /\ id \in I /\ \A i \in S : RowsOf(l, i) # {}
    BY DEF Rowed
  <2>2. /\ m \in UnitBooks(I, P) /\ Touches(l, m, {id})
        /\ RowsOf(m, id) # {} /\ IsSettled(m, id) /\ AttemptOf(m, id) = outcome
        /\ DOMAIN l.attempts \subseteq DOMAIN m.attempts
        /\ DOMAIN m.attempts \subseteq DOMAIN l.attempts \cup {id}
    BY <2>1, CloseKeeps
  <2> HIDE DEF m
  <2>3. \A i \in S : RowsOf(m, i) # {}
    BY <2>1, <2>2 DEF Touches
  <2> QED
    BY <2>2, <2>3 DEF Rowed, ClosedAll, m
<1>2. \A id \in S, l \in Rowed(I, P, S) :
        Closing(I, P, S, outcome)[<<id, l>>] = Close(l, id, outcome)
  BY DEF Closing
<1>3. \A p \in S \X Rowed(I, P, S) : Close(p[2], p[1], outcome) \in Rowed(I, P, S)
  BY <1>1
<1>4. Closing(I, P, S, outcome) \in [S \X Rowed(I, P, S) -> Rowed(I, P, S)]
  BY <1>3 DEF Closing
<1> QED
  BY <1>1, <1>2, <1>4

LEMMA ClosesAll ==
  ASSUME NEW I, NEW P \in SUBSET I, NEW S \in SUBSET P, IsFiniteSet(S), NEW base \in Rowed(I, P, S),
         NEW outcome \in AttemptStates,
         NEW g, Folds(g, S, Rowed(I, P, S), base, Closing(I, P, S, outcome))
  PROVE  ClosedAll(I, P, base, g[S], S, outcome)
<1> DEFINE L == Rowed(I, P, S)
           F == Closing(I, P, S, outcome)
           Q == {p \in (SUBSET S) \X L : ClosedAll(I, P, base, p[2], p[1], outcome)}
<1>1. ClosedAll(I, P, base, base, {}, outcome)
  BY DEF ClosedAll, Touches, Rowed
<1>2. <<{}, base>> \in Q
  BY <1>1
<1>0. /\ F \in [S \X L -> L]
      /\ \A id \in S, l \in L : /\ F[<<id, l>>] = Close(l, id, outcome)
                                /\ ClosedAll(I, P, l, Close(l, id, outcome), {id}, outcome)
  BY ClosingCloses
<1>3. ASSUME NEW T \in SUBSET S, NEW x \in S, NEW l \in L, x \notin T, <<T, l>> \in Q
      PROVE  <<T \cup {x}, F[<<x, l>>]>> \in Q
  <2> DEFINE m == F[<<x, l>>]
  <2>1. ClosedAll(I, P, base, l, T, outcome)
    BY <1>3
  <2> HIDE DEF L, F
  <2>2. m \in L /\ ClosedAll(I, P, l, m, {x}, outcome)
    BY <1>0
  <2> HIDE DEF m
  <2>3. ClosedAll(I, P, base, m, T \cup {x}, outcome)
    <3>1. m \in UnitBooks(I, P) /\ Touches(base, m, T \cup {x})
      BY <2>1, <2>2, TouchesMore DEF ClosedAll
    <3>2. ASSUME NEW i \in T, i # x
          PROVE  RowsOf(m, i) # {} /\ IsSettled(m, i) /\ AttemptOf(m, i) = outcome
      <4>1. RowsOf(m, i) = RowsOf(l, i) /\ AttemptOf(m, i) = AttemptOf(l, i)
        BY <2>2, <3>2 DEF ClosedAll, Touches
      <4> QED
        BY <2>1, <4>1, UntouchedSaysTheSame DEF ClosedAll
    <3> QED
      BY <2>1, <2>2, <3>1, <3>2 DEF ClosedAll
  <2>4. <<T \cup {x}, m>> \in (SUBSET S) \X L
    BY <2>2
  <2> QED
    BY <2>3, <2>4 DEF m
<1> HIDE DEF Q, L, F
<1>4. <<S, g[S]>> \in Q
  BY <1>2, <1>3, FoldReaches DEF L, F
<1> QED
  BY <1>4 DEF Q

(* FoldSet computes such a fold, whatever order it takes the set in.       *)
ClosingFold(g, I, P, S, base, outcome) ==
  /\ Folds(g, S, Rowed(I, P, S), base, Closing(I, P, S, outcome))
  /\ g \in [SUBSET S -> Rowed(I, P, S)]
  /\ \A s \in SUBSET S : s # {} =>
       /\ First(s) \in S /\ g[s \ {First(s)}] \in Rowed(I, P, S)
       /\ g[s] = Close(g[s \ {First(s)}], First(s), outcome)

LEMMA ClosingExists ==
  ASSUME NEW I, NEW P \in SUBSET I, NEW S \in SUBSET P, IsFiniteSet(S), NEW base \in Rowed(I, P, S),
         NEW outcome \in AttemptStates
  PROVE  \E g : ClosingFold(g, I, P, S, base, outcome)
<1>1. /\ Closing(I, P, S, outcome) \in [S \X Rowed(I, P, S) -> Rowed(I, P, S)]
      /\ \A id \in S, l \in Rowed(I, P, S) :
           /\ Closing(I, P, S, outcome)[<<id, l>>] = Close(l, id, outcome)
           /\ ClosedAll(I, P, l, Close(l, id, outcome), {id}, outcome)
  BY ClosingCloses
<1>2. PICK g : Folds(g, S, Rowed(I, P, S), base, Closing(I, P, S, outcome))
  BY <1>1, FoldExists
<1>3. ASSUME NEW s \in SUBSET S, s # {}
      PROVE  /\ First(s) \in S /\ g[s \ {First(s)}] \in Rowed(I, P, S)
             /\ g[s] = Close(g[s \ {First(s)}], First(s), outcome)
  <2>1. First(s) \in S /\ s \ {First(s)} \in SUBSET S
    BY <1>3, FirstOf
  <2>2. g[s \ {First(s)}] \in Rowed(I, P, S)
    BY <1>2, <2>1 DEF Folds
  <2>3. g[s] = Closing(I, P, S, outcome)[<<First(s), g[s \ {First(s)}]>>]
    BY <1>2, <1>3 DEF Folds
  <2> QED
    BY <1>1, <2>1, <2>2, <2>3
<1> QED
  BY <1>2, <1>3 DEF Folds, ClosingFold

(* So does any function built by the same step.                            *)
LEMMA ClosingReaches ==
  ASSUME NEW I, NEW P \in SUBSET I, NEW S \in SUBSET P, IsFiniteSet(S), NEW base \in Rowed(I, P, S),
         NEW outcome \in AttemptStates, NEW g, ClosingFold(g, I, P, S, base, outcome),
         NEW h, h[{}] = base,
         \A s \in SUBSET S : s # {} /\ h[s \ {First(s)}] = g[s \ {First(s)}] => h[s] = g[s]
  PROVE  ClosedAll(I, P, base, h[S], S, outcome)
<1>1. /\ Folds(g, S, Rowed(I, P, S), base, Closing(I, P, S, outcome))
      /\ \A s \in SUBSET S : s # {} =>
           g[s] = Closing(I, P, S, outcome)[<<First(s), g[s \ {First(s)}]>>]
  BY DEF ClosingFold, Folds
<1>2. h[S] = g[S]
  BY <1>1, FoldsOnce
<1> QED
  BY <1>1, <1>2, ClosesAll

LEMMA RecoverCloses ==
  ASSUME NEW I, NEW P \in SUBSET I, NEW l \in UnitBooks(I, P), NEW ids \in SUBSET P,
         IsFiniteSet(ids), \A id \in DOMAIN l.attempts \cap P : RowsOf(l, id) # {}
  PROVE  ClosedAll(I, P, l, RecoverAttempts(l, ids),
                   {id \in ids : AttemptOf(l, id) = "started"}, "failed")
<1> DEFINE S == {id \in ids : AttemptOf(l, id) = "started"}
           op(id, rest) == FinishAttempt(Settle(rest, id, Requested(rest, id)), id, "failed")
           Step(h, s) == IF s = {} THEN l
                         ELSE op(CHOOSE x \in s : TRUE, h[s \ {CHOOSE x \in s : TRUE}])
           iter == CHOOSE h : h = [s \in SUBSET S |-> Step(h, s)]
<1>1. RecoverAttempts(l, ids) = iter[S]
  BY DEF RecoverAttempts, FoldSet, MapThenFoldSet
<1>2. IsFiniteSet(S) /\ S \in SUBSET P /\ l \in Rowed(I, P, S) /\ "failed" \in AttemptStates
  <2>1. S \subseteq ids /\ S \subseteq DOMAIN l.attempts
    BY DEF AttemptOf
  <2> HIDE DEF S
  <2> QED
    BY <2>1, FS_Subset DEF Rowed, AttemptStates
<1> HIDE DEF S
<1>3. PICK g : ClosingFold(g, I, P, S, l, "failed")
  BY <1>2, ClosingExists
<1>4. ASSUME NEW s \in SUBSET S, s # {}
      PROVE  g[s] = op(First(s), g[s \ {First(s)}])
  <2> DEFINE m == g[s \ {First(s)}]
  <2>1. First(s) \in S /\ m \in Rowed(I, P, S) /\ g[s] = Close(m, First(s), "failed")
    BY <1>3, <1>4 DEF ClosingFold
  <2> HIDE DEF m
  <2>2. m \in UnitBooks(I, P) /\ RowsOf(m, First(s)) # {} /\ First(s) \in P
    BY <1>2, <2>1 DEF Rowed
  <2>3. Requested(m, First(s)) = 1
    BY <2>2, UnitsSay
  <2> QED
    BY <2>1, <2>3 DEF Close, m
<1>5. g[{}] = l /\ g \in [SUBSET S -> Rowed(I, P, S)]
  BY <1>3 DEF ClosingFold, Folds
<1> HIDE DEF op
<1>6. \A s \in SUBSET S : iter[s] = Step(iter, s)
  <2>1. g = [s \in SUBSET S |-> Step(g, s)]
    BY <1>4, <1>5 DEF First
  <2> HIDE DEF Step
  <2>2. iter = [s \in SUBSET S |-> Step(iter, s)]
    BY <2>1
  <2> HIDE DEF iter
  <2> QED
    BY <2>2
<1> HIDE DEF iter
<1>7. iter[{}] = l
  BY <1>6
<1>8. \A s \in SUBSET S : s # {} /\ iter[s \ {First(s)}] = g[s \ {First(s)}] => iter[s] = g[s]
  BY <1>4, <1>6 DEF First
<1>9. ClosedAll(I, P, l, iter[S], S, "failed")
  BY <1>2, <1>3, <1>7, <1>8, ClosingReaches
<1> QED
  BY <1>1, <1>9 DEF S

-----------------------------------------------------------------------------
(* Policies, time and the empty ledger.                                    *)

LEMMA LedgerStarts ==
  ASSUME LedgerInit, NEW I
  PROVE  /\ PoliciesTyped /\ ledger \in Ledgers(I) /\ Books(ledger)
         /\ ledger.rows = {} /\ DOMAIN ledger.attempts = {}
<1>1. /\ policy = [b \in Budgets |-> [limit |-> b.limit, enabled |-> TRUE, version |-> 1]]
      /\ now = 0
  BY DEF LedgerInit
<1>2. PoliciesTyped
  BY <1>1, BudgetsAssumption DEF PoliciesTyped
<1> DEFINE W == [b \in Budgets |-> [w \in 0 .. MaxTime |-> [used |-> 0, reserved |-> 0]]]
<1>3. ledger = [windows |-> W, rows |-> {}, attempts |-> <<>>]
  BY DEF LedgerInit
<1>4. W \in WindowTables
  BY DEF WindowTables
<1>5. <<>> \in [{} -> AttemptStates] /\ {} \in SUBSET I
  OBVIOUS
<1>6. <<>> \in AttemptTables(I)
  BY <1>5 DEF AttemptTables
<1>7. {} \in {R \in SUBSET RowSet(I) : IsFiniteSet(R)}
  BY FS_EmptySet
<1>8. ledger \in Ledgers(I)
  BY <1>3, <1>4, <1>6, <1>7 DEF Ledgers
<1>9. ledger.rows = {} /\ DOMAIN ledger.attempts = {}
  BY <1>3
<1>10. ASSUME NEW b \in Budgets, NEW w \in 0 .. MaxTime
       PROVE  WindowBalances(ledger, b, w) /\ WindowKept(RowsIn(ledger, b, w))
  <2>1. RowsIn(ledger, b, w) = {}
    BY <1>9 DEF RowsIn
  <2>2. OpenRows({}) = {} /\ {} \ OpenRows({}) = {}
    BY DEF OpenRows
  <2>3. RequestedIn({}) = 0 /\ ChargedIn({}) = 0
    BY RowSums, FS_EmptySet
  <2>4. ledger.windows[b][w].used = 0 /\ ledger.windows[b][w].reserved = 0
    BY <1>3
  <2> QED
    BY <2>1, <2>2, <2>3, <2>4 DEF WindowBalances, WindowKept
<1> QED
  BY <1>2, <1>8, <1>9, <1>10 DEF Books, RowsAgree

LEMMA LedgerIsTyped ==
  ASSUME NEW I, PoliciesTyped, ledger \in Ledgers(I), Books(ledger)
  PROVE  LedgerTypeOK
<1>1. /\ ledger.windows \in WindowTables /\ ledger.rows \subseteq RowSet(I)
      /\ \A id \in DOMAIN ledger.attempts : ledger.attempts[id] \in AttemptStates
  BY LedgerParts
<1>2. \A r \in ledger.rows : /\ r.budget \in Budgets /\ r.window \in 0 .. MaxTime
                             /\ r.requested \in Nat \ {0} /\ r.actual \in Nat \cup {Unsettled}
  BY <1>1, RowRecords
<1>3. DOMAIN ledger.windows = Budgets
  BY <1>1 DEF WindowTables
<1>4. \A b \in Budgets, w \in 0 .. MaxTime :
        ledger.windows[b][w].used \in Nat /\ ledger.windows[b][w].reserved \in Nat
  BY BooksBalance
<1> QED
  BY <1>1, <1>2, <1>3, <1>4 DEF LedgerTypeOK, AttemptStates, PoliciesTyped

LEMMA PoliciesMove ==
  ASSUME PoliciesTyped, (\E b \in Budgets : SavePolicy(b)) \/ Tick
  PROVE  PoliciesTyped' /\ ledger' = ledger
<1>1. ASSUME NEW b \in Budgets, SavePolicy(b) PROVE PoliciesTyped' /\ ledger' = ledger
  <2>1. PICK limit \in Limits, enabled \in BOOLEAN :
          policy' = [policy EXCEPT ![b] = [limit |-> limit, enabled |-> enabled,
                                            version |-> @.version + 1]]
    BY <1>1 DEF SavePolicy
  <2>2. limit \in Nat /\ policy[b].version + 1 \in 1 .. MaxVersion
    BY <1>1, BudgetsAssumption DEF PoliciesTyped, SavePolicy
  <2>3. [limit |-> limit, enabled |-> enabled, version |-> policy[b].version + 1]
          \in [limit : Nat, enabled : BOOLEAN, version : 1 .. MaxVersion]
    BY <2>2
  <2>4. policy' \in [Budgets -> [limit : Nat, enabled : BOOLEAN, version : 1 .. MaxVersion]]
    BY <2>1, <2>3 DEF PoliciesTyped
  <2> QED
    BY <1>1, <2>4 DEF PoliciesTyped, SavePolicy
<1>2. ASSUME Tick PROVE PoliciesTyped' /\ ledger' = ledger
  BY <1>2, BudgetsAssumption DEF Tick, PoliciesTyped
<1> QED
  BY <1>1, <1>2
=============================================================================

---------------------- MODULE CollectionScheduleProofs ----------------------
(***************************************************************************)
(* What TLAPS proves of CollectionSchedule, for any topics, intervals,     *)
(* quiet instants and bounds.                                              *)
(***************************************************************************)
EXTENDS CollectionSchedule, FiniteSetTheorems, TLAPS

(* Numbers: a bounded set of integers has a maximum and a minimum.         *)
LEMMA Greatest ==
  ASSUME NEW S \in SUBSET Nat, S # {}, NEW b \in Nat, \A x \in S : x <= b
  PROVE  \E n \in S : \A m \in S : m <= n
<1> DEFINE T == {x \in 0 .. b : \E y \in S : x <= y}
           c == Cardinality(T)
<1>1. S \subseteq T /\ T \subseteq Nat
  OBVIOUS
<1>2. \A x \in T, z \in Nat : z <= x => z \in T
  OBVIOUS
<1>3. IsFiniteSet(T) /\ c \in Nat
  <2>1. IsFiniteSet(0 .. b)
    BY FS_Interval, 0 \in Int, b \in Int
  <2>2. T \in SUBSET (0 .. b)
    OBVIOUS
  <2> QED
    BY <2>1, <2>2, FS_Subset, FS_CardinalityType
<1> HIDE DEF T
<1>4. \A k \in Nat : IsFiniteSet(0 .. k - 1) /\ Cardinality(0 .. k - 1) = k
  <2> SUFFICES ASSUME NEW k \in Nat
               PROVE  IsFiniteSet(0 .. k - 1) /\ Cardinality(0 .. k - 1) = k
    OBVIOUS
  <2>1. 0 \in Int /\ k - 1 \in Int
    OBVIOUS
  <2> QED
    BY <2>1, FS_Interval
<1>5. c \notin T
  <2> SUFFICES ASSUME c \in T PROVE FALSE
    OBVIOUS
  <2>1. 0 .. (c + 1) - 1 \in SUBSET T
    BY <1>2, <1>3
  <2>2. c + 1 <= c
    <3>1. Cardinality(0 .. (c + 1) - 1) <= Cardinality(T)
      BY <1>3, <2>1, FS_Subset
    <3>2. c + 1 \in Nat
      BY <1>3
    <3> QED
      BY <1>4, <3>1, <3>2
  <2> QED
    BY <1>3, <2>2
<1>6. T \in SUBSET (0 .. c - 1)
  BY <1>1, <1>2, <1>3, <1>5
<1>7. T = 0 .. c - 1
  BY <1>3, <1>4, <1>6, FS_Subset
<1>8. c > 0
  <2>1. \E x \in Nat : x \in 0 .. c - 1
    BY <1>1, <1>7
  <2> QED
    BY <1>3, <2>1
<1>9. PICK n \in S : c - 1 <= n
  <2>1. c - 1 \in T
    BY <1>3, <1>7, <1>8
  <2> QED
    BY <2>1 DEF T
<1>10. \A m \in S : m <= n
  BY <1>1, <1>3, <1>7, <1>9
<1> QED
  BY <1>9, <1>10

LEMMA MaxOf ==
  ASSUME NEW S \in SUBSET Int, S # {}, NEW a \in Int, NEW b \in Int,
         \A x \in S : a <= x /\ x <= b
  PROVE  Max(S) \in S /\ \A x \in S : x <= Max(S)
<1> DEFINE T == {x - a : x \in S}
<1>1. T \in SUBSET Nat /\ T # {} /\ b - a \in Nat /\ \A x \in T : x <= b - a
  <2>1. \A x \in S : x \in Int /\ x - a \in Nat /\ x - a <= b - a
    OBVIOUS
  <2>2. PICK x \in S : x - a \in T
    OBVIOUS
  <2>3. T # {} /\ b - a \in Nat
    BY <2>1, <2>2
  <2> QED
    BY <2>1, <2>3
<1>2. PICK n \in T : \A m \in T : m <= n
  <2> HIDE DEF T
  <2> QED
    BY <1>1, Greatest
<1>3. PICK x \in S : n = x - a
  BY <1>2
<1>4. \A y \in S : x >= y
  <2> SUFFICES ASSUME NEW y \in S PROVE x >= y
    OBVIOUS
  <2>1. y - a \in T /\ y \in Int /\ x \in Int
    OBVIOUS
  <2>2. y - a <= x - a
    BY <1>2, <1>3, <2>1
  <2> QED
    BY <2>1, <2>2
<1>5. Max(S) \in S /\ \A y \in S : Max(S) >= y
  BY <1>4 DEF Max
<1> QED
  BY <1>5

LEMMA MinOf ==
  ASSUME NEW S \in SUBSET Int, S # {}, NEW a \in Int, NEW b \in Int,
         \A x \in S : a <= x /\ x <= b
  PROVE  Min(S) \in S /\ \A x \in S : Min(S) <= x
<1> DEFINE T == {b - x : x \in S}
<1>1. T \in SUBSET Nat /\ T # {} /\ b - a \in Nat /\ \A x \in T : x <= b - a
  <2>1. \A x \in S : x \in Int /\ b - x \in Nat /\ b - x <= b - a
    OBVIOUS
  <2>2. PICK x \in S : b - x \in T
    OBVIOUS
  <2>3. T # {} /\ b - a \in Nat
    BY <2>1, <2>2
  <2> QED
    BY <2>1, <2>3
<1>2. PICK n \in T : \A m \in T : m <= n
  <2> HIDE DEF T
  <2> QED
    BY <1>1, Greatest
<1>3. PICK x \in S : n = b - x
  BY <1>2
<1>4. \A y \in S : x =< y
  <2> SUFFICES ASSUME NEW y \in S PROVE x =< y
    OBVIOUS
  <2>1. b - y \in T /\ y \in Int /\ x \in Int
    OBVIOUS
  <2>2. b - y <= b - x
    BY <1>2, <1>3, <2>1
  <2> QED
    BY <2>1, <2>2
<1>5. Min(S) \in S /\ \A y \in S : Min(S) =< y
  BY <1>4 DEF Min
<1> QED
  BY <1>5

LEMMA Quotient ==
  ASSUME NEW a \in Nat, NEW i \in Nat \ {0}
  PROVE  a \div i \in Nat /\ (a \div i) * i <= a /\ a < (a \div i) * i + i
  OBVIOUS

(* The due points of a cursor: an interval apart, from it up to the scan.  *)
PointsUpTo(next, i, at) == {next + k * i : k \in 0 .. (at - next) \div i}

LEMMA PointFacts ==
  ASSUME NEW next \in Nat, NEW i \in Nat \ {0}, NEW at \in Nat, next <= at
  PROVE  /\ PointsUpTo(next, i, at) \subseteq next .. at
         /\ next \in PointsUpTo(next, i, at)
         /\ Max(PointsUpTo(next, i, at)) \in PointsUpTo(next, i, at)
         /\ \A d \in PointsUpTo(next, i, at) :
              /\ d <= Max(PointsUpTo(next, i, at))
              /\ d # Max(PointsUpTo(next, i, at)) => d + i \in PointsUpTo(next, i, at)
         /\ at < Max(PointsUpTo(next, i, at)) + i
<1> DEFINE P == PointsUpTo(next, i, at)
           q == (at - next) \div i
<1>1. q \in Nat /\ q * i <= at - next /\ at - next < q * i + i
  BY Quotient
<1> HIDE DEF q
<1>2. P = {next + k * i : k \in 0 .. q}
  BY DEF PointsUpTo, q
<1> HIDE DEF P
<1>3. \A k \in 0 .. q : k * i \in Nat /\ k * i <= q * i /\ (k + 1) * i = k * i + i
  BY <1>1
<1>4. P \subseteq next .. at
  BY <1>1, <1>2, <1>3
<1>5. next \in P
  <2>1. 0 \in 0 .. q /\ 0 * i = 0
    BY <1>1
  <2> QED
    BY <1>2, <2>1
<1>6. Max(P) \in P /\ \A d \in P : d <= Max(P)
  <2>1. /\ P \in SUBSET Int /\ P # {} /\ next \in Int /\ at \in Int
        /\ \A x \in P : next <= x /\ x <= at
    BY <1>4, <1>5
  <2> QED
    BY <2>1, MaxOf
<1>m. PICK m \in next .. at : m = Max(P) /\ m \in P /\ \A d \in P : d <= m
  BY <1>4, <1>6
<1>7. next + q * i \in P
  BY <1>1, <1>2
<1>8. at < Max(P) + i
  BY <1>1, <1>m, <1>7
<1>9. ASSUME NEW d \in P, d # Max(P) PROVE d + i \in P
  <2>1. PICK k \in 0 .. q : d = next + k * i
    BY <1>2
  <2>2. k # q
    <3>1. Max(P) <= next + q * i
      <4>1. PICK j \in 0 .. q : Max(P) = next + j * i
        BY <1>2, <1>m
      <4> QED
        BY <1>1, <1>3, <4>1
    <3>2. d <= Max(P) /\ d \in Int /\ Max(P) \in Int
      BY <1>4, <1>m
    <3> QED
      BY <1>1, <1>9, <2>1, <3>1, <3>2
  <2>3. k + 1 \in 0 .. q /\ d + i = next + (k + 1) * i
    BY <1>1, <1>3, <2>1, <2>2
  <2> QED
    BY <1>2, <2>3
<1> QED
  BY <1>4, <1>5, <1>6, <1>8, <1>9 DEF P

-----------------------------------------------------------------------------
(* Types: the rows, the ledger's records and the jobs.                     *)
SearchJobs == [topic : Topics, entry : {"scheduled", "manual"}, row : Nat,
               created : Nat, start : Int, end : Nat]
Schedules == [on : BOOLEAN, row : Nat, enabled : BOOLEAN, interval : Intervals,
              next : Nat, last : SearchJobs \cup {NoJob}]
DuePoints == [state : {"pending", "accepted", "skipped", "missed"}, start : Int, row : Nat]
Manuals == [pc : {"idle", "read", "locked"}, at : Nat, runs : Nat]
Scans == [at : Nat, locked : SUBSET Topics, left : SUBSET Topics, source : BOOLEAN]

ClockTyped == now \in 0 .. MaxTime
StatusTyped == status \in [Topics -> {"active", "paused", "archived"}]
RowsTyped ==
  /\ schedule \in [Topics -> Schedules]
  /\ \A t \in Topics : schedule[t].last \in jobs \cup {NoJob}
DueTyped ==
  /\ DOMAIN due = Topics /\ due = [t \in Topics |-> due[t]]
  /\ \A t \in Topics :
       DOMAIN due[t] \subseteq 0 .. now /\ due[t] \in [DOMAIN due[t] -> DuePoints]
JobsTyped == \A j \in jobs : j \in SearchJobs /\ j.created <= now /\ j.end <= now
ManualTyped == manual \in [Topics -> Manuals] /\ \A t \in Topics : manual[t].at <= now

(* A row that a scan locked stays selected and due until its turn.         *)
ScanTyped ==
  /\ scan \in Scans /\ scan.at <= now /\ scan.left \subseteq scan.locked
  /\ \A t \in scan.left : Selected(t) /\ schedule[t].next <= scan.at

Typed == /\ ClockTyped /\ StatusTyped /\ RowsTyped /\ DueTyped
         /\ JobsTyped /\ ManualTyped /\ ScanTyped

LEMMA TypedImplies == Typed => TypeOK
<1> SUFFICES ASSUME Typed PROVE TypeOK
  OBVIOUS
<1>1. \A t \in Topics : /\ schedule[t] \in Schedules /\ manual[t] \in Manuals
                        /\ manual[t].at <= now
  BY DEF Typed, RowsTyped, ManualTyped
<1>2. \A t \in Topics : /\ schedule[t].on \in BOOLEAN /\ schedule[t].enabled \in BOOLEAN
                        /\ schedule[t].interval \in Intervals
                        /\ schedule[t].next \in Nat /\ schedule[t].row \in Nat
  BY <1>1 DEF Schedules
<1>3. \A t \in Topics : manual[t] \in [pc : {"idle", "read", "locked"}, at : 0 .. now, runs : Nat]
  BY <1>1 DEF Manuals, Typed, ClockTyped
<1>4. \A t \in Topics : schedule[t].last \in jobs \cup {NoJob}
  BY DEF Typed, RowsTyped
<1>5. \A t \in Topics :
        /\ DOMAIN due[t] \subseteq 0 .. now
        /\ \A d \in DOMAIN due[t] :
             due[t][d] \in [state : {"pending", "accepted", "skipped", "missed"},
                            start : Int, row : Nat]
  BY DEF Typed, DueTyped, DuePoints
<1>6. \A j \in jobs :
        j \in [topic : Topics, entry : {"scheduled", "manual"}, row : Nat,
               created : 0 .. now, start : Int, end : 0 .. now]
  BY DEF Typed, JobsTyped, SearchJobs, ClockTyped
<1>7. scan \in [at : 0 .. now, locked : SUBSET Topics, left : SUBSET Topics,
                source : BOOLEAN]
  BY DEF Typed, ScanTyped, Scans, ClockTyped
<1> QED
  BY <1>2, <1>3, <1>4, <1>5, <1>6, <1>7 DEF TypeOK, Typed, ClockTyped, StatusTyped

LEMMA TypedInit == Init => Typed
<1> SUFFICES ASSUME Init PROVE Typed
  OBVIOUS
<1>0. FirstInterval \in Intervals
  BY IntervalsAssumption
<1>1. PICK first \in [Topics -> {0, 1}] :
        schedule = [t \in Topics |-> [on |-> TRUE, row |-> 1, enabled |-> TRUE,
                      interval |-> FirstInterval, next |-> first[t], last |-> NoJob]]
  BY DEF Init
<1>2. RowsTyped
  <2>1. \A t \in Topics : first[t] \in Nat
    OBVIOUS
  <2>2. \A t \in Topics :
          [on |-> TRUE, row |-> 1, enabled |-> TRUE, interval |-> FirstInterval,
           next |-> first[t], last |-> NoJob] \in Schedules
    BY <1>0, <2>1 DEF Schedules
  <2> QED
    BY <1>1, <2>2 DEF RowsTyped
<1>3. ScanTyped
  BY TimeAssumption DEF Init, ScanTyped, Scans, NoScan
<1>4. ManualTyped
  BY TimeAssumption DEF Init, ManualTyped, Manuals, Idle
<1>5. DueTyped
  BY DEF Init, DueTyped
<1> QED
  BY <1>2, <1>3, <1>4, <1>5, TimeAssumption
  DEF Init, Typed, ClockTyped, StatusTyped, JobsTyped

LEMMA RowTyped ==
  ASSUME Typed, NEW t \in Topics
  PROVE  /\ schedule[t] \in Schedules
         /\ schedule[t].on \in BOOLEAN /\ schedule[t].row \in Nat
         /\ schedule[t].enabled \in BOOLEAN
         /\ schedule[t].interval \in Intervals /\ schedule[t].interval \in Nat \ {0}
         /\ schedule[t].next \in Nat
         /\ schedule[t].last \in jobs \cup {NoJob}
         /\ schedule[t].last \in SearchJobs \cup {NoJob}
         /\ now \in Nat /\ Lookback \in Nat /\ scan.at \in Nat /\ scan.at <= now
         /\ DOMAIN due[t] \subseteq Nat
         /\ \A d \in DOMAIN due[t] : d <= now /\ due[t][d] \in DuePoints
                                     /\ due[t][d].start \in Int /\ due[t][d].row \in Nat
<1>1. schedule[t] \in Schedules /\ schedule[t].last \in jobs \cup {NoJob}
  BY DEF Typed, RowsTyped
<1>2. \A i \in Intervals : i \in Nat \ {0}
  BY IntervalsAssumption
<1>3. now \in Nat /\ scan.at \in Nat /\ scan.at <= now
  BY TimeAssumption DEF Typed, ClockTyped, ScanTyped, Scans
<1>4. /\ schedule[t].on \in BOOLEAN /\ schedule[t].row \in Nat
      /\ schedule[t].enabled \in BOOLEAN /\ schedule[t].interval \in Intervals
      /\ schedule[t].next \in Nat /\ schedule[t].last \in SearchJobs \cup {NoJob}
  BY <1>1 DEF Schedules
<1>5. DOMAIN due[t] \subseteq 0 .. now /\ \A d \in DOMAIN due[t] : due[t][d] \in DuePoints
  BY DEF Typed, DueTyped
<1>6. \A d \in DOMAIN due[t] : due[t][d].start \in Int /\ due[t][d].row \in Nat
  BY <1>5 DEF DuePoints
<1> QED
  BY <1>1, <1>2, <1>3, <1>4, <1>5, <1>6, IntervalsAssumption

(* The due points that a scan finds in a row, and the newest of them.      *)
LEMMA TurnPoints ==
  ASSUME Typed, NEW t \in scan.left
  PROVE  /\ t \in Topics /\ Selected(t) /\ schedule[t].next <= scan.at
         /\ Points(t) \subseteq schedule[t].next .. scan.at
         /\ schedule[t].next \in Points(t)
         /\ Latest(t) \in Points(t) /\ Latest(t) \in Nat /\ Latest(t) <= now
         /\ \A d \in Points(t) :
              /\ d <= Latest(t)
              /\ d # Latest(t) => d + schedule[t].interval \in Points(t)
         /\ scan.at < Latest(t) + schedule[t].interval
<1>1. t \in Topics /\ Selected(t) /\ schedule[t].next <= scan.at
  BY DEF Typed, ScanTyped, Scans
<1>2. Points(t) = PointsUpTo(schedule[t].next, schedule[t].interval, scan.at)
  BY DEF Points, PointsUpTo
<1>3. /\ schedule[t].interval \in Nat \ {0} /\ schedule[t].next \in Nat
      /\ scan.at \in Nat /\ scan.at <= now /\ now \in Nat
  BY <1>1, RowTyped
<1>4. /\ Points(t) \subseteq schedule[t].next .. scan.at
      /\ schedule[t].next \in Points(t)
      /\ Latest(t) \in Points(t)
      /\ \A d \in Points(t) :
           /\ d <= Latest(t)
           /\ d # Latest(t) => d + schedule[t].interval \in Points(t)
      /\ scan.at < Latest(t) + schedule[t].interval
  BY <1>1, <1>2, <1>3, PointFacts DEF Latest
<1>5. Latest(t) \in Nat /\ Latest(t) <= now
  BY <1>3, <1>4
<1> QED
  BY <1>1, <1>4, <1>5

LEMMA NewestFacts ==
  ASSUME Typed, NEW t \in Topics
  PROVE  /\ Newest(t) \in DOMAIN due[t] \cup {-1} /\ Newest(t) \in Int
         /\ \A d \in DOMAIN due[t] : d <= Newest(t)
<1> DEFINE S == DOMAIN due[t] \cup {-1}
<1>1. /\ S \in SUBSET Int /\ S # {} /\ -1 \in Int /\ now \in Int
      /\ \A x \in S : -1 <= x /\ x <= now
  BY RowTyped
<1>2. Max(S) \in S /\ \A x \in S : x <= Max(S)
  <2> HIDE DEF S
  <2> QED
    BY <1>1, MaxOf
<1> QED
  BY <1>1, <1>2 DEF Newest

(* What a row's turn leaves in the ledger, before the newest point gets    *)
(* its outcome.                                                            *)
LEMMA ReplayedFacts ==
  ASSUME Typed, NEW t \in scan.left
  PROVE  /\ DOMAIN Replayed(t) = DOMAIN due[t] \cup {d \in Points(t) : d >= Newest(t)}
         /\ Replayed(t) \in [DOMAIN Replayed(t) -> DuePoints]
         /\ \A d \in DOMAIN due[t] :
              /\ Replayed(t)[d].start = due[t][d].start
              /\ Replayed(t)[d].row = due[t][d].row
              /\ Replayed(t)[d].state = "pending" => due[t][d].state = "pending"
         /\ \A d \in DOMAIN Replayed(t) \ DOMAIN due[t] :
              /\ Replayed(t)[d].start = WindowStart(t, d)
              /\ Replayed(t)[d].row = schedule[t].row
         /\ \A d \in Points(t) :
              d >= Newest(t) /\ d # Latest(t) => Replayed(t)[d].state # "pending"
<1>1. t \in Topics
  BY TurnPoints
<1>2. \A d \in Points(t) : d \in Nat /\ d <= Latest(t) /\ Latest(t) \in Nat
  BY <1>1, TurnPoints, RowTyped
<1>3. \A d \in Points(t) :
        /\ Recorded(t, d) \in DuePoints
        /\ Recorded(t, d).start = WindowStart(t, d)
        /\ Recorded(t, d).row = schedule[t].row
  BY <1>1, <1>2, RowTyped DEF Recorded, DuePoints, WindowStart, Rows
<1>4. \A x \in DuePoints :
        LET w == [x EXCEPT !.state = "missed"] IN
        w \in DuePoints /\ w.start = x.start /\ w.row = x.row /\ w.state = "missed"
  BY DEF DuePoints
<1> DEFINE points == {d \in Points(t) : d >= Newest(t)}
           point(d) == IF d \in DOMAIN due[t] THEN due[t][d] ELSE Recorded(t, d)
<1>5. \A d \in DOMAIN due[t] \cup points : point(d) \in DuePoints
  BY <1>1, <1>3, RowTyped
<1>6. Replayed(t) = [d \in DOMAIN due[t] \cup points |->
         IF d \in points /\ point(d).state = "pending" /\ Missed(t, d)
           THEN [point(d) EXCEPT !.state = "missed"] ELSE point(d)]
  BY DEF Replayed
<1>7. \A d \in DOMAIN due[t] \cup points :
        /\ Replayed(t)[d] \in DuePoints
        /\ Replayed(t)[d].start = point(d).start /\ Replayed(t)[d].row = point(d).row
        /\ Replayed(t)[d].state = "pending" =>
             point(d).state = "pending" /\ ~(d \in points /\ Missed(t, d))
  <2> HIDE DEF point, points
  <2> QED
    BY <1>4, <1>5, <1>6
<1>8. DOMAIN Replayed(t) = DOMAIN due[t] \cup points
  <2> HIDE DEF point, points
  <2> QED
    BY <1>6
<1>9. Replayed(t) \in [DOMAIN Replayed(t) -> DuePoints]
  <2> HIDE DEF point, points
  <2> QED
    BY <1>6, <1>7
<1>10. \A d \in points : d # Latest(t) => Missed(t, d)
  BY <1>2 DEF Missed
<1> QED
  BY <1>3, <1>7, <1>8, <1>9, <1>10

-----------------------------------------------------------------------------
(* Every step keeps the types.                                             *)
LEMMA RowWritten ==
  ASSUME Typed, NEW t \in Topics, NEW w \in Schedules, w.last \in jobs' \cup {NoJob},
         schedule' = [schedule EXCEPT ![t] = w], jobs \subseteq jobs'
  PROVE  RowsTyped' /\ schedule'[t] = w /\ \A u \in Topics \ {t} : schedule'[u] = schedule[u]
<1>1. schedule \in [Topics -> Schedules] /\ \A u \in Topics : schedule[u].last \in jobs \cup {NoJob}
  BY DEF Typed, RowsTyped
<1>2. /\ schedule' \in [Topics -> Schedules] /\ schedule'[t] = w
      /\ \A u \in Topics \ {t} : schedule'[u] = schedule[u]
  BY <1>1
<1>3. \A u \in Topics : schedule'[u].last \in jobs' \cup {NoJob}
  BY <1>1, <1>2
<1> QED
  BY <1>2, <1>3 DEF RowsTyped

LEMMA DueWritten ==
  ASSUME Typed, now' = now, NEW t \in Topics, NEW f, f \in [DOMAIN f -> DuePoints],
         DOMAIN f \subseteq 0 .. now, due' = [due EXCEPT ![t] = f]
  PROVE  DueTyped' /\ due'[t] = f /\ \A u \in Topics \ {t} : due'[u] = due[u]
<1>1. /\ due'[t] = f /\ \A u \in Topics \ {t} : due'[u] = due[u]
      /\ DOMAIN due' = Topics /\ due' = [u \in Topics |-> due'[u]]
  BY DEF Typed, DueTyped
<1>2. \A u \in Topics :
        DOMAIN due'[u] \subseteq 0 .. now /\ due'[u] \in [DOMAIN due'[u] -> DuePoints]
  <2> SUFFICES ASSUME NEW u \in Topics
               PROVE  DOMAIN due'[u] \subseteq 0 .. now /\ due'[u] \in [DOMAIN due'[u] -> DuePoints]
    OBVIOUS
  <2>1. CASE u = t
    BY <1>1, <2>1
  <2>2. CASE u # t
    BY <1>1, <2>2 DEF Typed, DueTyped
  <2> QED
    BY <2>1, <2>2
<1> QED
  BY <1>1, <1>2 DEF DueTyped

LEMMA ScanLeft ==
  ASSUME Typed, now' = now, NEW t \in scan.left, NEW b \in BOOLEAN, Leave(t, b),
         \A u \in Topics \ {t} : schedule'[u] = schedule[u]
  PROVE  ScanTyped'
<1>1. scan \in Scans /\ scan.left \subseteq Topics /\ scan.left \subseteq scan.locked
  BY DEF Typed, ScanTyped, Scans
<1>2. CASE scan.left \ {t} = {}
  BY <1>2, TimeAssumption DEF Leave, ScanTyped, Scans, NoScan, Typed, ClockTyped
<1>3. CASE scan.left \ {t} # {}
  <2>1. scan' = [scan EXCEPT !.left = scan.left \ {t}, !.source = scan.source \/ b]
    BY <1>3 DEF Leave
  <2>2. /\ scan' \in Scans /\ scan'.at = scan.at /\ scan'.locked = scan.locked
        /\ scan'.left = scan.left \ {t}
    BY <1>1, <2>1 DEF Scans
  <2>3. \A u \in scan'.left : u \in Topics \ {t} /\ u \in scan.left
    BY <1>1, <2>2
  <2> QED
    BY <2>2, <2>3 DEF ScanTyped, Selected, Typed
<1> QED
  BY <1>2, <1>3

(* The ledger after a turn.                                                *)
LEMMA TurnDomain ==
  ASSUME Typed, NEW t \in scan.left
  PROVE  DOMAIN Replayed(t) \subseteq 0 .. now /\ Latest(t) \in Nat
<1>1. t \in Topics
  BY TurnPoints
<1>2. \A d \in DOMAIN due[t] : d \in 0 .. now
  BY <1>1, RowTyped
<1>3. \A d \in Points(t) : d \in 0 .. now
  <2>1. schedule[t].next \in Nat /\ scan.at \in Nat /\ scan.at <= now /\ now \in Nat
    BY <1>1, RowTyped
  <2>2. Points(t) \subseteq schedule[t].next .. scan.at
    BY TurnPoints
  <2> QED
    BY <2>1, <2>2
<1> QED
  BY <1>2, <1>3, ReplayedFacts, TurnPoints

LEMMA MarkedFacts ==
  ASSUME Typed, NEW t \in scan.left, now' = now,
         NEW state \in {"pending", "accepted", "skipped", "missed"}, Marked(t, state)
  PROVE  /\ DueTyped'
         /\ DOMAIN due'[t] = DOMAIN Replayed(t)
         /\ \A d \in DOMAIN Replayed(t) :
              /\ due'[t][d].start = Replayed(t)[d].start
              /\ due'[t][d].row = Replayed(t)[d].row
              /\ due'[t][d].state = IF d = Latest(t) THEN state ELSE Replayed(t)[d].state
         /\ \A u \in Topics \ {t} : due'[u] = due[u]
<1> DEFINE f == [Replayed(t) EXCEPT ![Latest(t)].state = state]
<1>1. Replayed(t) \in [DOMAIN Replayed(t) -> DuePoints] /\ t \in Topics
  BY ReplayedFacts, TurnPoints
<1>2. \A x \in DuePoints :
        /\ [x EXCEPT !.state = state] \in DuePoints
        /\ [x EXCEPT !.state = state].start = x.start
        /\ [x EXCEPT !.state = state].row = x.row
        /\ [x EXCEPT !.state = state].state = state
  BY DEF DuePoints
<1>3. /\ DOMAIN f = DOMAIN Replayed(t)
      /\ \A d \in DOMAIN Replayed(t) :
           f[d] = IF d = Latest(t) THEN [Replayed(t)[d] EXCEPT !.state = state]
                                   ELSE Replayed(t)[d]
  BY <1>1
<1>4. f = [d \in DOMAIN f |-> f[d]]
  OBVIOUS
<1>5. due' = [due EXCEPT ![t] = f]
  BY DEF Marked
<1> HIDE DEF f
<1>6. \A d \in DOMAIN Replayed(t) :
        /\ f[d] \in DuePoints
        /\ f[d].start = Replayed(t)[d].start /\ f[d].row = Replayed(t)[d].row
        /\ f[d].state = IF d = Latest(t) THEN state ELSE Replayed(t)[d].state
  <2> SUFFICES ASSUME NEW d \in DOMAIN Replayed(t)
               PROVE  /\ f[d] \in DuePoints
                      /\ f[d].start = Replayed(t)[d].start /\ f[d].row = Replayed(t)[d].row
                      /\ f[d].state = IF d = Latest(t) THEN state ELSE Replayed(t)[d].state
    OBVIOUS
  <2>1. Replayed(t)[d] \in DuePoints
    BY <1>1
  <2>2. CASE d = Latest(t)
    BY <1>2, <1>3, <2>1, <2>2
  <2>3. CASE d # Latest(t)
    BY <1>3, <2>1, <2>3
  <2> QED
    BY <2>2, <2>3
<1>7. f \in [DOMAIN f -> DuePoints] /\ DOMAIN f \subseteq 0 .. now
  BY <1>3, <1>4, <1>6, TurnDomain
<1>8. DueTyped' /\ due'[t] = f /\ \A u \in Topics \ {t} : due'[u] = due[u]
  BY <1>1, <1>5, <1>7, DueWritten
<1> QED
  BY <1>3, <1>6, <1>8

LEMMA AdvanceFacts ==
  ASSUME Typed, NEW t \in scan.left, NEW job \in SearchJobs \cup {NoJob},
         job \in jobs' \cup {NoJob}, jobs \subseteq jobs', Advance(t, job)
  PROVE  /\ RowsTyped'
         /\ schedule'[t].row = schedule[t].row /\ schedule'[t].interval = schedule[t].interval
         /\ schedule'[t].next = Latest(t) + schedule[t].interval
         /\ schedule'[t].last = IF job = NoJob THEN schedule[t].last ELSE job
         /\ \A u \in Topics \ {t} : schedule'[u] = schedule[u]
<1> DEFINE n == Latest(t) + schedule[t].interval
           j == IF job = NoJob THEN schedule[t].last ELSE job
           w == Advanced(schedule[t], Latest(t), job)
<1>1. /\ t \in Topics /\ n \in Nat /\ schedule[t] \in Schedules
      /\ j \in SearchJobs \cup {NoJob} /\ j \in jobs' \cup {NoJob}
  BY TurnPoints, RowTyped
<1>2. w = [schedule[t] EXCEPT !.next = n, !.last = j]
  BY <1>1 DEF Advanced
<1>3. schedule' = [schedule EXCEPT ![t] = w]
  BY DEF Advance
<1> HIDE DEF w, n, j
<1>4. /\ w \in Schedules /\ w.row = schedule[t].row /\ w.interval = schedule[t].interval
      /\ w.next = n /\ w.last = j
  BY <1>1, <1>2 DEF Schedules
<1>5. RowsTyped' /\ schedule'[t] = w /\ \A u \in Topics \ {t} : schedule'[u] = schedule[u]
  BY <1>1, <1>3, <1>4, RowWritten
<1> QED
  BY <1>4, <1>5 DEF n, j

-----------------------------------------------------------------------------
(* What a step can do to one topic: its cursor, its ledger and its jobs.   *)
Keeps(t) ==
  /\ due'[t] = due[t]
  /\ schedule'[t].row = schedule[t].row /\ schedule'[t].interval = schedule[t].interval
  /\ schedule'[t].next = schedule[t].next /\ schedule'[t].last = schedule[t].last
  /\ Scheduled(t)' = Scheduled(t)

Replans(t) ==
  /\ due'[t] = due[t] /\ now' = now
  /\ schedule'[t].row = schedule[t].row /\ schedule'[t].last = schedule[t].last
  /\ schedule'[t].interval \in Intervals
  /\ schedule'[t].next = LesserOf(schedule[t].next, now + schedule'[t].interval)
  /\ Scheduled(t)' = Scheduled(t)

Selects(t) ==
  /\ due'[t] = due[t] /\ now' = now /\ now \notin DOMAIN due[t]
  /\ schedule'[t].row = schedule[t].row + 1 /\ schedule'[t].last = NoJob
  /\ schedule'[t].next = now
  /\ Scheduled(t)' = Scheduled(t)

(* A turn, without its outcome.                                            *)
Turns(t) ==
  /\ t \in scan.left /\ ~Conflicts(t) /\ now' = now
  /\ schedule'[t].row = schedule[t].row /\ schedule'[t].interval = schedule[t].interval
  /\ DOMAIN due'[t] = DOMAIN Replayed(t)
  /\ \A d \in DOMAIN Replayed(t) : /\ due'[t][d].start = Replayed(t)[d].start
                                   /\ due'[t][d].row = Replayed(t)[d].row

Defers(t) ==
  /\ Turns(t) /\ due'[t] = Replayed(t) /\ Admits(t)
  /\ schedule'[t].next = schedule[t].next /\ schedule'[t].last = schedule[t].last
  /\ Scheduled(t)' = Scheduled(t)

Decides(t, state) ==
  /\ Turns(t)
  /\ \A d \in DOMAIN Replayed(t) :
       due'[t][d].state = IF d = Latest(t) THEN state ELSE Replayed(t)[d].state
  /\ schedule'[t].next = Latest(t) + schedule[t].interval

Skips(t) ==
  /\ Decides(t, "skipped") /\ schedule'[t].last = schedule[t].last
  /\ Scheduled(t)' = Scheduled(t)

Accepts(t) ==
  /\ Decides(t, "accepted") /\ schedule'[t].last = ScheduledJob(t)
  /\ Scheduled(t)' = Scheduled(t) \cup {ScheduledJob(t)}

Lives(t) ==
  Keeps(t) \/ Replans(t) \/ Selects(t) \/ Defers(t) \/ Skips(t) \/ Accepts(t)

LEMMA Untouched ==
  ASSUME NEW t \in Topics, due'[t] = due[t], schedule'[t] = schedule[t],
         Scheduled(t)' = Scheduled(t)
  PROVE  Keeps(t)
  BY DEF Keeps

LEMMA SameJobs == ASSUME jobs' = jobs PROVE \A t : Scheduled(t)' = Scheduled(t)
  BY DEF Scheduled

LEMMA TickStep == ASSUME Typed, Tick PROVE Typed' /\ \A t \in Topics : Lives(t)
<1>1. /\ now \in Nat /\ now' \in Nat /\ now < now' /\ now' \in 0 .. MaxTime
  BY TimeAssumption DEF Typed, ClockTyped, Tick
<1>2. UNCHANGED <<status, schedule, due, jobs, scan, manual>>
  BY DEF Tick
<1>3. \A t \in Topics : Lives(t)
  BY <1>2, SameJobs, Untouched DEF Lives
<1>4. DueTyped'
  <2>1. \A t \in Topics : DOMAIN due[t] \subseteq 0 .. now
    BY DEF Typed, DueTyped
  <2>2. \A t \in Topics : DOMAIN due[t] \subseteq 0 .. now'
    BY <1>1, <2>1
  <2> QED
    BY <1>2, <2>2 DEF Typed, DueTyped
<1>5. JobsTyped'
  BY <1>1, <1>2 DEF Typed, JobsTyped, SearchJobs
<1>6. ManualTyped'
  BY <1>1, <1>2 DEF Typed, ManualTyped, Manuals
<1>7. ScanTyped'
  BY <1>1, <1>2 DEF Typed, ScanTyped, Scans, Selected
<1> QED
  BY <1>1, <1>2, <1>3, <1>4, <1>5, <1>6, <1>7
  DEF Typed, ClockTyped, StatusTyped, RowsTyped

LEMMA BeginStep == ASSUME Typed, ScanBegin PROVE Typed' /\ \A t \in Topics : Lives(t)
<1>1. UNCHANGED <<now, status, schedule, due, jobs, manual>>
  BY DEF ScanBegin
<1>2. \A t \in Topics : Lives(t)
  BY <1>1, SameJobs, Untouched DEF Lives
<1>3. ScanTyped'
  BY <1>1, TimeAssumption
  DEF ScanBegin, ScanTyped, Scans, Typed, ClockTyped, Claimable, Selected
<1> QED
  BY <1>1, <1>2, <1>3
  DEF Typed, ClockTyped, StatusTyped, RowsTyped, DueTyped, JobsTyped, ManualTyped

LEMMA TurnKeeps ==
  ASSUME Typed, NEW t \in scan.left, ~Conflicts(t),
         now' = now, schedule'[t].row = schedule[t].row,
         schedule'[t].interval = schedule[t].interval,
         DOMAIN due'[t] = DOMAIN Replayed(t),
         \A d \in DOMAIN Replayed(t) :
           due'[t][d].start = Replayed(t)[d].start /\ due'[t][d].row = Replayed(t)[d].row
  PROVE  Turns(t)
  BY DEF Turns

LEMMA ScanRowStep ==
  ASSUME Typed, NEW t \in Topics, ScanRow(t)
  PROVE  Typed' /\ \A u \in Topics : Lives(u)
<1>0. /\ t \in scan.left /\ now' = now /\ status' = status /\ manual' = manual
      /\ \E b \in BOOLEAN : Leave(t, b)
  BY DEF ScanRow, ScanFails, ScanSkips, ScanBusy, ScanRateLimited, ScanAccepts, Turn, InOrder
<1>1. ClockTyped' /\ StatusTyped' /\ ManualTyped'
  BY <1>0 DEF Typed, ClockTyped, StatusTyped, ManualTyped
<1>2. CASE ScanFails(t)
  <2>1. UNCHANGED <<schedule, due, jobs>>
    BY <1>2 DEF ScanFails
  <2>2. \A u \in Topics : Lives(u)
    BY <2>1, SameJobs, Untouched DEF Lives
  <2>3. ScanTyped'
    BY <1>0, <2>1, ScanLeft
  <2> QED
    BY <1>0, <1>1, <2>1, <2>2, <2>3 DEF Typed, RowsTyped, DueTyped, JobsTyped
<1>3. CASE ScanBusy(t)
  <2>1. /\ schedule' = schedule /\ jobs' = jobs /\ due' = [due EXCEPT ![t] = Replayed(t)]
        /\ ~Conflicts(t) /\ Admits(t)
    BY <1>3 DEF ScanBusy, KeepCursor, Turn
  <2>2. /\ DueTyped' /\ due'[t] = Replayed(t) /\ \A u \in Topics \ {t} : due'[u] = due[u]
    BY <1>0, <2>1, DueWritten, ReplayedFacts, TurnDomain
  <2>3. Lives(t)
    BY <1>0, <2>1, <2>2, SameJobs DEF Lives, Defers, Turns
  <2>4. \A u \in Topics \ {t} : Lives(u)
    BY <2>1, <2>2, SameJobs, Untouched DEF Lives
  <2>5. ScanTyped'
    BY <1>0, <2>1, ScanLeft
  <2> QED
    BY <1>0, <1>1, <2>1, <2>2, <2>3, <2>4, <2>5 DEF Typed, RowsTyped, JobsTyped
<1>4. ASSUME ~Conflicts(t), Marked(t, "skipped"), Advance(t, NoJob), jobs' = jobs
      PROVE  Typed' /\ \A u \in Topics : Lives(u)
  <2>1. /\ DueTyped'
        /\ DOMAIN due'[t] = DOMAIN Replayed(t)
        /\ \A d \in DOMAIN Replayed(t) :
             /\ due'[t][d].start = Replayed(t)[d].start
             /\ due'[t][d].row = Replayed(t)[d].row
             /\ due'[t][d].state = IF d = Latest(t) THEN "skipped" ELSE Replayed(t)[d].state
        /\ \A u \in Topics \ {t} : due'[u] = due[u]
    BY <1>0, <1>4, MarkedFacts
  <2>2. /\ RowsTyped'
        /\ schedule'[t].row = schedule[t].row /\ schedule'[t].interval = schedule[t].interval
        /\ schedule'[t].next = Latest(t) + schedule[t].interval
        /\ schedule'[t].last = schedule[t].last
        /\ \A u \in Topics \ {t} : schedule'[u] = schedule[u]
    BY <1>0, <1>4, AdvanceFacts
  <2>3. Lives(t)
    BY <1>0, <1>4, <2>1, <2>2, SameJobs DEF Lives, Skips, Decides, Turns
  <2>4. \A u \in Topics \ {t} : Lives(u)
    BY <1>4, <2>1, <2>2, SameJobs, Untouched DEF Lives
  <2>5. ScanTyped'
    BY <1>0, <2>2, ScanLeft
  <2> QED
    BY <1>0, <1>1, <1>4, <2>1, <2>2, <2>3, <2>4, <2>5 DEF Typed, JobsTyped
<1>5. CASE ScanAccepts(t)
  <2>0. /\ ~Conflicts(t) /\ Marked(t, "accepted") /\ Advance(t, ScheduledJob(t))
        /\ jobs' = jobs \cup {ScheduledJob(t)}
    BY <1>5 DEF ScanAccepts, Turn
  <2>1. /\ DueTyped'
        /\ DOMAIN due'[t] = DOMAIN Replayed(t)
        /\ \A d \in DOMAIN Replayed(t) :
             /\ due'[t][d].start = Replayed(t)[d].start
             /\ due'[t][d].row = Replayed(t)[d].row
             /\ due'[t][d].state = IF d = Latest(t) THEN "accepted" ELSE Replayed(t)[d].state
        /\ \A u \in Topics \ {t} : due'[u] = due[u]
    BY <1>0, <2>0, MarkedFacts
  <2>2. PreviousEnd(t) \in Int
    <3>1. schedule[t].last # NoJob => schedule[t].last.end \in Nat
      BY RowTyped DEF SearchJobs
    <3> QED
      BY <1>0, <3>1, RowTyped, TurnPoints DEF PreviousEnd
  <2>3. /\ ScheduledJob(t) \in SearchJobs
        /\ ScheduledJob(t).topic = t /\ ScheduledJob(t).entry = "scheduled"
        /\ ScheduledJob(t).created <= now /\ ScheduledJob(t).end <= now
    BY <1>0, <2>2, RowTyped, TurnPoints DEF ScheduledJob, SearchJobs, Rows
  <2>4. ScheduledJob(t) # NoJob
    BY <2>3, NoJobAssumption DEF SearchJobs
  <2>5. /\ RowsTyped'
        /\ schedule'[t].row = schedule[t].row /\ schedule'[t].interval = schedule[t].interval
        /\ schedule'[t].next = Latest(t) + schedule[t].interval
        /\ schedule'[t].last = ScheduledJob(t)
        /\ \A u \in Topics \ {t} : schedule'[u] = schedule[u]
    BY <1>0, <2>0, <2>3, <2>4, AdvanceFacts
  <2>6. /\ Scheduled(t)' = Scheduled(t) \cup {ScheduledJob(t)}
        /\ \A u \in Topics \ {t} : Scheduled(u)' = Scheduled(u)
    BY <2>0, <2>3 DEF Scheduled
  <2>7. Lives(t)
    BY <1>0, <2>0, <2>1, <2>5, <2>6 DEF Lives, Accepts, Decides, Turns
  <2>8. \A u \in Topics \ {t} : Lives(u)
    BY <2>1, <2>5, <2>6, Untouched DEF Lives
  <2>9. ScanTyped'
    BY <1>0, <2>5, ScanLeft
  <2>10. JobsTyped'
    BY <1>0, <2>0, <2>3 DEF Typed, JobsTyped
  <2> QED
    BY <1>1, <2>1, <2>5, <2>7, <2>8, <2>9, <2>10 DEF Typed
<1> QED
  BY <1>2, <1>3, <1>4, <1>5 DEF ScanRow, ScanSkips, ScanRateLimited, Turn

LEMMA ManualTypes ==
  ASSUME Typed, NEW t \in Topics, now' = now
  PROVE  /\ \A pc \in {"idle", "read", "locked"}, at \in Nat : at <= now /\
              manual' = [manual EXCEPT ![t].pc = pc, ![t].at = at] => ManualTyped'
         /\ manual' = [manual EXCEPT ![t].pc = "locked", ![t].runs = @ + 1] => ManualTyped'
<1>1. /\ manual \in [Topics -> Manuals] /\ \A u \in Topics : manual[u].at <= now
      /\ manual[t] \in Manuals
  BY DEF Typed, ManualTyped
<1>2. ASSUME NEW pc \in {"idle", "read", "locked"}, NEW at \in Nat, at <= now,
             manual' = [manual EXCEPT ![t].pc = pc, ![t].at = at]
      PROVE  ManualTyped'
  <2>1. /\ \A u \in Topics \ {t} : manual'[u] = manual[u]
        /\ manual'[t] \in Manuals /\ manual'[t].at = at
        /\ manual' = [u \in Topics |-> manual'[u]]
    BY <1>1, <1>2 DEF Manuals
  <2> QED
    BY <1>1, <1>2, <2>1 DEF ManualTyped
<1>3. ASSUME manual' = [manual EXCEPT ![t].pc = "locked", ![t].runs = @ + 1]
      PROVE  ManualTyped'
  <2>1. /\ \A u \in Topics \ {t} : manual'[u] = manual[u]
        /\ manual'[t] \in Manuals /\ manual'[t].at = manual[t].at
        /\ manual' = [u \in Topics |-> manual'[u]]
    BY <1>1, <1>3 DEF Manuals
  <2> QED
    BY <1>1, <2>1 DEF ManualTyped
<1> QED
  BY <1>2, <1>3

LEMMA ManualRunStep ==
  ASSUME Typed, NEW t \in Topics, ManualBegin(t) \/ ManualStep(t)
  PROVE  Typed' /\ \A u \in Topics : Lives(u)
<1>0. UNCHANGED <<now, status, schedule, due, scan>> /\ manual[t] \in Manuals
      /\ manual[t].at \in Nat /\ manual[t].at <= now /\ now \in Nat
  BY RowTyped
  DEF ManualBegin, ManualStep, ManualAdmits, ManualRefused, ManualCommits, Typed,
      ManualTyped, Manuals
<1>1. ManualTyped'
  BY <1>0, ManualTypes DEF ManualBegin, ManualStep, ManualAdmits, ManualRefused, ManualCommits
<1>2. /\ ClockTyped' /\ StatusTyped' /\ DueTyped' /\ ScanTyped'
  BY <1>0 DEF Typed, ClockTyped, StatusTyped, DueTyped, ScanTyped, Selected
<1>3. CASE jobs' = jobs
  <2>1. \A u \in Topics : Lives(u)
    BY <1>0, <1>3, SameJobs, Untouched DEF Lives
  <2> QED
    BY <1>0, <1>1, <1>2, <1>3, <2>1 DEF Typed, RowsTyped, JobsTyped
<1>4. CASE ManualCommits(t)
  <2> DEFINE j == [topic |-> t, entry |-> "manual", row |-> Rows(t),
                   created |-> manual[t].at, end |-> manual[t].at,
                   start |-> manual[t].at - schedule[t].interval - Lookback]
  <2>1. jobs' = jobs \cup {j}
    BY <1>4 DEF ManualCommits
  <2>2. /\ j \in SearchJobs /\ j.created <= now /\ j.end <= now /\ j.entry = "manual"
    BY <1>0, RowTyped DEF SearchJobs, Rows
  <2> HIDE DEF j
  <2>3. \A u \in Topics : Scheduled(u)' = Scheduled(u)
    BY <2>1, <2>2 DEF Scheduled
  <2>4. \A u \in Topics : Lives(u)
    BY <1>0, <2>3, Untouched DEF Lives
  <2>5. JobsTyped'
    BY <1>0, <2>1, <2>2 DEF Typed, JobsTyped
  <2>6. RowsTyped'
    BY <1>0, <2>1 DEF Typed, RowsTyped
  <2> QED
    BY <1>1, <1>2, <2>4, <2>5, <2>6 DEF Typed
<1> QED
  BY <1>3, <1>4 DEF ManualBegin, ManualStep, ManualAdmits, ManualRefused

(* The API changes one row, and never one that the scan has yet to handle. *)
LEMMA RowChanged ==
  ASSUME Typed, NEW t \in Topics, NEW w \in Schedules, w.last \in jobs \cup {NoJob},
         schedule' = [schedule EXCEPT ![t] = w], t \notin scan.left, StatusTyped',
         now' = now, due' = due, jobs' = jobs, scan' = scan, manual' = manual
  PROVE  Typed' /\ schedule'[t] = w /\ \A u \in Topics \ {t} : Lives(u)
<1>1. RowsTyped' /\ schedule'[t] = w /\ \A u \in Topics \ {t} : schedule'[u] = schedule[u]
  BY RowWritten
<1>2. \A u \in Topics \ {t} : Lives(u)
  BY <1>1, SameJobs, Untouched DEF Lives
<1>3. ScanTyped'
  <2>1. \A u \in scan.left : u \in Topics \ {t}
    BY DEF Typed, ScanTyped, Scans
  <2> QED
    BY <1>1, <2>1 DEF Typed, ScanTyped, Selected
<1> QED
  BY <1>1, <1>2, <1>3 DEF Typed, ClockTyped, DueTyped, JobsTyped, ManualTyped

LEMMA Unlocking == ASSUME Typed, NEW t, Unlocked(t) PROVE t \notin scan.left
  BY DEF Typed, ScanTyped, Unlocked

LEMMA SyncedFacts ==
  ASSUME Typed, NEW t \in Topics, NEW i \in Intervals, NEW b \in BOOLEAN
  PROVE  /\ Synced(t, i, b) \in Schedules /\ Synced(t, i, b).row = schedule[t].row
         /\ Synced(t, i, b).interval = i /\ Synced(t, i, b).last = schedule[t].last
         /\ Synced(t, i, b).next = LesserOf(schedule[t].next, now + i)
<1> DEFINE n == LesserOf(schedule[t].next, now + i)
<1>1. n \in Nat /\ schedule[t] \in Schedules
  BY RowTyped, IntervalsAssumption DEF LesserOf
<1>2. Synced(t, i, b) = [schedule[t] EXCEPT !.interval = i, !.enabled = b, !.next = n]
  BY DEF Synced
<1> HIDE DEF n
<1>3. /\ Synced(t, i, b) \in Schedules /\ Synced(t, i, b).row = schedule[t].row
      /\ Synced(t, i, b).interval = i /\ Synced(t, i, b).last = schedule[t].last
      /\ Synced(t, i, b).next = n
  BY <1>1, <1>2 DEF Schedules
<1> QED
  BY <1>3 DEF n

LEMMA ApiStep ==
  ASSUME Typed, NEW t \in Topics,
         \/ \E interval \in Intervals : ChangeInterval(t, interval)
         \/ Deselect(t) \/ Select(t)
         \/ \E target \in {"active", "paused", "archived"} : Transition(t, target)
  PROVE  Typed' /\ \A u \in Topics : Lives(u)
<1>0. schedule[t] \in Schedules /\ schedule[t].last \in jobs \cup {NoJob}
      /\ schedule[t].interval \in Intervals
  BY RowTyped
<1>1. ASSUME NEW w \in Schedules, w.last \in jobs \cup {NoJob},
             schedule' = [schedule EXCEPT ![t] = w], t \notin scan.left, StatusTyped',
             now' = now, due' = due, jobs' = jobs, scan' = scan, manual' = manual,
             schedule'[t] = w => Lives(t)
      PROVE  Typed' /\ \A u \in Topics : Lives(u)
  BY <1>1, RowChanged
<1>2. ASSUME NEW i \in Intervals, NEW b \in BOOLEAN,
             schedule' = [schedule EXCEPT ![t] = Synced(t, i, b)],
             t \notin scan.left, StatusTyped',
             now' = now, due' = due, jobs' = jobs, scan' = scan, manual' = manual
      PROVE  Typed' /\ \A u \in Topics : Lives(u)
  <2>1. schedule'[t] = Synced(t, i, b) => Replans(t)
    BY <1>2, SyncedFacts, SameJobs DEF Replans
  <2> QED
    BY <1>0, <1>1, <1>2, <2>1, SyncedFacts DEF Lives
<1>3. ASSUME NEW interval \in Intervals, ChangeInterval(t, interval)
      PROVE  Typed' /\ \A u \in Topics : Lives(u)
  <2>1. (status[t] = "active") \in BOOLEAN /\ StatusTyped'
    BY <1>3 DEF ChangeInterval, Typed, StatusTyped
  <2> QED
    BY <1>2, <1>3, <2>1, Unlocking DEF ChangeInterval
<1>4. CASE Deselect(t)
  <2>1. schedule' = [schedule EXCEPT ![t] = [schedule[t] EXCEPT !.on = FALSE]]
    BY <1>4 DEF Deselect
  <2>2. PICK w : w = [schedule[t] EXCEPT !.on = FALSE]
    OBVIOUS
  <2>3. /\ w \in Schedules /\ w.row = schedule[t].row /\ w.interval = schedule[t].interval
        /\ w.next = schedule[t].next /\ w.last = schedule[t].last
    BY <1>0, <2>2 DEF Schedules
  <2>4. schedule'[t] = w => Keeps(t)
    BY <1>4, <2>3, SameJobs DEF Keeps, Deselect
  <2>5. StatusTyped' /\ t \notin scan.left
    BY <1>4, Unlocking DEF Deselect, Typed, StatusTyped
  <2> QED
    BY <1>0, <1>1, <1>4, <2>1, <2>2, <2>3, <2>4, <2>5 DEF Deselect, Lives
<1>5. CASE Select(t)
  <2>1. PICK w : w = [on |-> TRUE, row |-> schedule[t].row + 1,
                      enabled |-> status[t] = "active", interval |-> schedule[t].interval,
                      next |-> now, last |-> NoJob]
    OBVIOUS
  <2>2. /\ w \in Schedules /\ w.row = schedule[t].row + 1 /\ w.next = now /\ w.last = NoJob
    BY <1>0, <2>1, RowTyped DEF Schedules
  <2>3. schedule' = [schedule EXCEPT ![t] = w]
    BY <1>5, <2>1 DEF Select
  <2>4. schedule'[t] = w => Selects(t)
    BY <1>5, <2>2, SameJobs DEF Selects, Select
  <2>5. StatusTyped' /\ t \notin scan.left
    BY <1>5 DEF Select, Typed, StatusTyped, ScanTyped
  <2> QED
    BY <1>1, <1>5, <2>2, <2>3, <2>4, <2>5 DEF Select, Lives
<1>6. ASSUME NEW target \in {"active", "paused", "archived"}, Transition(t, target)
      PROVE  Typed' /\ \A u \in Topics : Lives(u)
  <2>1. StatusTyped' /\ t \notin scan.left
    BY <1>6, Unlocking DEF Transition, Typed, StatusTyped
  <2>2. CASE target = "active"
    BY <1>0, <1>2, <1>6, <2>1, <2>2 DEF Transition
  <2>3. CASE target # "active"
    <3>1. schedule' = [schedule EXCEPT ![t] = [schedule[t] EXCEPT !.enabled = FALSE]]
      BY <1>6, <2>3 DEF Transition
    <3>2. PICK w : w = [schedule[t] EXCEPT !.enabled = FALSE]
      OBVIOUS
    <3>3. /\ w \in Schedules /\ w.row = schedule[t].row /\ w.interval = schedule[t].interval
          /\ w.next = schedule[t].next /\ w.last = schedule[t].last
      BY <1>0, <3>2 DEF Schedules
    <3>4. schedule'[t] = w => Keeps(t)
      BY <1>6, <3>3, SameJobs DEF Keeps, Transition
    <3> QED
      BY <1>0, <1>1, <1>6, <2>1, <3>1, <3>2, <3>3, <3>4 DEF Transition, Lives
  <2> QED
    BY <2>2, <2>3
<1> QED
  BY <1>3, <1>4, <1>5, <1>6

LEMMA NextStep == ASSUME Typed, Next PROVE Typed' /\ \A t \in Topics : Lives(t)
  BY TickStep, BeginStep, ScanRowStep, ManualRunStep, ApiStep DEF Next

LEMMA TypedStep == ASSUME Typed, [Next]_vars PROVE Typed' /\ \A t \in Topics : Lives(t)
<1>1. CASE vars' = vars
  <2>1. \A t \in Topics : Lives(t)
    BY <1>1, SameJobs, Untouched DEF Lives, vars
  <2> QED
    BY <1>1, <2>1 DEF vars, Typed, ClockTyped, StatusTyped, RowsTyped, DueTyped, JobsTyped,
                      ManualTyped, ScanTyped, Selected
<1> QED
  BY <1>1, NextStep

LEMMA TypedAlways == Spec => []Typed
  BY TypedInit, TypedStep, PTL DEF Spec

(* The values of every variable, in every state that can be reached.       *)
THEOREM ScheduleTyped == Spec => []TypeOK
  BY TypedAlways, TypedImplies, PTL

-----------------------------------------------------------------------------
(* The minimum interval of the source: the run that holds its lock saw no  *)
(* recent job, and nobody can add one until it committed its own.          *)
Locked(t) == manual[t].pc = "locked"
RateFine ==
  /\ \A t, u \in Topics : Locked(t) /\ Locked(u) => t = u
  /\ \A t \in Topics : Locked(t) => ~Recent(manual[t].at)
  /\ RateLimitHolds

LEMMA AdmittedApart ==
  ASSUME Typed, RateLimitHolds, NEW j \in SearchJobs, ~Recent(j.created),
         jobs' = jobs \cup {j}
  PROVE  RateLimitHolds'
<1>1. MinInterval \in Nat /\ j.created \in Nat /\ \A k \in jobs : k.created \in Nat
  BY IntervalsAssumption DEF SearchJobs, Typed, JobsTyped
<1>2. \A k \in jobs : j.created - k.created >= MinInterval
  BY <1>1 DEF Recent
<1> QED
  BY <1>1, <1>2 DEF RateLimitHolds

LEMMA RateFineStep == ASSUME Typed, RateFine, [Next]_vars PROVE RateFine'
<1>1. CASE jobs' = jobs /\ \A t \in Topics : Locked(t)' => Locked(t) /\ manual'[t].at = manual[t].at
  BY <1>1 DEF RateFine, RateLimitHolds, Recent
<1>2. ASSUME NEW t \in Topics, ScanAccepts(t) PROVE RateFine'
  <2>0. t \in scan.left /\ manual' = manual /\ \A u \in Topics : ~Locked(u)
    BY <1>2 DEF ScanAccepts, Turn, InOrder, SourceFree, Locked
  <2>1. /\ jobs' = jobs \cup {ScheduledJob(t)} /\ ~Recent(scan.at)
        /\ ScheduledJob(t).created = scan.at
    BY <1>2 DEF ScanAccepts, ScheduledJob
  <2>2. ScheduledJob(t) \in SearchJobs
    BY <1>2, NextStep, <2>1 DEF Typed, JobsTyped, Next, ScanRow
  <2>3. RateLimitHolds'
    BY <2>1, <2>2, AdmittedApart DEF RateFine
  <2> QED
    BY <2>0, <2>3 DEF RateFine, Locked
<1>3. ASSUME NEW t \in Topics, ManualAdmits(t) PROVE RateFine'
  <2>1. /\ \A u \in Topics : ~Locked(u)
        /\ ~Recent(manual[t].at) /\ jobs' = jobs
        /\ \A u \in Topics \ {t} : manual'[u] = manual[u]
        /\ manual'[t].at = manual[t].at
    BY <1>3 DEF ManualAdmits, SourceFree, Locked, Typed, ManualTyped, Manuals
  <2> QED
    BY <2>1 DEF RateFine, RateLimitHolds, Recent, Locked
<1>4. ASSUME NEW t \in Topics, ManualCommits(t) PROVE RateFine'
  <2> DEFINE j == [topic |-> t, entry |-> "manual", row |-> Rows(t),
                   created |-> manual[t].at, end |-> manual[t].at,
                   start |-> manual[t].at - schedule[t].interval - Lookback]
  <2>1. jobs' = jobs \cup {j} /\ j.created = manual[t].at /\ Locked(t)
    BY <1>4 DEF ManualCommits, Locked
  <2>2. j \in SearchJobs
    BY <1>4, NextStep, <2>1 DEF Typed, JobsTyped, Next, ManualStep
  <2>3. \A u \in Topics : ~Locked(u)'
    <3>1. /\ \A u \in Topics \ {t} : manual'[u] = manual[u]
          /\ manual'[t].pc = "idle"
      BY <1>4 DEF ManualCommits, Typed, ManualTyped, Manuals
    <3> QED
      BY <2>1, <3>1 DEF RateFine, Locked
  <2> HIDE DEF j
  <2>4. RateLimitHolds'
    BY <2>1, <2>2, AdmittedApart DEF RateFine
  <2> QED
    BY <2>3, <2>4 DEF RateFine
<1>5. ASSUME NEW t \in Topics, ManualBegin(t) \/ ManualRefused(t) PROVE RateFine'
  <2>1. /\ \A u \in Topics \ {t} : manual'[u] = manual[u]
        /\ manual'[t].pc # "locked" /\ jobs' = jobs
    BY <1>5 DEF ManualBegin, ManualRefused, Typed, ManualTyped, Manuals
  <2> QED
    BY <1>1, <2>1 DEF Locked
<1>6. ASSUME manual' = manual /\ jobs' = jobs PROVE RateFine'
  BY <1>1, <1>6 DEF Locked
<1>7. CASE Next
  BY <1>2, <1>3, <1>4, <1>5, <1>6, <1>7
  DEF Next, Tick, ScanBegin, ScanRow, ScanFails, ScanSkips, ScanBusy, ScanRateLimited,
      ManualStep, ChangeInterval, Deselect, Select, Transition
<1> QED
  BY <1>6, <1>7 DEF vars

LEMMA RateFineInit == Init => RateFine
  BY DEF Init, RateFine, RateLimitHolds, Locked, Idle

(* Whatever the topics that share the source, and whatever the order of    *)
(* scans and manual runs, its collections keep the minimum interval apart. *)
THEOREM RateLimited == Spec => []RateLimitHolds
<1>1. RateFine => RateLimitHolds
  BY DEF RateFine
<1> QED
  BY <1>1, RateFineInit, RateFineStep, TypedAlways, PTL DEF Spec

-----------------------------------------------------------------------------
(* The ledger of a topic and the cursor of its row.                        *)
StepAt(t, d) == d - due[t][d].start - Lookback

(* Points of an earlier row lie before the cursor and the row's own.       *)
EarlierFine(t) ==
  /\ \A d \in DOMAIN due[t] : due[t][d].row <= schedule[t].row
  /\ \A d \in DOMAIN due[t] \ PointsOf(t) :
       d < schedule[t].next /\ \A e \in PointsOf(t) : d < e
(* A cursor that is not past the ledger is a point of it.                  *)
CursorFine(t) ==
  \A d \in DOMAIN due[t] : d >= schedule[t].next => schedule[t].next \in PointsOf(t)
PendingFine(t) ==
  \A d \in PointsOf(t) :
    due[t][d].state = "pending" =>
      schedule[t].next <= d /\ \A e \in DOMAIN due[t] : e <= d
CadenceFine(t) ==
  \A d \in PointsOf(t) : \A e \in PointsOf(t) \cup {schedule[t].next} :
    e > d => \E f \in PointsOf(t) \cup {schedule[t].next} : f > d /\ f - d <= StepAt(t, d)
LedgerFine(t) == EarlierFine(t) /\ CursorFine(t) /\ PendingFine(t) /\ CadenceFine(t)

(* The points a turn adds or confirms.                                     *)
Replays(t) == {d \in Points(t) : d >= Newest(t)}
LEMMA TurnLedger ==
  ASSUME Typed, NEW t \in Topics, LedgerFine(t), Turns(t)
  PROVE  /\ DOMAIN due'[t] = DOMAIN due[t] \cup Replays(t)
         /\ PointsOf(t)' = PointsOf(t) \cup Replays(t)
         /\ \A d \in DOMAIN due[t] : due'[t][d].start = due[t][d].start
                                     /\ due'[t][d].row = due[t][d].row
         /\ \A d \in Replays(t) : StepAt(t, d)' = schedule[t].interval
         /\ schedule[t].next \in PointsOf(t) \cup Replays(t)
         /\ \A d \in Replays(t) : d \in Nat /\ schedule[t].next <= d
         /\ Latest(t) \in Replays(t)
         /\ \A d \in DOMAIN due'[t] : d <= Latest(t)
         /\ \A d \in DOMAIN due[t] :
              d >= schedule[t].next => d \in Replays(t) \/ \E f \in PointsOf(t) : f > d
<1>0. /\ t \in scan.left /\ ~Conflicts(t) /\ schedule[t].next \in Nat
      /\ Latest(t) \in Nat /\ Newest(t) \in Int
      /\ \A d \in DOMAIN due[t] : d \in Nat /\ d <= Newest(t)
  BY RowTyped, TurnPoints, NewestFacts DEF Turns
<1>1. \A d \in Points(t) : d \in Nat /\ schedule[t].next <= d /\ d <= Latest(t)
  BY <1>0, TurnPoints, RowTyped
<1>2. /\ DOMAIN due'[t] = DOMAIN due[t] \cup Replays(t)
      /\ \A d \in DOMAIN due[t] : due'[t][d].start = due[t][d].start
                                  /\ due'[t][d].row = due[t][d].row
      /\ \A d \in Replays(t) \ DOMAIN due[t] :
           due'[t][d].start = WindowStart(t, d) /\ due'[t][d].row = schedule[t].row
  <2>1. DOMAIN Replayed(t) = DOMAIN due[t] \cup Replays(t)
    BY <1>0, ReplayedFacts DEF Replays
  <2>2. /\ \A d \in DOMAIN due[t] : Replayed(t)[d].start = due[t][d].start
                                    /\ Replayed(t)[d].row = due[t][d].row
        /\ \A d \in DOMAIN Replayed(t) \ DOMAIN due[t] :
              Replayed(t)[d].start = WindowStart(t, d) /\ Replayed(t)[d].row = schedule[t].row
    BY <1>0, ReplayedFacts
  <2>3. /\ DOMAIN due'[t] = DOMAIN Replayed(t)
        /\ \A d \in DOMAIN Replayed(t) : /\ due'[t][d].start = Replayed(t)[d].start
                                         /\ due'[t][d].row = Replayed(t)[d].row
    BY DEF Turns
  <2> QED
    BY <2>1, <2>2, <2>3
<1>3. Newest(t) >= schedule[t].next =>
        /\ Newest(t) \in PointsOf(t) /\ Newest(t) \in Replays(t)
        /\ schedule[t].next \in PointsOf(t)
        /\ due[t][Newest(t)].start = WindowStart(t, Newest(t))
  <2> SUFFICES ASSUME Newest(t) >= schedule[t].next
               PROVE  /\ Newest(t) \in PointsOf(t) /\ Newest(t) \in Replays(t)
                      /\ schedule[t].next \in PointsOf(t)
                      /\ due[t][Newest(t)].start = WindowStart(t, Newest(t))
    OBVIOUS
  <2>1. Newest(t) \in DOMAIN due[t]
    BY <1>0, NewestFacts
  <2>2. /\ Newest(t) \in Points(t)
        /\ due[t][Newest(t)].start = WindowStart(t, Newest(t))
    BY <1>0 DEF Conflicts
  <2>3. Newest(t) \in PointsOf(t) /\ schedule[t].next \in PointsOf(t)
    BY <1>0, <2>1 DEF LedgerFine, EarlierFine, CursorFine
  <2> QED
    BY <1>0, <2>2, <2>3 DEF Replays
<1>4. \A d \in Replays(t) \cap DOMAIN due[t] :
        d = Newest(t) /\ d >= schedule[t].next
  BY <1>0, <1>1 DEF Replays
<1>5. Latest(t) \in Replays(t) /\ schedule[t].next \in PointsOf(t) \cup Replays(t)
  <2>1. Latest(t) \in Points(t) /\ schedule[t].next \in Points(t)
    BY <1>0, TurnPoints
  <2>2. CASE Newest(t) >= schedule[t].next
    BY <1>0, <1>1, <1>3, <2>1, <2>2 DEF Replays
  <2>3. CASE Newest(t) < schedule[t].next
    BY <1>0, <1>1, <2>1, <2>3 DEF Replays
  <2> QED
    BY <1>0, <2>2, <2>3
<1>6. \A d \in DOMAIN due'[t] : d <= Latest(t)
  BY <1>0, <1>1, <1>2, <1>5 DEF Replays
<1>7. PointsOf(t)' = PointsOf(t) \cup Replays(t)
  <2>1. schedule'[t].row = schedule[t].row
    BY DEF Turns
  <2>2. \A d \in DOMAIN due'[t] :
          due'[t][d].row = schedule[t].row <=> d \in PointsOf(t) \cup Replays(t)
    BY <1>2, <1>3, <1>4 DEF PointsOf, Rows
  <2> QED
    BY <1>2, <2>1, <2>2 DEF PointsOf, Rows
<1>8. \A d \in Replays(t) : StepAt(t, d)' = schedule[t].interval
  <2> SUFFICES ASSUME NEW d \in Replays(t) PROVE StepAt(t, d)' = schedule[t].interval
    OBVIOUS
  <2>1. due'[t][d].start = WindowStart(t, d)
    BY <1>2, <1>3, <1>4
  <2>2. d \in Nat /\ schedule[t].interval \in Nat /\ Lookback \in Nat
    BY <1>1, RowTyped DEF Replays
  <2> QED
    BY <2>1, <2>2 DEF StepAt, WindowStart
<1>9. \A d \in Replays(t) : d \in Nat /\ schedule[t].next <= d
  BY <1>1 DEF Replays
<1>10. ASSUME NEW d \in DOMAIN due[t], d >= schedule[t].next, d \notin Replays(t)
       PROVE  \E f \in PointsOf(t) : f > d
  BY <1>0, <1>3, <1>10
<1> QED
  BY <1>2, <1>5, <1>6, <1>7, <1>8, <1>9, <1>10

LEMMA TurnFine ==
  ASSUME Typed, NEW t \in Topics, LedgerFine(t), Turns(t),
         \/ schedule'[t].next = schedule[t].next
         \/ schedule'[t].next = Latest(t) + schedule[t].interval
  PROVE  EarlierFine(t)' /\ CursorFine(t)' /\ CadenceFine(t)'
<1>1. /\ schedule[t].next \in Nat /\ schedule[t].interval \in Nat \ {0} /\ Latest(t) \in Nat
      /\ schedule[t].next <= Latest(t)
      /\ \A d \in DOMAIN due[t] : d \in Nat
      /\ \A d \in Points(t) : d # Latest(t) => d + schedule[t].interval \in Points(t)
  BY RowTyped, TurnPoints, TurnLedger DEF Turns
<1>2. schedule'[t].row = schedule[t].row
  BY DEF Turns
<1>3. EarlierFine(t)'
  <2>1. \A d \in DOMAIN due'[t] : due'[t][d].row <= schedule'[t].row
    <3>1. \A d \in DOMAIN due[t] : due'[t][d].row <= schedule'[t].row
      BY <1>2, TurnLedger DEF LedgerFine, EarlierFine
    <3>2. \A d \in PointsOf(t)' : due'[t][d].row = schedule'[t].row
      BY DEF PointsOf, Rows
    <3>3. schedule'[t].row \in Nat
      BY <1>2, RowTyped
    <3> QED
      BY <3>1, <3>2, <3>3, TurnLedger
  <2>2. ASSUME NEW d \in DOMAIN due'[t] \ PointsOf(t)'
        PROVE  d < schedule'[t].next /\ \A e \in PointsOf(t)' : d < e
    <3>1. d \in DOMAIN due[t] \ PointsOf(t)
      BY <2>2, TurnLedger
    <3>2. d \in Nat /\ d < schedule[t].next /\ \A e \in PointsOf(t) : d < e
      BY <1>1, <3>1 DEF LedgerFine, EarlierFine
    <3>3. \A e \in Replays(t) : d < e
      BY <1>1, <3>2, TurnLedger
    <3> QED
      BY <1>1, <3>2, <3>3, TurnLedger
  <2> QED
    BY <2>1, <2>2 DEF EarlierFine
<1>4. CursorFine(t)'
  <2>1. \A d \in DOMAIN due'[t] : d <= Latest(t) /\ d \in Nat
    BY <1>1, TurnLedger
  <2>2. schedule[t].next \in PointsOf(t)'
    BY TurnLedger
  <2> QED
    BY <1>1, <2>1, <2>2 DEF CursorFine
<1>5. CadenceFine(t)'
  <2> SUFFICES ASSUME NEW d \in PointsOf(t)', NEW e \in PointsOf(t)' \cup {schedule'[t].next},
                      e > d
               PROVE  \E f \in PointsOf(t)' \cup {schedule'[t].next} :
                        f > d /\ f - d <= StepAt(t, d)'
    BY DEF CadenceFine
  <2>1. CASE d \in Replays(t)
    <3>1. StepAt(t, d)' = schedule[t].interval /\ d \in Nat /\ d <= Latest(t)
      BY <2>1, TurnLedger
    <3>2. CASE d = Latest(t)
      <4>1. e = schedule'[t].next
        BY <1>1, <3>2, TurnLedger DEF PointsOf
      <4> QED
        BY <1>1, <3>1, <3>2, <4>1
    <3>3. CASE d # Latest(t)
      <4>1. d + schedule[t].interval \in Replays(t)
        BY <1>1, <2>1, <3>1, <3>3, NewestFacts DEF Replays
      <4>2. /\ d + schedule[t].interval \in PointsOf(t)'
            /\ d + schedule[t].interval > d
            /\ (d + schedule[t].interval) - d <= StepAt(t, d)'
        BY <1>1, <3>1, <4>1, TurnLedger
      <4> QED
        BY <4>2
    <3> QED
      BY <3>2, <3>3
  <2>2. CASE d \notin Replays(t)
    <3>1. d \in PointsOf(t) /\ d \in DOMAIN due[t] /\ d \in Nat
      BY <1>1, <2>2, TurnLedger DEF PointsOf
    <3>2. StepAt(t, d)' = StepAt(t, d)
      BY <3>1, TurnLedger DEF StepAt
    <3>3. PICK f \in PointsOf(t) \cup {schedule[t].next} : f > d
      BY <1>1, <2>2, <3>1, TurnLedger
    <3>4. PICK g \in PointsOf(t) \cup {schedule[t].next} : g > d /\ g - d <= StepAt(t, d)
      BY <3>1, <3>3 DEF LedgerFine, CadenceFine
    <3>5. g \in PointsOf(t)'
      BY <3>4, TurnLedger
    <3> QED
      BY <3>2, <3>4, <3>5
  <2> QED
    BY <2>1, <2>2
<1> QED
  BY <1>3, <1>4, <1>5

(* A point that the turn leaves undecided is the newest, and the cursor is *)
(* not past it.                                                            *)
LEMMA TurnPending ==
  ASSUME Typed, NEW t \in Topics, LedgerFine(t), Turns(t),
         NEW d \in DOMAIN Replayed(t), d \in PointsOf(t)', Replayed(t)[d].state = "pending"
  PROVE  d = Latest(t)
<1> SUFFICES ASSUME d # Latest(t) PROVE FALSE
  OBVIOUS
<1>1. t \in scan.left
  BY DEF Turns
<1>2. d \notin Replays(t)
  BY <1>1, ReplayedFacts DEF Replays
<1>3. d \in PointsOf(t) /\ d \in DOMAIN due[t] /\ due[t][d].state = "pending"
  BY <1>1, <1>2, TurnLedger, ReplayedFacts DEF PointsOf
<1>4. schedule[t].next <= d /\ \A e \in DOMAIN due[t] : e <= d
  BY <1>3 DEF LedgerFine, PendingFine
<1>5. PICK f \in PointsOf(t) : f > d
  BY <1>2, <1>3, <1>4, RowTyped, TurnLedger
<1>6. f \in DOMAIN due[t] /\ f \in Nat /\ d \in Nat
  BY <1>3, RowTyped DEF PointsOf
<1> QED
  BY <1>4, <1>5, <1>6

LEMMA LedgerStep ==
  ASSUME Typed, Typed', NEW t \in Topics, LedgerFine(t), Lives(t)
  PROVE  LedgerFine(t)'
<1>0. /\ schedule[t].next \in Nat /\ schedule[t].row \in Nat /\ now \in Nat
      /\ \A d \in DOMAIN due[t] : d \in Nat /\ d <= now
      /\ \A d \in PointsOf(t) : d \in DOMAIN due[t]
      /\ \A d \in DOMAIN due[t] : due[t][d].row \in Nat
      /\ \A i \in Intervals : i \in Nat \ {0}
  BY RowTyped, IntervalsAssumption DEF PointsOf
<1>1. CASE Keeps(t)
  <2>1. PointsOf(t)' = PointsOf(t) /\ \A d : StepAt(t, d)' = StepAt(t, d)
    BY <1>1 DEF Keeps, PointsOf, StepAt, Rows
  <2> QED
    BY <1>1, <2>1
    DEF Keeps, LedgerFine, EarlierFine, CursorFine, PendingFine, CadenceFine
<1>2. CASE Replans(t)
  <2>1. PointsOf(t)' = PointsOf(t) /\ \A d : StepAt(t, d)' = StepAt(t, d)
    BY <1>2 DEF Replans, PointsOf, StepAt, Rows
  <2>2. /\ due'[t] = due[t] /\ schedule'[t].row = schedule[t].row
        /\ schedule'[t].next \in Nat /\ schedule'[t].next <= schedule[t].next
        /\ schedule[t].next <= now => schedule'[t].next = schedule[t].next
        /\ schedule[t].next > now => schedule'[t].next > now
    BY <1>0, <1>2 DEF Replans, LesserOf
  <2>3. EarlierFine(t)'
    BY <1>0, <2>1, <2>2 DEF LedgerFine, EarlierFine
  <2>4. CursorFine(t)' /\ PendingFine(t)'
    BY <1>0, <2>1, <2>2 DEF LedgerFine, CursorFine, PendingFine
  <2>5. CadenceFine(t)'
    <3> SUFFICES ASSUME NEW d \in PointsOf(t), NEW e \in PointsOf(t) \cup {schedule'[t].next},
                        e > d
                 PROVE  \E f \in PointsOf(t) \cup {schedule'[t].next} :
                          f > d /\ f - d <= StepAt(t, d)
      BY <2>1 DEF CadenceFine
    <3>0. d \in Nat /\ d <= now /\ StepAt(t, d) \in Int
      BY <1>0, RowTyped DEF StepAt
    <3>1. \E g \in PointsOf(t) \cup {schedule[t].next} : g > d
      BY <1>0, <2>2, <3>0
    <3>2. PICK f \in PointsOf(t) \cup {schedule[t].next} : f > d /\ f - d <= StepAt(t, d)
      BY <3>1 DEF LedgerFine, CadenceFine
    <3>3. CASE f \in PointsOf(t)
      BY <3>2, <3>3
    <3>4. CASE f = schedule[t].next
      <4>1. schedule'[t].next > d /\ schedule'[t].next - d <= StepAt(t, d)
        BY <1>0, <2>2, <3>0, <3>2, <3>4
      <4> QED
        BY <4>1
    <3> QED
      BY <3>3, <3>4
  <2> QED
    BY <2>3, <2>4, <2>5 DEF LedgerFine
<1>3. CASE Selects(t)
  <2>1. /\ due'[t] = due[t] /\ schedule'[t].row = schedule[t].row + 1
        /\ schedule'[t].next = now /\ \A d \in DOMAIN due[t] : d < now
    BY <1>0, <1>3 DEF Selects
  <2>2. PointsOf(t)' = {}
    BY <1>0, <2>1 DEF PointsOf, Rows, LedgerFine, EarlierFine
  <2> QED
    BY <1>0, <2>1, <2>2
    DEF LedgerFine, EarlierFine, CursorFine, PendingFine, CadenceFine
<1>4. CASE Defers(t)
  <2>1. /\ Turns(t) /\ due'[t] = Replayed(t) /\ t \in scan.left
        /\ schedule'[t].next = schedule[t].next
    BY <1>4 DEF Defers, Turns
  <2>2. PendingFine(t)'
    <3> SUFFICES ASSUME NEW d \in PointsOf(t)', due'[t][d].state = "pending"
                 PROVE  schedule'[t].next <= d /\ \A e \in DOMAIN due'[t] : e <= d
      BY DEF PendingFine
    <3>1. d = Latest(t)
      BY <2>1, TurnPending DEF PointsOf
    <3> QED
      BY <2>1, <3>1, TurnLedger
  <2> QED
    BY <2>1, <2>2, TurnFine DEF LedgerFine
<1>5. ASSUME NEW state \in {"skipped", "accepted"}, Decides(t, state) PROVE LedgerFine(t)'
  <2>1. Turns(t) /\ schedule'[t].next = Latest(t) + schedule[t].interval
    BY <1>5 DEF Decides
  <2>2. PendingFine(t)'
    <3> SUFFICES ASSUME NEW d \in PointsOf(t)', due'[t][d].state = "pending" PROVE FALSE
      BY DEF PendingFine
    <3>1. d \in DOMAIN Replayed(t)
      BY <2>1 DEF PointsOf, Turns
    <3>2. d # Latest(t) /\ Replayed(t)[d].state = "pending"
      BY <1>5, <3>1 DEF Decides
    <3> QED
      BY <2>1, <3>1, <3>2, TurnPending
  <2> QED
    BY <2>1, <2>2, TurnFine DEF LedgerFine
<1> QED
  BY <1>1, <1>2, <1>3, <1>4, <1>5 DEF Lives, Skips, Accepts

LedgersFine == \A t \in Topics : LedgerFine(t)

LEMMA LedgersFineAlways == Spec => []LedgersFine
<1>1. Init => LedgersFine
  BY DEF Init, LedgersFine, LedgerFine, EarlierFine, CursorFine, PendingFine, CadenceFine,
         PointsOf
<1>2. Typed /\ LedgersFine /\ [Next]_vars => LedgersFine'
  BY TypedStep, LedgerStep DEF LedgersFine
<1> QED
  BY <1>1, <1>2, TypedAlways, PTL DEF Spec

(* No due point is left out of a topic's ledger, whatever was skipped,     *)
(* replayed after an outage, deferred by a busy source or rescheduled.     *)
THEOREM CadenceIsKept == Spec => []CadenceKept
<1>1. Typed /\ LedgersFine => CadenceKept
  <2> SUFFICES ASSUME Typed, LedgersFine, NEW t \in Topics, NEW d \in PointsOf(t),
                      {e \in PointsOf(t) \cup {schedule[t].next} : e > d} # {}
               PROVE  Min({e \in PointsOf(t) \cup {schedule[t].next} : e > d}) - d
                        <= d - due[t][d].start - Lookback
    BY DEF CadenceKept
  <2> DEFINE S == {e \in PointsOf(t) \cup {schedule[t].next} : e > d}
  <2>1. \A e \in PointsOf(t) \cup {schedule[t].next} :
          e \in Nat /\ e <= now + schedule[t].next
    BY RowTyped DEF PointsOf
  <2>2. /\ S \in SUBSET Int /\ S # {} /\ 0 \in Int /\ now + schedule[t].next \in Int
        /\ \A e \in S : 0 <= e /\ e <= now + schedule[t].next
    BY <2>1, RowTyped
  <2>3. PICK f \in S : f - d <= StepAt(t, d)
    BY DEF LedgersFine, LedgerFine, CadenceFine
  <2>4. d \in Nat /\ StepAt(t, d) \in Int /\ f \in Int
    BY <2>1, RowTyped DEF StepAt, PointsOf
  <2> HIDE DEF S
  <2>5. Min(S) \in Int /\ Min(S) <= f
    BY <2>2, MinOf
  <2>6. Min(S) - d <= StepAt(t, d)
    BY <2>3, <2>4, <2>5
  <2> QED
    BY <2>6 DEF S, StepAt
<1> QED
  BY <1>1, LedgersFineAlways, TypedAlways, PTL

(* What a busy source left undecided is the newest point of its row, and   *)
(* the next scan comes back to it.                                         *)
THEOREM PendingIsNewest == Spec => []PendingDueIsTheNewest
<1>1. Typed /\ LedgersFine => PendingDueIsTheNewest
  <2> SUFFICES ASSUME Typed, LedgersFine, NEW t \in Topics, NEW d \in PointsOf(t),
                      due[t][d].state = "pending"
               PROVE  d = Max(PointsOf(t)) /\ schedule[t].next <= d
    BY DEF PendingDueIsTheNewest
  <2>1. schedule[t].next <= d /\ \A e \in DOMAIN due[t] : e <= d
    BY DEF LedgersFine, LedgerFine, PendingFine
  <2>2. PointsOf(t) \subseteq DOMAIN due[t] /\ \A e \in DOMAIN due[t] : e \in Nat
    BY RowTyped DEF PointsOf
  <2>3. \A e \in PointsOf(t) : d >= e
    BY <2>1, <2>2
  <2>4. \A m \in PointsOf(t) : (\A e \in PointsOf(t) : m >= e) => m = d
    BY <2>2, <2>3
  <2>5. Max(PointsOf(t)) = d
    BY <2>3, <2>4 DEF Max
  <2> QED
    BY <2>1, <2>5
<1> QED
  BY <1>1, LedgersFineAlways, TypedAlways, PTL

-----------------------------------------------------------------------------
(* The search jobs of a topic, in the order of their windows.              *)
JobsFine(t) ==
  \A j \in Scheduled(t) :
    /\ j.row <= schedule[t].row
    /\ j.row = schedule[t].row => j.end < schedule[t].next
    /\ j.end \in DOMAIN due[t] /\ j.created < j.end + StepAt(t, j.end)
LastFine(t) ==
  /\ schedule[t].last = NoJob => \A j \in Scheduled(t) : j.row # schedule[t].row
  /\ schedule[t].last # NoJob =>
       /\ schedule[t].last \in Scheduled(t) /\ schedule[t].last.row = schedule[t].row
       /\ \A j \in Scheduled(t) :
            j.row = schedule[t].row => j.end <= schedule[t].last.end
WindowsFine(t) ==
  \A j \in Scheduled(t) :
    /\ j.start + Lookback < j.end
    /\ Before(j) # {} =>
         \E k \in Before(j) : /\ k.end = j.start + Lookback
                              /\ \A m \in Before(j) : m.end <= k.end

LEMMA ScheduledTyped ==
  ASSUME Typed, NEW t \in Topics, NEW j \in Scheduled(t)
  PROVE  /\ j \in SearchJobs /\ j.topic = t /\ j.row \in Nat /\ j.created \in Nat
         /\ j.start \in Int /\ j.end \in Nat /\ j.end <= now
  BY DEF Scheduled, Typed, JobsTyped, SearchJobs

LEMMA AcceptStep ==
  ASSUME Typed, NEW t \in Topics, LedgerFine(t), JobsFine(t), LastFine(t), WindowsFine(t),
         Accepts(t)
  PROVE  JobsFine(t)' /\ LastFine(t)' /\ WindowsFine(t)'
<1>n. PICK n : n = ScheduledJob(t)
  OBVIOUS
<1>0. /\ Turns(t) /\ t \in scan.left
      /\ schedule'[t].row = schedule[t].row /\ schedule'[t].last = n
      /\ schedule'[t].next = Latest(t) + schedule[t].interval
      /\ Scheduled(t)' = Scheduled(t) \cup {n}
  BY <1>n DEF Accepts, Decides, Turns
<1>1. /\ schedule[t].next \in Nat /\ schedule[t].interval \in Nat \ {0} /\ Latest(t) \in Nat
      /\ schedule[t].next <= Latest(t) /\ scan.at \in Nat /\ Lookback \in Nat
      /\ scan.at < Latest(t) + schedule[t].interval /\ schedule[t].row \in Nat
  BY <1>0, RowTyped, TurnPoints, TurnLedger
<1>2. schedule[t].last # NoJob => /\ schedule[t].last \in Scheduled(t)
                                  /\ schedule[t].last.end \in Nat
                                  /\ schedule[t].last.end < schedule[t].next
  BY ScheduledTyped DEF LastFine, JobsFine
<1>3. PreviousEnd(t) \in Int /\ PreviousEnd(t) < Latest(t)
  BY <1>1, <1>2 DEF PreviousEnd
<1>4. /\ n.topic = t /\ n.row = schedule[t].row /\ n.created = scan.at
      /\ n.start = PreviousEnd(t) - Lookback /\ n.end = Latest(t)
      /\ n.start + Lookback = PreviousEnd(t)
  BY <1>n, <1>1, <1>3 DEF ScheduledJob, Rows
<1>5. n # NoJob
  <2>1. n \in SearchJobs
    BY <1>n, <1>1, <1>3 DEF ScheduledJob, Rows, SearchJobs
  <2> QED
    BY <2>1, NoJobAssumption DEF SearchJobs
<1>6. \A j \in Scheduled(t) : /\ j.topic = t /\ j.end \in Nat /\ j.row \in Nat
                              /\ j.row <= schedule[t].row
                              /\ j.row = schedule[t].row => j.end < Latest(t)
  BY <1>1, ScheduledTyped DEF JobsFine
<1>7. JobsFine(t)'
  <2>1. ASSUME NEW j \in Scheduled(t)
        PROVE  /\ j.row <= schedule'[t].row
               /\ j.row = schedule'[t].row => j.end < schedule'[t].next
               /\ j.end \in DOMAIN due'[t] /\ j.created < j.end + StepAt(t, j.end)'
    <3>1. j.end \in DOMAIN due[t] /\ j.created < j.end + StepAt(t, j.end)
      BY DEF JobsFine
    <3>2. StepAt(t, j.end)' = StepAt(t, j.end) /\ j.end \in DOMAIN due'[t]
      BY <1>0, <3>1, TurnLedger DEF StepAt
    <3> QED
      BY <1>0, <1>1, <1>6, <3>1, <3>2
  <2>2. /\ n.row <= schedule'[t].row
        /\ n.end < schedule'[t].next
        /\ n.end \in DOMAIN due'[t] /\ n.created < n.end + StepAt(t, n.end)'
    BY <1>0, <1>1, <1>4, TurnLedger
  <2> QED
    BY <1>0, <2>1, <2>2 DEF JobsFine
<1>8. LastFine(t)'
  BY <1>0, <1>1, <1>4, <1>5, <1>6 DEF LastFine
<1>9. WindowsFine(t)'
  <2>1. \A j \in Scheduled(t) : Before(j)' = Before(j)
    BY <1>0, <1>4, <1>6, <1>1 DEF Before
  <2>2. Before(n)' = {k \in Scheduled(t) : k.row = schedule[t].row}
    BY <1>0, <1>1, <1>4, <1>6 DEF Before
  <2>3. Before(n)' # {} => /\ schedule[t].last \in Before(n)'
                           /\ schedule[t].last.end = n.start + Lookback
                           /\ \A m \in Before(n)' : m.end <= schedule[t].last.end
    BY <1>4, <2>2 DEF LastFine, PreviousEnd
  <2> QED
    BY <1>0, <1>3, <1>4, <2>1, <2>3 DEF WindowsFine
<1> QED
  BY <1>7, <1>8, <1>9

JobChains == \A t \in Topics : JobsFine(t) /\ LastFine(t) /\ WindowsFine(t)

LEMMA ChainStep ==
  ASSUME Typed, NEW t \in Topics, LedgerFine(t), JobsFine(t), LastFine(t), WindowsFine(t),
         Lives(t)
  PROVE  JobsFine(t)' /\ LastFine(t)' /\ WindowsFine(t)'
<1>0. /\ \A j \in Scheduled(t) : /\ j.topic = t /\ j.end \in Nat /\ j.end <= now
                                 /\ j.row \in Nat
      /\ schedule[t].next \in Nat /\ schedule[t].row \in Nat /\ now \in Nat
      /\ \A i \in Intervals : i \in Nat \ {0}
  BY ScheduledTyped, RowTyped, IntervalsAssumption
<1>1. ASSUME Scheduled(t)' = Scheduled(t) PROVE WindowsFine(t)'
  <2>1. \A j \in Scheduled(t) : Before(j)' = Before(j)
    BY <1>0, <1>1 DEF Before
  <2> QED
    BY <1>1, <2>1 DEF WindowsFine
<1>2. CASE Keeps(t)
  BY <1>1, <1>2 DEF Keeps, JobsFine, LastFine, StepAt
<1>3. CASE Replans(t)
  <2>1. \A j \in Scheduled(t) : j.row = schedule[t].row => j.end < schedule'[t].next
    BY <1>0, <1>3 DEF Replans, LesserOf, JobsFine
  <2> QED
    BY <1>1, <1>3, <2>1 DEF Replans, JobsFine, LastFine, StepAt
<1>4. CASE Selects(t)
  <2>1. \A j \in Scheduled(t) : j.row <= schedule'[t].row /\ j.row # schedule'[t].row
    BY <1>0, <1>4 DEF Selects, JobsFine
  <2> QED
    BY <1>1, <1>4, <2>1 DEF Selects, JobsFine, LastFine, StepAt
<1>5. ASSUME Turns(t), Scheduled(t)' = Scheduled(t), schedule'[t].last = schedule[t].last,
             \/ schedule'[t].next = schedule[t].next
             \/ schedule'[t].next = Latest(t) + schedule[t].interval
      PROVE  JobsFine(t)' /\ LastFine(t)' /\ WindowsFine(t)'
  <2>1. schedule'[t].row = schedule[t].row /\ t \in scan.left
    BY <1>5 DEF Turns
  <2>2. schedule[t].next <= schedule'[t].next /\ schedule'[t].next \in Nat
    BY <1>0, <1>5, <2>1, TurnPoints, TurnLedger, RowTyped
  <2>3. \A j \in Scheduled(t) : StepAt(t, j.end)' = StepAt(t, j.end) /\ j.end \in DOMAIN due'[t]
    BY <1>5, TurnLedger DEF JobsFine, StepAt
  <2>4. JobsFine(t)'
    BY <1>0, <1>5, <2>1, <2>2, <2>3 DEF JobsFine
  <2> QED
    BY <1>1, <1>5, <2>1, <2>4 DEF LastFine
<1>6. CASE Defers(t)
  BY <1>5, <1>6 DEF Defers
<1>7. CASE Skips(t)
  BY <1>5, <1>7 DEF Skips, Decides
<1>8. CASE Accepts(t)
  BY <1>8, AcceptStep
<1> QED
  BY <1>2, <1>3, <1>4, <1>6, <1>7, <1>8 DEF Lives

LEMMA JobChainsAlways == Spec => []JobChains
<1>1. Init => JobChains
  BY DEF Init, JobChains, JobsFine, LastFine, WindowsFine, Scheduled
<1>2. Typed /\ LedgersFine /\ JobChains /\ [Next]_vars => JobChains'
  BY TypedStep, ChainStep DEF LedgersFine, JobChains
<1> QED
  BY <1>1, <1>2, TypedAlways, LedgersFineAlways, PTL DEF Spec

(* A job is accepted only for the newest due point of its topic: whatever  *)
(* an outage left due before it is missed, never collected twice.          *)
THEOREM OutageCollapses == Spec => []OutageCollapsesToOne
<1>1. JobChains => OutageCollapsesToOne
  BY DEF JobChains, JobsFine, OutageCollapsesToOne, StepAt
<1> QED
  BY <1>1, JobChainsAlways, PTL

(* The windows of a topic's scheduled jobs meet: nothing published between *)
(* two collections falls between their windows.                            *)
THEOREM WindowsMeet == Spec => []AcceptedWindowsMeet
<1>1. Typed /\ JobChains => AcceptedWindowsMeet
  <2> SUFFICES ASSUME Typed, JobChains, NEW t \in Topics, NEW j \in Scheduled(t)
               PROVE  /\ j.start + Lookback < j.end
                      /\ Before(j) # {} => j.start + Lookback = Max({k.end : k \in Before(j)})
    BY DEF AcceptedWindowsMeet
  <2>1. j.start + Lookback < j.end
    BY DEF JobChains, WindowsFine
  <2>2. ASSUME Before(j) # {} PROVE j.start + Lookback = Max({k.end : k \in Before(j)})
    <3>1. PICK k \in Before(j) : /\ k.end = j.start + Lookback
                                 /\ \A m \in Before(j) : m.end <= k.end
      BY <2>2 DEF JobChains, WindowsFine
    <3>2. \A m \in Before(j) : m.end \in Nat
      BY ScheduledTyped DEF Before
    <3>3. \A m \in {l.end : l \in Before(j)} : k.end >= m /\ m \in Nat
      BY <3>1, <3>2
    <3>4. \A m \in {l.end : l \in Before(j)} :
            (\A x \in {l.end : l \in Before(j)} : m >= x) => m = k.end
      BY <3>2, <3>3
    <3>5. Max({l.end : l \in Before(j)}) = k.end
      BY <3>3, <3>4 DEF Max
    <3> QED
      BY <3>1, <3>5
  <2> QED
    BY <2>1, <2>2
<1> QED
  BY <1>1, JobChainsAlways, TypedAlways, PTL
=============================================================================

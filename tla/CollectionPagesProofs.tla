----------------------- MODULE CollectionPagesProofs -----------------------
(***************************************************************************)
(* Theorems about CollectionPages, for any number of jobs, pages, requests *)
(* and handlers: first the window and the trail of pages, which need       *)
(* nothing of the ledger, then what each step reserves and charges, stated *)
(* for a ledger that other jobs use too (HandlersProofs), and the bounds   *)
(* of a scan.                                                              *)
(***************************************************************************)
EXTENDS CollectionPages, SharedRowsProofs

-----------------------------------------------------------------------------
(* Types, no stricter than the theorem needs.                              *)

Cursors == [pages : Nat, rescans : Nat, seen : SUBSET Nat, expected : Nat,
            restart : BOOLEAN, done : BOOLEAN, seq : Nat]
Windows == [status : {"absent", "running", "partial", "confirmed"}, job : Jobs \cup {NoJob},
            seq : Nat, proof : Int]
Trails == [epoch : Nat, page : Int]
ScannerPlaces == {"start", "loop", "fetching", "stopped", "failing", "confirmed", "report"}
ScanOutcomes == {"none", "succeeded", "partially_succeeded", "failed", "queued"}
Ids == Jobs \X Nat
SentRows == [total : Nat, cycle : Nat, closed : BOOLEAN]
Scanners == [job : Jobs, epoch : Nat, pc : ScannerPlaces, token : Nat, seq : Nat, first : BOOLEAN,
             rescan : BOOLEAN, pending : SUBSET Ids, outcome : ScanOutcomes]

ScanTyped ==
  /\ cursor \in [Jobs -> Cursors]
  /\ sent \in [Jobs -> SentRows]
  /\ window \in Windows
  /\ scanners \subseteq Scanners
  /\ trail \in [Jobs -> Trails]

-----------------------------------------------------------------------------
(* The argument: one handler at most holds the current epoch of its job,   *)
(* and only it moves the cursor and the trail. Its token is the page after *)
(* the last of its trail, because every page it was already led to is in   *)
(* seen, so a link back is a loop and ends the scan.                       *)

CurrentScanner(h) == h.epoch = job[h.job].epoch
ScanEpochsBounded == \A h \in scanners : h.epoch <= job[h.job].epoch
OneScannerPerEpoch == \A g, h \in scanners : g.job = h.job /\ g.epoch = h.epoch => g = h
Sound(h) == (h.rescan => h.token = NoToken) /\ (h.pc = "report" => h.outcome # "none")
ScannersSound == \A h \in scanners : Sound(h)
OnTrail(h) ==
  h.token # NoToken =>
    /\ h.token = 1 \/ trail[h.job] = [epoch |-> h.epoch, page |-> h.token - 1]
    /\ 2 .. h.token \subseteq cursor[h.job].seen
CurrentOnTrail == \A h \in scanners : CurrentScanner(h) => OnTrail(h)
ScanInv ==
  /\ JobsTyped /\ ScanTyped
  /\ ScanEpochsBounded /\ OneScannerPerEpoch /\ ScannersSound /\ CurrentOnTrail
  /\ ConfirmedWindowWasScanned

-----------------------------------------------------------------------------
(* What the updates of the rows make of them.                              *)

LEMMA WindowRecords ==
  /\ \A w \in Windows : [w EXCEPT !.status = "partial"] \in Windows
  /\ \A w \in Windows : [w EXCEPT !.status = "partial"].status = "partial"
  /\ \A w \in Windows, j \in Jobs, s \in Nat :
       [w EXCEPT !.status = "running", !.job = j, !.seq = s] \in Windows
  BY DEF Windows

(* A scanner after a step of its own other than a commit.                  *)
Later(h, g) ==
  /\ g \in Scanners /\ g.job = h.job /\ g.epoch = h.epoch
  /\ g.token \in {h.token, NoToken} /\ Sound(g)

LEMMA ScannerRecords ==
  ASSUME NEW h \in Scanners, Sound(h)
  PROVE  /\ \A pc \in ScannerPlaces \ {"report"} : Later(h, [h EXCEPT !.pc = pc])
         /\ \A o \in ScanOutcomes \ {"none"} : Later(h, [h EXCEPT !.pc = "report", !.outcome = o, !.pending = {}])
         /\ Later(h, [h EXCEPT !.pc = "failing", !.pending = {}])
         /\ \A b \in BOOLEAN : Later(h, [h EXCEPT !.rescan = b, !.token = IF b THEN NoToken ELSE @])
BY DEF Scanners, Later, ScannerPlaces, ScanOutcomes, NoToken, Sound

LEMMA AskingLater ==
  ASSUME NEW h \in Scanners, Sound(h)
  PROVE  /\ Later(h, Asking(h))
         /\ Later(h, [Asking(h) EXCEPT !.pc = "stopped"])
         /\ \A n \in Nat : Later(h, [Asking(h) EXCEPT !.pc = "fetching", !.first = FALSE,
                                       !.pending = @ \cup {<<h.job, n>>}])
<1>1. MustRescan(cursor[h.job], h.token) \in BOOLEAN
  BY DEF MustRescan
<1>2. Later(h, Asking(h))
  <2>1. CASE h.pc = "fetching"
    BY <2>1 DEF Asking, Later
  <2>2. CASE h.pc # "fetching"
    BY <1>1, <2>2, ScannerRecords DEF Asking
  <2> QED
    BY <2>1, <2>2
<1>3. \A g \in Scanners : Later(h, g) => Later(h, [g EXCEPT !.pc = "stopped"])
  BY DEF Later, Scanners, ScannerPlaces, Sound
<1>4. ASSUME NEW g \in Scanners, NEW n \in Nat, Later(h, g)
      PROVE  Later(h, [g EXCEPT !.pc = "fetching", !.first = FALSE,
                                !.pending = @ \cup {<<h.job, n>>}])
  <2>1. <<h.job, n>> \in Ids
    BY DEF Scanners, Ids
  <2> QED
    BY <1>4, <2>1 DEF Later, Scanners, ScannerPlaces, Sound
<1>5. Asking(h) \in Scanners
  BY <1>2 DEF Later
<1> QED
  BY <1>2, <1>3, <1>4, <1>5

(* The row of a job that sends a request, begins a cycle or ends one.      *)
LEMMA SentRecords ==
  ASSUME NEW x \in SentRows
  PROVE  /\ x.total + 1 \in Nat
         /\ \A b \in BOOLEAN : [x EXCEPT !.cycle = IF b THEN 0 ELSE @, !.closed = FALSE] \in SentRows
         /\ [x EXCEPT !.total = @ + 1, !.cycle = @ + 1] \in SentRows
         /\ [x EXCEPT !.closed = TRUE] \in SentRows
<1>1. x.total \in Nat /\ x.cycle \in Nat /\ x.total + 1 \in Nat /\ x.cycle + 1 \in Nat
  BY DEF SentRows
<1>2. \A n \in Nat : [x EXCEPT !.cycle = n, !.closed = FALSE] \in SentRows
  BY DEF SentRows
<1>3. ASSUME NEW b \in BOOLEAN
      PROVE  [x EXCEPT !.cycle = IF b THEN 0 ELSE @, !.closed = FALSE] \in SentRows
  <2>1. (IF b THEN 0 ELSE x.cycle) \in Nat
    BY <1>1
  <2> QED
    BY <1>2, <2>1
<1>4. \A n, m \in Nat : [x EXCEPT !.total = n, !.cycle = m] \in SentRows
  BY DEF SentRows
<1>5. [x EXCEPT !.closed = TRUE] \in SentRows
  BY DEF SentRows
<1> QED
  BY <1>1, <1>3, <1>4, <1>5

-----------------------------------------------------------------------------
(* What the steps do to the window: nothing but a commit confirms it.      *)

LEMMA MarkPartialOpens ==
  ASSUME ScanTyped, NEW j \in Jobs, MarkPartial(j)
  PROVE  window' \in Windows /\ ~Confirmed'
<1>1. Begun(j) \in Windows
  <2>1. cursor[j].seq \in Nat
    BY DEF ScanTyped, Cursors
  <2> QED
    BY <2>1, WindowRecords DEF Begun, ScanTyped
<1> QED
  BY <1>1, WindowRecords DEF MarkPartial, Confirmed

(* The page a cursor leads to after an answer of the source.               *)
LEMMA AdvanceLeads ==
  ASSUME NEW c \in Cursors, NEW rescan \in BOOLEAN, NEW token \in Nat,
         rescan => token = NoToken,
         NEW page, page \in PagesOf(token) \/ page.state = "stopped",
         token # NoToken => 2 .. token \subseteq c.seen
  PROVE  LET next == Advanced(c, rescan, page)
             number == IF token = NoToken THEN 1 ELSE token
         IN /\ next \in Cursors
            /\ next.expected # NoToken =>
                 /\ next.expected \in {1, number + 1}
                 /\ 2 .. next.expected \subseteq next.seen
<1> DEFINE next == Advanced(c, rescan, page)
           number == IF token = NoToken THEN 1 ELSE token
           seen == IF rescan THEN {} ELSE c.seen
           goes == /\ page.state = "more" /\ page.next \notin seen
                   /\ ~(c.pages + 1 >= MaxPages)
<1>1. /\ next.expected = IF goes THEN page.next ELSE NoToken
      /\ next.seen = IF goes THEN seen \cup {page.next} ELSE seen
      /\ next.pages = c.pages + 1 /\ next.seq = c.seq + 1
      /\ next.rescans = IF rescan THEN c.rescans + 1 ELSE c.rescans
      /\ next.restart \in BOOLEAN /\ next.done \in BOOLEAN
  BY DEF Advanced
<1>2. page.state = "more" => page.next \in 1 .. number + 1
  BY DEF PagesOf
<1>3. seen \subseteq Nat /\ number \in Nat /\ number >= 1
  BY DEF Cursors, NoToken
<1>4. next \in Cursors
  <2>1. next = [pages |-> next.pages, rescans |-> next.rescans, seen |-> next.seen,
                expected |-> next.expected, restart |-> next.restart, done |-> next.done,
                seq |-> next.seq]
    BY DEF Advanced
  <2>2. /\ next.pages \in Nat /\ next.rescans \in Nat /\ next.seq \in Nat
        /\ next.expected \in Nat /\ next.seen \in SUBSET Nat
    BY <1>1, <1>2, <1>3 DEF Cursors, NoToken
  <2> HIDE DEF next
  <2> QED
    BY <1>1, <2>1, <2>2 DEF Cursors
<1>5. ASSUME next.expected # NoToken
      PROVE  next.expected \in {1, number + 1} /\ 2 .. next.expected \subseteq next.seen
  <2>1. /\ page.state = "more" /\ next.expected = page.next /\ page.next \notin seen
        /\ next.seen = seen \cup {page.next}
    BY <1>1, <1>5
  <2>2. 2 .. number \subseteq seen
    BY DEF NoToken
  <2> QED
    BY <1>2, <1>3, <2>1, <2>2
<1> QED
  BY <1>4, <1>5

-----------------------------------------------------------------------------
(* The step that matters: a page is committed.                             *)

Fresh(h, s, token) == [h EXCEPT !.seq = s, !.pending = {}, !.token = token, !.rescan = FALSE]

LEMMA FreshScanners ==
  ASSUME NEW h \in Scanners, NEW s \in Nat, NEW token \in Nat
  PROVE  /\ Fresh(h, s, token) \in Scanners
         /\ Fresh(h, s, token).job = h.job /\ Fresh(h, s, token).epoch = h.epoch
         /\ Fresh(h, s, token).token = token /\ Fresh(h, s, token).rescan = FALSE
BY DEF Scanners, Fresh

(* The same scanner at another place.                                      *)
Placed(f, g) ==
  /\ g \in Scanners /\ g.job = f.job /\ g.epoch = f.epoch /\ g.token = f.token /\ g.rescan = f.rescan
  /\ (g.pc = "report" => g.outcome # "none")

LEMMA PlacedScanners ==
  ASSUME NEW f \in Scanners
  PROVE  /\ \A pc \in ScannerPlaces \ {"report"} : Placed(f, [f EXCEPT !.pc = pc])
         /\ \A o \in ScanOutcomes \ {"none"} : Placed(f, [f EXCEPT !.pc = "report", !.outcome = o])
BY DEF Placed, Scanners, ScannerPlaces, ScanOutcomes

Number(h) == IF h.token = NoToken THEN 1 ELSE h.token

(* A commit of h leads it to the page after the one it scanned.            *)
Led(h, next, new) ==
  /\ next \in Cursors
  /\ cursor' = [cursor EXCEPT ![h.job] = next]
  /\ trail' = [trail EXCEPT ![h.job] = [epoch |-> h.epoch, page |-> Number(h)]]
  /\ scanners' = (scanners \ {h}) \cup {new}
  /\ new \in Scanners /\ new.job = h.job /\ new.epoch = h.epoch
  /\ new.token = next.expected /\ Sound(new)
  /\ next.expected # NoToken =>
       next.expected \in {1, Number(h) + 1} /\ 2 .. next.expected \subseteq next.seen
  /\ window' \in Windows /\ ConfirmedWindowWasScanned'

LEMMA CommitLeads ==
  ASSUME ScanInv, NEW h \in scanners, Commit(h)
  PROVE  \E next, new : Led(h, next, new)
<1>1. PICK page : /\ page \in PagesOf(h.token) \/ page.state = "stopped"
                  /\ CommitPage(h, page)
  <2>1. CASE h.pc = "fetching"
    BY <2>1, Zenon DEF Commit
  <2>2. CASE h.pc # "fetching"
    <3> DEFINE stop == [state |-> "stopped", next |-> NoToken, proof |-> FALSE,
                        reason |-> "budget_exhausted"]
    <3>1. CommitPage(h, stop)
      BY <2>2, Zenon DEF Commit
    <3>2. stop.state = "stopped"
      OBVIOUS
    <3> HIDE DEF stop
    <3> QED
      BY <3>1, <3>2
  <2> QED
    BY <2>1, <2>2
<1>2. h \in Scanners /\ h.job \in Jobs /\ h.epoch \in Nat /\ h.token \in Nat /\ h.rescan \in BOOLEAN
  BY DEF ScanInv, ScanTyped, Scanners
<1>3. cursor[h.job] \in Cursors /\ window \in Windows
  BY <1>2 DEF ScanInv, ScanTyped
<1>4. OnTrail(h) /\ Sound(h) /\ (h.rescan => h.token = NoToken)
  BY DEF ScanInv, CurrentOnTrail, ScannersSound, Sound, CurrentScanner, Commit, MayCommit,
         MayWork, Holds
<1> DEFINE next == Advanced(cursor[h.job], h.rescan, page)
           reached == IF Number(h) = 1 \/ trail[h.job] = [epoch |-> h.epoch, page |-> Number(h) - 1]
                        THEN Number(h) ELSE Broken
           status == IF next.expected # NoToken THEN "running"
                     ELSE IF Ends(page, next) /\ page.proof THEN "confirmed" ELSE "partial"
<1>5. /\ next \in Cursors
      /\ next.expected # NoToken =>
           next.expected \in {1, Number(h) + 1} /\ 2 .. next.expected \subseteq next.seen
  <2>1. h.token # NoToken => 2 .. h.token \subseteq cursor[h.job].seen
    BY <1>4 DEF OnTrail
  <2> QED
    BY <1>1, <1>2, <1>3, <1>4, <2>1, AdvanceLeads DEF Number
<1>6. reached = Number(h) /\ Number(h) \in Nat /\ Number(h) > 0
  BY <1>2, <1>4 DEF OnTrail, Number, NoToken
<1>7. /\ cursor' = [cursor EXCEPT ![h.job] = next]
      /\ trail' = [trail EXCEPT ![h.job] = [epoch |-> h.epoch, page |-> reached]]
      /\ window' = [status |-> status, job |-> h.job, seq |-> next.seq,
                    proof |-> IF status = "confirmed" THEN reached ELSE window.proof]
  BY <1>1, Zenon DEF CommitPage, Number
<1>8. \E new : /\ scanners' = (scanners \ {h}) \cup {new}
               /\ new \in Scanners /\ new.job = h.job /\ new.epoch = h.epoch
               /\ new.token = next.expected /\ Sound(new)
  <2> DEFINE fresh == [h EXCEPT !.seq = next.seq, !.pending = {}, !.token = next.expected,
                                !.rescan = FALSE]
  <2>1. \/ \E pc \in {"loop", "confirmed"} : Becomes(h, [fresh EXCEPT !.pc = pc])
        \/ \E outcome \in PartialOutcomes(h.job, page, next) :
             Becomes(h, [fresh EXCEPT !.pc = "report", !.outcome = outcome])
    BY <1>1 DEF CommitPage
  <2>2. /\ {"loop", "confirmed"} \subseteq ScannerPlaces \ {"report"}
        /\ PartialOutcomes(h.job, page, next) \subseteq ScanOutcomes \ {"none"}
    BY DEF ScannerPlaces, PartialOutcomes, ScanOutcomes
  <2>3. next.seq \in Nat /\ next.expected \in Nat
    BY <1>5 DEF Cursors
  <2>4. /\ fresh \in Scanners /\ fresh.job = h.job /\ fresh.epoch = h.epoch
        /\ fresh.token = next.expected /\ fresh.rescan = FALSE
    <3>1. fresh = Fresh(h, next.seq, next.expected)
      BY DEF Fresh
    <3> HIDE DEF next, fresh
    <3> QED
      BY <1>2, <2>3, <3>1, FreshScanners
  <2> HIDE DEF fresh, next
  <2>5. \E new : scanners' = (scanners \ {h}) \cup {new} /\ Placed(fresh, new)
    BY <2>1, <2>2, <2>4, PlacedScanners DEF Becomes
  <2> QED
    BY <2>4, <2>5 DEF Placed, Sound
<1>9. window' \in Windows /\ ConfirmedWindowWasScanned'
  <2>1. next.seq \in Nat /\ window.proof \in Int
    BY <1>3, <1>5 DEF Cursors, Windows
  <2>2. status \in {"running", "confirmed", "partial"}
    OBVIOUS
  <2> HIDE DEF next, status, reached
  <2> QED
    BY <1>2, <1>6, <1>7, <2>1, <2>2 DEF Windows, ConfirmedWindowWasScanned, Confirmed
<1> QED
  <2> HIDE DEF next, reached
  <2> QED
    BY <1>5, <1>6, <1>7, <1>8, <1>9 DEF Led

LEMMA CommitKeeps ==
  ASSUME ScanInv, NEW h \in scanners, Commit(h)
  PROVE  ScanInv'
<1>1. PICK next, new : Led(h, next, new)
  BY CommitLeads
<1>2. job' = job /\ sent' = sent
  BY DEF Commit
<1>3. /\ JobsTyped /\ ScanTyped
      /\ ScanEpochsBounded /\ OneScannerPerEpoch /\ ScannersSound /\ CurrentOnTrail
  BY DEF ScanInv
<1>4. /\ \A g \in scanners : g \in Scanners /\ g.job \in Jobs /\ g.epoch \in Nat
      /\ Number(h) \in Nat /\ CurrentScanner(h)
  BY <1>3 DEF ScanTyped, Scanners, Number, Commit, MayCommit, MayWork, Holds, CurrentScanner
<1>5. JobsTyped' /\ ScanTyped'
  <2>1. [epoch |-> h.epoch, page |-> Number(h)] \in Trails
    BY <1>4 DEF Trails
  <2> QED
    BY <1>1, <1>2, <1>3, <1>4, <2>1 DEF JobsTyped, ScanTyped, Led
<1>6. \A g \in scanners' : g = new \/ (g \in scanners /\ g # h)
  BY <1>1 DEF Led
<1>7. new.job = h.job /\ new.epoch = h.epoch /\ Sound(new)
  BY <1>1 DEF Led
<1>8. ScanEpochsBounded' /\ OneScannerPerEpoch' /\ ScannersSound'
  BY <1>2, <1>3, <1>6, <1>7 DEF ScanEpochsBounded, OneScannerPerEpoch, ScannersSound
<1>9. CurrentOnTrail'
  <2> SUFFICES ASSUME NEW g \in scanners', CurrentScanner(g)' PROVE OnTrail(g)'
    BY DEF CurrentOnTrail
  <2>1. CASE g = new
    <3>1. /\ trail'[h.job] = [epoch |-> h.epoch, page |-> Number(h)]
          /\ cursor'[h.job] = next
          /\ new.token = next.expected
          /\ next.expected # NoToken =>
               next.expected \in {1, Number(h) + 1} /\ 2 .. next.expected \subseteq next.seen
      BY <1>1, <1>3, <1>4 DEF Led, ScanTyped
    <3>2. g.job = h.job /\ g.epoch = h.epoch /\ g.token = next.expected
      BY <1>7, <2>1, <3>1
    <3> SUFFICES ASSUME g.token # NoToken
                 PROVE  /\ g.token = 1 \/ trail'[h.job] = [epoch |-> h.epoch, page |-> g.token - 1]
                        /\ 2 .. g.token \subseteq next.seen
      BY <3>1, <3>2 DEF OnTrail
    <3>3. g.token = 1 \/ g.token - 1 = Number(h)
      BY <1>4, <3>1, <3>2
    <3>4. g.token = 1 \/ trail'[h.job] = [epoch |-> h.epoch, page |-> g.token - 1]
      BY <3>1, <3>3
    <3> QED
      BY <3>1, <3>2, <3>4
  <2>2. CASE g \in scanners /\ g # h
    <3>1. g.job \in Jobs /\ g.job # h.job
      BY <1>2, <1>3, <1>4, <2>2 DEF OneScannerPerEpoch, CurrentScanner
    <3>2. trail'[g.job] = trail[g.job] /\ cursor'[g.job] = cursor[g.job]
      BY <1>1, <1>3, <3>1 DEF Led, ScanTyped
    <3>3. OnTrail(g)
      BY <1>2, <1>3, <2>2 DEF CurrentOnTrail, CurrentScanner
    <3> QED
      BY <3>2, <3>3 DEF OnTrail
  <2> QED
    BY <1>6, <2>1, <2>2
<1>10. ConfirmedWindowWasScanned'
  BY <1>1 DEF Led
<1> QED
  BY <1>5, <1>8, <1>9, <1>10 DEF ScanInv

-----------------------------------------------------------------------------
(* Every other step leaves the trail alone and confirms nothing.           *)

ScannerGoes(h) ==
  \/ scanners' \subseteq scanners
  \/ \E new : scanners' = (scanners \ {h}) \cup {new} /\ Later(h, new)
Quiet ==
  /\ cursor' = cursor /\ trail' = trail
  /\ sent' \in [Jobs -> SentRows]
  /\ window' \in Windows /\ (Confirmed' => window' = window)

OtherStep(h) ==
  \/ RecognizeDone(h) \/ StopBetweenPages(h) \/ CursorExhausted(h) \/ Request(h)
  \/ Denied(h) \/ FailPending(h) \/ Fail(h) \/ RecordSuccess(h)
  \/ Finalize(h) \/ ScannerDies(h)

LEMMA OtherStepsQuiet ==
  ASSUME ScanInv, NEW h \in scanners, OtherStep(h)
  PROVE  Quiet
<1>1. ScanTyped
  BY DEF ScanInv
<1>2. h \in Scanners /\ h.job \in Jobs
  BY <1>1 DEF ScanTyped, Scanners
<1>3. cursor' = cursor /\ trail' = trail
  BY Zenon DEF OtherStep, RecognizeDone, StopBetweenPages, CursorExhausted, Request, Denied, FailPending,
               Fail, RecordSuccess, Finalize, ScannerDies
<1>4. sent' \in [Jobs -> SentRows]
  <2>1. CASE sent' = sent
    BY <1>1, <2>1 DEF ScanTyped
  <2>2. CASE Request(h)
    <3>1. sent' = [sent EXCEPT ![h.job].total = @ + 1, ![h.job].cycle = @ + 1]
      BY <2>2, Zenon DEF Request
    <3>2. sent[h.job] \in SentRows
      BY <1>1, <1>2 DEF ScanTyped
    <3>3. sent' = [sent EXCEPT ![h.job] = [sent[h.job] EXCEPT !.total = @ + 1, !.cycle = @ + 1]]
      BY <1>1, <1>2, <3>1 DEF ScanTyped, SentRows
    <3> QED
      BY <1>1, <3>2, <3>3, SentRecords DEF ScanTyped
  <2> QED
    BY <2>1, <2>2, Zenon DEF OtherStep, RecognizeDone, StopBetweenPages, CursorExhausted, Denied,
                             FailPending, Fail, RecordSuccess, Finalize, ScannerDies
<1>5. window' = window \/ MarkPartial(h.job)
  BY Zenon DEF OtherStep, RecognizeDone, StopBetweenPages, CursorExhausted, Request, Denied, FailPending,
               Fail, RecordSuccess, Finalize, ScannerDies
<1>6. window' \in Windows /\ (Confirmed' => window' = window)
  BY <1>1, <1>2, <1>5, MarkPartialOpens DEF ScanTyped
<1> QED
  BY <1>3, <1>4, <1>6 DEF Quiet

LEMMA OtherStepsGo ==
  ASSUME ScanInv, NEW h \in scanners, OtherStep(h)
  PROVE  ScannerGoes(h)
<1>1. ScanTyped /\ Sound(h)
  BY DEF ScanInv, ScannersSound
<1>2. h \in Scanners /\ h.job \in Jobs
  BY <1>1 DEF ScanTyped, Scanners
<1>3. ASSUME NEW new, Becomes(h, new), Later(h, new) PROVE ScannerGoes(h)
  BY <1>3 DEF Becomes, ScannerGoes
<1>4. ASSUME NEW outcome \in ScanOutcomes \ {"none"}, Reports(h, outcome) PROVE ScannerGoes(h)
  BY <1>1, <1>2, <1>3, <1>4, ScannerRecords DEF Reports
<1>5. ASSUME NEW pc \in ScannerPlaces \ {"report"}, Becomes(h, [h EXCEPT !.pc = pc]) PROVE ScannerGoes(h)
  BY <1>1, <1>2, <1>3, <1>5, ScannerRecords
<1>6. {"succeeded", "partially_succeeded", "failed", "queued"} \subseteq ScanOutcomes \ {"none"}
      /\ "loop" \in ScannerPlaces \ {"report"}
  BY DEF ScanOutcomes, ScannerPlaces
<1>7. CASE RecognizeDone(h)
  BY <1>4, <1>5, <1>6, <1>7 DEF RecognizeDone
<1>8. CASE StopBetweenPages(h)
  BY <1>4, <1>6, <1>8 DEF StopBetweenPages
<1>9. CASE CursorExhausted(h) \/ RecordSuccess(h)
  BY <1>4, <1>6, <1>9 DEF CursorExhausted, RecordSuccess
<1>10. CASE Request(h)
  <2>1. PICK n : /\ n = sent[h.job].total + 1
                 /\ Becomes(h, [Asking(h) EXCEPT !.pc = "fetching", !.first = FALSE,
                                                 !.pending = @ \cup {<<h.job, n>>}])
    BY <1>10, Zenon DEF Request, NextRequest
  <2>2. n \in Nat
    BY <1>1, <1>2, <2>1, SentRecords DEF ScanTyped
  <2> QED
    BY <1>1, <1>2, <1>3, <2>1, <2>2, AskingLater
<1>11. CASE Denied(h)
  BY <1>1, <1>2, <1>3, <1>11, AskingLater DEF Denied
<1>12. CASE FailPending(h)
  BY <1>1, <1>2, <1>3, <1>12, ScannerRecords DEF FailPending
<1>13. CASE Fail(h)
  BY <1>4, <1>6, <1>13 DEF Fail
<1>14. CASE Finalize(h)
  BY <1>14 DEF Finalize, ScannerGoes
<1>15. CASE ScannerDies(h)
  BY <1>4, <1>6, <1>15 DEF ScannerDies, ScannerGoes
<1> QED
  BY <1>7, <1>8, <1>9, <1>10, <1>11, <1>12, <1>13, <1>14, <1>15 DEF OtherStep

(* The outcome of a scanner is one a job may have; its job keeps its epoch.*)
LEMMA OtherStepsKeepJobs ==
  ASSUME ScanInv, NEW h \in scanners, OtherStep(h)
  PROVE  JobsTyped' /\ \A j \in Jobs : job'[j].epoch = job[j].epoch
<1>1. JobsTyped /\ h.job \in Jobs
  BY DEF ScanInv, ScanTyped, Scanners
<1>2. CASE job' = job
  BY <1>1, <1>2 DEF JobsTyped
<1>3. CASE Finalize(h) /\ job' = Released(h.job, h.outcome)
  <2> h.outcome \in Statuses
    <3>1. h.outcome # "none"
      BY <1>3 DEF ScanInv, ScannersSound, Sound, Finalize
    <3> QED
      BY <3>1 DEF ScanInv, ScanTyped, Scanners, ScanOutcomes, Statuses, Finished
  <2>1. Released(h.job, h.outcome) \in [Jobs -> JobRows]
    BY <1>1, <1>3, ReleasedTyped
  <2> QED
    BY <1>1, <1>3, <2>1, JobStepsMove DEF JobsTyped
<1> QED
  BY <1>2, <1>3, Zenon DEF OtherStep, RecognizeDone, StopBetweenPages, CursorExhausted, Request, Denied,
                           FailPending, Fail, RecordSuccess, Finalize, ScannerDies

LEMMA QuietKeeps ==
  ASSUME ScanInv, Quiet, JobsTyped', \A j \in Jobs : job'[j].epoch = job[j].epoch,
         scanners' \subseteq scanners \/ \E h \in scanners : ScannerGoes(h)
  PROVE  ScanInv'
<1>1. /\ JobsTyped /\ ScanTyped /\ ScanEpochsBounded /\ OneScannerPerEpoch /\ ScannersSound
      /\ CurrentOnTrail /\ ConfirmedWindowWasScanned
  BY DEF ScanInv
<1>2. \A g \in scanners : g \in Scanners /\ g.job \in Jobs
  BY <1>1 DEF ScanTyped, Scanners
<1>3. ConfirmedWindowWasScanned'
  BY <1>1 DEF Quiet, ConfirmedWindowWasScanned, Confirmed
<1>4. CASE scanners' \subseteq scanners
  <2>1. ScanTyped'
    BY <1>1, <1>4 DEF ScanTyped, Quiet
  <2>2. ScanEpochsBounded' /\ OneScannerPerEpoch' /\ ScannersSound'
    BY <1>1, <1>2, <1>4 DEF ScanEpochsBounded, OneScannerPerEpoch, ScannersSound
  <2>3. CurrentOnTrail'
    BY <1>1, <1>2, <1>4 DEF CurrentOnTrail, CurrentScanner, OnTrail, Quiet
  <2> QED
    BY <1>3, <2>1, <2>2, <2>3 DEF ScanInv
<1>5. ASSUME NEW h \in scanners, NEW new, scanners' = (scanners \ {h}) \cup {new}, Later(h, new)
      PROVE  ScanInv'
  <2>1. /\ new \in Scanners /\ new.job = h.job /\ new.epoch = h.epoch
        /\ new.token \in {h.token, NoToken} /\ Sound(new)
    BY <1>5 DEF Later
  <2>2. ScanTyped'
    BY <1>1, <1>5, <2>1 DEF ScanTyped, Quiet
  <2>3. ScanEpochsBounded' /\ OneScannerPerEpoch' /\ ScannersSound'
    BY <1>1, <1>2, <1>5, <2>1 DEF ScanEpochsBounded, OneScannerPerEpoch, ScannersSound
  <2>4. CurrentOnTrail'
    <3> SUFFICES ASSUME NEW g \in scanners', CurrentScanner(g)' PROVE OnTrail(g)'
      BY DEF CurrentOnTrail
    <3>1. PICK f \in scanners : /\ g.job = f.job /\ g.epoch = f.epoch
                                /\ g.token \in {f.token, NoToken}
      BY <1>5, <2>1
    <3>2. OnTrail(f)
      BY <1>1, <1>2, <3>1 DEF CurrentOnTrail, CurrentScanner
    <3> QED
      BY <3>1, <3>2 DEF OnTrail, Quiet
  <2> QED
    BY <1>3, <2>2, <2>3, <2>4 DEF ScanInv
<1> QED
  BY <1>4, <1>5 DEF ScannerGoes

(* A new handler begins without a token; those of its job it supersedes    *)
(* are no longer current.                                                  *)
LEMMA ScanAcquireKeeps ==
  ASSUME ScanInv, NEW j \in Jobs, ScanAcquire(j)
  PROVE  ScanInv'
<1>1. /\ JobsTyped /\ ScanTyped /\ ScanEpochsBounded /\ OneScannerPerEpoch /\ ScannersSound
      /\ CurrentOnTrail /\ ConfirmedWindowWasScanned
  BY DEF ScanInv
<1>2. \A g \in scanners : g \in Scanners /\ g.job \in Jobs /\ g.epoch \in Nat
  BY <1>1 DEF ScanTyped, Scanners
<1>3. \A i \in Jobs : /\ job[i].epoch \in Nat
                      /\ job'[i].epoch = IF i = j THEN job[i].epoch + 1 ELSE job[i].epoch
  BY <1>1, JobStepsMove, JobRowRecords DEF JobsTyped, ScanAcquire
<1>4. cursor' = cursor /\ trail' = trail /\ window' = window
  BY DEF ScanAcquire
<1>5. PICK new : /\ scanners' = scanners \cup {new}
                 /\ new \in Scanners /\ Sound(new)
                 /\ new.job = j /\ new.epoch = job[j].epoch + 1 /\ new.token = NoToken
  <2> DEFINE scanner ==
        [job |-> j, epoch |-> job[j].epoch + 1, pc |-> "start", token |-> NoToken,
         seq |-> cursor[j].seq, first |-> TRUE, rescan |-> FALSE, pending |-> {},
         outcome |-> "none"]
  <2>1. scanners' = scanners \cup {scanner}
    BY DEF ScanAcquire
  <2>2. cursor[j].seq \in Nat /\ job[j].epoch + 1 \in Nat
    BY <1>1, <1>3 DEF ScanTyped, Cursors
  <2>3. /\ scanner \in Scanners /\ Sound(scanner)
        /\ scanner.job = j /\ scanner.epoch = job[j].epoch + 1 /\ scanner.token = NoToken
    BY <2>2 DEF Scanners, Sound, ScannerPlaces, ScanOutcomes, NoToken
  <2> HIDE DEF scanner
  <2> QED
    BY <2>1, <2>3
<1>6. JobsTyped' /\ ScanTyped'
  <2>1. sent' \in [Jobs -> SentRows]
    <3>1. sent[j] \in SentRows
      BY <1>1 DEF ScanTyped
    <3>2. sent' = [sent EXCEPT ![j] = [sent[j] EXCEPT
                     !.cycle = IF sent[j].closed THEN 0 ELSE @, !.closed = FALSE]]
      BY <1>1 DEF ScanAcquire, ScanTyped
    <3>3. sent[j].closed \in BOOLEAN
      BY <3>1 DEF SentRows
    <3> QED
      BY <1>1, <3>1, <3>2, <3>3, SentRecords DEF ScanTyped
  <2>2. JobsTyped'
    BY <1>1, JobStepsTyped DEF ScanAcquire
  <2> QED
    BY <1>1, <1>4, <1>5, <2>1, <2>2 DEF ScanTyped
<1>7. ScanEpochsBounded'
  BY <1>1, <1>2, <1>3, <1>5 DEF ScanEpochsBounded
<1>8. OneScannerPerEpoch'
  <2>1. \A g \in scanners : ~(g.job = new.job /\ g.epoch = new.epoch)
    BY <1>1, <1>2, <1>3, <1>5 DEF ScanEpochsBounded
  <2> QED
    BY <1>1, <1>5, <2>1 DEF OneScannerPerEpoch
<1>9. ScannersSound'
  BY <1>1, <1>5 DEF ScannersSound
<1>10. CurrentOnTrail'
  <2> SUFFICES ASSUME NEW g \in scanners', CurrentScanner(g)', g # new PROVE OnTrail(g)'
    BY <1>5 DEF CurrentOnTrail, OnTrail
  <2>1. g \in scanners /\ CurrentScanner(g)
    BY <1>1, <1>2, <1>3, <1>5 DEF CurrentScanner, ScanEpochsBounded
  <2> QED
    BY <1>1, <1>4, <2>1 DEF CurrentOnTrail, OnTrail
<1>11. ConfirmedWindowWasScanned'
  BY <1>1, <1>4 DEF ConfirmedWindowWasScanned, Confirmed
<1> QED
  BY <1>6, <1>7, <1>8, <1>9, <1>10, <1>11 DEF ScanInv

LEMMA ScanStep == ScanInv /\ [PageNext]_<<job, budgetVars, pageVars>> => ScanInv'
<1> SUFFICES ASSUME ScanInv, [PageNext]_<<job, budgetVars, pageVars>> PROVE ScanInv'
  OBVIOUS
<1>1. JobsTyped /\ ScanTyped
  BY DEF ScanInv
<1>2. ASSUME NEW j \in Jobs, ScanAcquire(j) PROVE ScanInv'
  BY <1>2, ScanAcquireKeeps
<1>3. ASSUME NEW j \in Jobs, ScanJobMoves(j) PROVE ScanInv'
  <2>1. cursor' = cursor /\ trail' = trail /\ window' = window /\ scanners' = scanners
    BY <1>3 DEF ScanJobMoves
  <2>2. sent' \in [Jobs -> SentRows]
    <3>1. CASE sent' = sent
      BY <1>1, <3>1 DEF ScanTyped
    <3>2. CASE sent' = [sent EXCEPT ![j].closed = TRUE]
      <4>1. sent' = [sent EXCEPT ![j] = [sent[j] EXCEPT !.closed = TRUE]] /\ sent[j] \in SentRows
        BY <1>1, <3>2 DEF ScanTyped
      <4> QED
        BY <1>1, <4>1, SentRecords DEF ScanTyped
    <3> QED
      BY <1>3, <3>1, <3>2 DEF ScanJobMoves
  <2>3. JobsTyped' /\ \A i \in Jobs : job'[i].epoch = job[i].epoch
    BY <1>1, <1>3, JobStepsTyped, JobStepsMove DEF ScanJobMoves
  <2>4. Quiet
    BY <1>1, <2>1, <2>2 DEF Quiet, ScanTyped
  <2> QED
    BY <2>1, <2>3, <2>4, QuietKeeps
<1>4. ASSUME NEW h \in scanners, Commit(h) PROVE ScanInv'
  BY <1>4, CommitKeeps
<1>5. ASSUME NEW h \in scanners, OtherStep(h) PROVE ScanInv'
  BY <1>5, OtherStepsQuiet, OtherStepsGo, OtherStepsKeepJobs, QuietKeeps
<1>6. CASE ScanBudgetMoves \/ UNCHANGED <<job, budgetVars, pageVars>>
  <2>1. UNCHANGED <<job, pageVars>>
    BY <1>6 DEF ScanBudgetMoves
  <2>2. JobsTyped' /\ Quiet /\ scanners' = scanners /\ job' = job
    BY <1>1, <2>1 DEF pageVars, Quiet, ScanTyped, JobsTyped
  <2> QED
    BY <2>2, QuietKeeps
<1> QED
  BY <1>2, <1>3, <1>4, <1>5, <1>6 DEF PageNext, OtherStep

(* A window is confirmed only by one job that fetched every page of it     *)
(* from the first to the proven last in order, under one lease: for any    *)
(* number of jobs that share it, of pages, rescans, crashes and retries.   *)
THEOREM ConfirmedWasScanned == PageSpec => []ConfirmedWindowWasScanned
<1>1. JobInit /\ LedgerInit /\ PageInit => ScanInv
  <2> SUFFICES ASSUME JobInit, PageInit PROVE ScanInv
    OBVIOUS
  <2>1. JobsTyped
    BY JobInitTyped
  <2>2. EmptyCursor \in Cursors
    BY DEF EmptyCursor, Cursors, NoToken
  <2>3. ScanTyped
    BY <2>2 DEF PageInit, ScanTyped, SentRows, Windows, Trails
  <2> QED
    BY <2>1, <2>3 DEF PageInit, ScanInv, ScanEpochsBounded, OneScannerPerEpoch, ScannersSound,
                      CurrentOnTrail, ConfirmedWindowWasScanned, Confirmed
<1>2. ScanInv => ConfirmedWindowWasScanned
  BY DEF ScanInv
<1> QED
  BY <1>1, <1>2, ScanStep, PTL DEF PageSpec

-----------------------------------------------------------------------------
(* What collections do to the ledger. K are the jobs that collect; others  *)
(* may use the same ledger, with reservations of other ids among I.        *)

LEMMA AttemptIds ==
  ASSUME NEW j \in Jobs
  PROVE  /\ Attempts(j) \subseteq Ids /\ IsFiniteSet(Attempts(j))
         /\ \A id \in Attempts(j) : id[1] = j
         /\ \A n \in Nat : n < MaxTotal[j] => <<j, n + 1>> \in Attempts(j)
<1> DEFINE N == 1 .. MaxTotal[j]
           f == [n \in N |-> <<j, n>>]
<1>1. MaxTotal[j] \in Nat
  BY PageAssumption
<1>2. DOMAIN f = N /\ IsFiniteSet(N)
  BY <1>1, FS_Interval
<1>3. Attempts(j) = {f[n] : n \in N}
  BY DEF Attempts
<1> HIDE DEF f, N
<1>4. IsFiniteSet({f[n] : n \in N})
  BY <1>2, FiniteImage
<1>5. Attempts(j) \subseteq Ids
  BY <1>1 DEF Attempts, Ids
<1>6. \A id \in Attempts(j) : id[1] = j
  BY DEF Attempts
<1>7. \A n \in Nat : n < MaxTotal[j] => n + 1 \in 1 .. MaxTotal[j]
  BY <1>1
<1>8. \A n \in Nat : n < MaxTotal[j] => <<j, n + 1>> \in Attempts(j)
  BY <1>7 DEF Attempts
<1> QED
  BY <1>3, <1>4, <1>5, <1>6, <1>8

WasBegun(l, id) == AttemptOf(l, id) # "none"
AttemptsOwned(l, K) ==
  \A id \in Ids : WasBegun(l, id) =>
    /\ id[1] \in K /\ id \in Attempts(id[1])
    /\ RowsOf(l, id) # {} /\ (AttemptOf(l, id) # "started" => IsSettled(l, id))
ScanBooks(l, I, K) == l \in UnitBooks(I, Ids) /\ AttemptsOwned(l, K)

(* Attempts only begin or end; one that ended stays so.                    *)
LEMMA BegunIs ==
  ASSUME NEW I, NEW l \in Ledgers(I), NEW id
  PROVE  WasBegun(l, id) <=> id \in DOMAIN l.attempts
<1>1. \A i \in DOMAIN l.attempts : l.attempts[i] # "none"
  BY LedgerParts DEF AttemptStates
<1> QED
  BY <1>1 DEF WasBegun, AttemptOf

LEMMA ClosedOwned ==
  ASSUME NEW I, Ids \in SUBSET I, NEW K, NEW l, ScanBooks(l, I, K),
         NEW S \in SUBSET Ids, \A id \in S : WasBegun(l, id),
         NEW outcome \in {"succeeded", "failed"},
         NEW m, ClosedAll(I, Ids, l, m, S, outcome)
  PROVE  /\ ScanBooks(m, I, K) /\ Touches(l, m, Ids)
         /\ \A id : WasBegun(m, id) <=> WasBegun(l, id)
         /\ \A id : AttemptOf(m, id) = "started" => AttemptOf(l, id) = "started" /\ id \notin S
<1>1. /\ m \in UnitBooks(I, Ids) /\ Touches(l, m, S)
      /\ \A id \in S : RowsOf(m, id) # {} /\ IsSettled(m, id) /\ AttemptOf(m, id) = outcome
  BY DEF ClosedAll
<1>2. Touches(l, m, Ids)
  BY <1>1 DEF Touches
<1>3. \A id : WasBegun(m, id) <=> WasBegun(l, id)
  BY <1>1 DEF Touches, WasBegun
<1>4. \A id : AttemptOf(m, id) = "started" => AttemptOf(l, id) = "started" /\ id \notin S
  BY <1>1 DEF Touches
<1>5. ASSUME NEW id \in Ids, WasBegun(m, id)
      PROVE  /\ id[1] \in K /\ id \in Attempts(id[1])
             /\ RowsOf(m, id) # {} /\ (AttemptOf(m, id) # "started" => IsSettled(m, id))
  <2>1. /\ id[1] \in K /\ id \in Attempts(id[1])
        /\ RowsOf(l, id) # {} /\ (AttemptOf(l, id) # "started" => IsSettled(l, id))
    BY <1>3, <1>5 DEF ScanBooks, AttemptsOwned
  <2>2. CASE id \in S
    BY <1>1, <2>1, <2>2
  <2>3. CASE id \notin S
    <3>1. RowsOf(m, id) = RowsOf(l, id) /\ AttemptOf(m, id) = AttemptOf(l, id)
      BY <1>1, <2>3 DEF Touches
    <3> QED
      BY <2>1, <3>1, UntouchedSaysTheSame
  <2> QED
    BY <2>2, <2>3
<1> QED
  BY <1>1, <1>2, <1>3, <1>4, <1>5 DEF ScanBooks, AttemptsOwned

LEMMA RequestedOwned ==
  ASSUME PoliciesTyped, NEW I, Ids \in SUBSET I, NEW K, NEW l, ScanBooks(l, I, K),
         NEW j \in K, j \in Jobs, NEW id \in Attempts(j),
         MayReserve(l, id, "network", CollectionScopes, 1)
  PROVE  LET m == BeginAttempt(Reserve(l, id, "network", CollectionScopes, 1), id) IN
         /\ ScanBooks(m, I, K) /\ Touches(l, m, {id}) /\ WasBegun(m, id)
<1> DEFINE n == Reserve(l, id, "network", CollectionScopes, 1)
           m == BeginAttempt(n, id)
<1>1. id \in Ids /\ id \in I /\ id[1] = j
  BY AttemptIds
<1>2. l \in Ledgers(I) /\ Books(l) /\ UnitRows(l, Ids)
  BY DEF ScanBooks, UnitBooks
<1>3. /\ n \in Ledgers(I) /\ Books(n) /\ n.attempts = l.attempts
      /\ \A i : i # id => RowsOf(n, i) = RowsOf(l, i)
      /\ RowsOf(n, id) # {}
      /\ RowsOf(l, id) # {} => n = l
      /\ RowsOf(l, id) = {} => Requested(n, id) = 1 /\ Charged(n, id) = Unsettled
  BY <1>1, <1>2, ReserveKeeps
<1> HIDE DEF n
<1>4. /\ m \in Ledgers(I) /\ OnlyAttempt(n, m, id) /\ id \in DOMAIN m.attempts
      /\ m.attempts[id] = "started" \/ (id \in DOMAIN n.attempts /\ m.attempts[id] = n.attempts[id])
  BY <1>1, <1>3, BeginKeeps
<1> HIDE DEF m
<1>5. /\ Books(m) /\ \A i : RowsOf(m, i) = RowsOf(n, i)
      /\ \A i : IsSettled(m, i) <=> IsSettled(n, i)
      /\ m.rows = n.rows
  BY <1>3, <1>4, OnlyAttemptKeeps DEF OnlyAttempt
<1>6. UnitRows(m, Ids)
  <2> SUFFICES ASSUME NEW r \in n.rows, r.id \in Ids PROVE r.requested = 1 /\ r.actual \in {Unsettled, 1}
    BY <1>5 DEF UnitRows
  <2>1. CASE RowsOf(l, id) # {}
    BY <1>2, <1>3, <2>1 DEF UnitRows
  <2>2. CASE RowsOf(l, id) = {} /\ r.id = id
    <3>1. Requested(n, id) = r.requested /\ Charged(n, id) = r.actual
      BY <1>3, <2>2, RowsSay DEF Books, RowsOf
    <3> QED
      BY <1>3, <2>2, <3>1
  <2>3. CASE r.id # id
    <3>1. r \in RowsOf(n, r.id)
      BY DEF RowsOf
    <3>2. r \in l.rows
      BY <1>3, <2>3, <3>1 DEF RowsOf
    <3> QED
      BY <1>2, <3>2 DEF UnitRows
  <2> QED
    BY <2>1, <2>2, <2>3
<1>7. \A i : i # id => RowsOf(m, i) = RowsOf(l, i) /\ AttemptOf(m, i) = AttemptOf(l, i)
  <2>1. \A i : AttemptOf(n, i) = AttemptOf(l, i)
    BY <1>3 DEF AttemptOf
  <2> QED
    BY <1>3, <1>4, <1>5, <2>1 DEF OnlyAttempt
<1>8. /\ RowsOf(m, id) # {} /\ WasBegun(m, id)
      /\ AttemptOf(m, id) # "started" => IsSettled(m, id)
  <2>1. AttemptOf(m, id) = m.attempts[id]
    BY <1>4 DEF AttemptOf
  <2>2. RowsOf(m, id) # {} /\ WasBegun(m, id)
    BY <1>3, <1>4, <1>5, BegunIs
  <2>3. CASE AttemptOf(m, id) # "started"
    <3>1. id \in DOMAIN l.attempts /\ AttemptOf(l, id) = AttemptOf(m, id)
      BY <1>3, <1>4, <2>1, <2>3 DEF AttemptOf
    <3>2. WasBegun(l, id)
      BY <1>2, <3>1, BegunIs
    <3>3. IsSettled(l, id) /\ RowsOf(l, id) # {}
      BY <1>1, <2>3, <3>1, <3>2 DEF ScanBooks, AttemptsOwned
    <3> QED
      BY <1>3, <1>5, <2>2, <3>3
  <2> QED
    BY <2>2, <2>3
<1>9. AttemptsOwned(m, K)
  <2> SUFFICES ASSUME NEW i \in Ids, WasBegun(m, i), i # id
               PROVE  /\ i[1] \in K /\ i \in Attempts(i[1])
                      /\ RowsOf(m, i) # {} /\ (AttemptOf(m, i) # "started" => IsSettled(m, i))
    BY <1>1, <1>8 DEF AttemptsOwned
  <2>1. RowsOf(m, i) = RowsOf(l, i) /\ AttemptOf(m, i) = AttemptOf(l, i) /\ WasBegun(l, i)
    BY <1>7 DEF WasBegun
  <2> QED
    BY <2>1, UntouchedSaysTheSame DEF ScanBooks, AttemptsOwned
<1> QED
  BY <1>4, <1>5, <1>6, <1>7, <1>8, <1>9 DEF ScanBooks, UnitBooks, Touches, m, n

LEMMA SettledCloses ==
  ASSUME NEW I, NEW P \in SUBSET I, NEW l \in UnitBooks(I, P), NEW S \in SUBSET P,
         IsFiniteSet(S), \A id \in S : RowsOf(l, id) # {},
         NEW outcome \in {"succeeded", "failed"}
  PROVE  ClosedAll(I, P, l, Settled(l, S, outcome), S, outcome)
<1> DEFINE op(id, rest) == FinishAttempt(Settle(rest, id, 1), id, outcome)
           Step(h, s) == IF s = {} THEN l
                         ELSE op(CHOOSE x \in s : TRUE, h[s \ {CHOOSE x \in s : TRUE}])
           iter == CHOOSE h : h = [s \in SUBSET S |-> Step(h, s)]
<1>1. Settled(l, S, outcome) = iter[S]
  BY DEF Settled, FoldSet, MapThenFoldSet
<1>2. l \in Rowed(I, P, S) /\ outcome \in AttemptStates
  BY DEF Rowed, AttemptStates
<1>3. PICK g : ClosingFold(g, I, P, S, l, outcome)
  BY <1>2, ClosingExists
<1>4. ASSUME NEW s \in SUBSET S, s # {}
      PROVE  g[s] = op(First(s), g[s \ {First(s)}])
  BY <1>3, <1>4 DEF ClosingFold, Close
<1>5. g[{}] = l /\ g \in [SUBSET S -> Rowed(I, P, S)]
  BY <1>3 DEF ClosingFold, Folds
<1> HIDE DEF op
<1>6. \A s \in SUBSET S : iter[s] = Step(iter, s)
  <2>1. g = [s \in SUBSET S |-> Step(g, s)]
    BY <1>4, <1>5 DEF First
  <2> HIDE DEF Step
  <2>2. iter = [s \in SUBSET S |-> Step(iter, s)]
    BY <2>1
  <2> HIDE DEF iter
  <2> QED
    BY <2>2
<1> HIDE DEF iter
<1>7. iter[{}] = l
  BY <1>6
<1>8. \A s \in SUBSET S : s # {} /\ iter[s \ {First(s)}] = g[s \ {First(s)}] => iter[s] = g[s]
  BY <1>4, <1>6 DEF First
<1>9. ClosedAll(I, P, l, iter[S], S, outcome)
  BY <1>2, <1>3, <1>7, <1>8, ClosingReaches
<1> QED
  BY <1>1, <1>9

ScanLedger(I, K) ==
  /\ PoliciesTyped /\ ScanBooks(ledger, I, K)
  /\ \A h \in scanners :
       h.job \in K /\ \A id \in h.pending : id \in Attempts(h.job) /\ WasBegun(ledger, id)
  /\ \A id \in Ids : AttemptOf(ledger, id) = "started" =>
       job[id[1]].status \notin Finished \ {"cancelled"}

(* What a step of h may do to a ledger: attempts of its running job begin, *)
(* attempts end, and no reservation of another use is touched.             *)
LedgerMoves(I, K, h, l, m) ==
  /\ ScanBooks(m, I, K) /\ Touches(l, m, Ids)
  /\ \A id : WasBegun(l, id) => WasBegun(m, id)
  /\ \A id \in Ids : AttemptOf(m, id) = "started" =>
       \/ AttemptOf(l, id) = "started"
       \/ id \in Attempts(h.job) /\ job[h.job].status = "running"

LEMMA MovesOn ==
  ASSUME NEW I, NEW K, NEW h, NEW l, NEW m, NEW n,
         LedgerMoves(I, K, h, l, m), LedgerMoves(I, K, h, m, n)
  PROVE  LedgerMoves(I, K, h, l, n)
<1>1. Touches(l, n, Ids)
  BY TouchesMore DEF LedgerMoves
<1> QED
  BY <1>1 DEF LedgerMoves

(* It settles every open attempt of the job.                               *)
RecoveredAs(I, K, h, l, m) ==
  /\ LedgerMoves(I, K, h, l, m)
  /\ \A id \in Attempts(h.job) : AttemptOf(m, id) # "started"
  /\ \A id : AttemptOf(m, id) = "started" => AttemptOf(l, id) = "started"

LEMMA RecoverMoves ==
  ASSUME NEW I, Ids \in SUBSET I, NEW K, NEW h, h.job \in Jobs, NEW l, ScanBooks(l, I, K)
  PROVE  RecoveredAs(I, K, h, l, RecoverAttempts(l, Attempts(h.job)))
<1> DEFINE S == {id \in Attempts(h.job) : AttemptOf(l, id) = "started"}
           m == RecoverAttempts(l, Attempts(h.job))
<1>1. l \in UnitBooks(I, Ids) /\ Attempts(h.job) \in SUBSET Ids /\ IsFiniteSet(Attempts(h.job))
  BY AttemptIds DEF ScanBooks
<1>2. l \in Ledgers(I)
  BY <1>1 DEF UnitBooks
<1>3. \A id \in DOMAIN l.attempts \cap Ids : RowsOf(l, id) # {}
  BY <1>2, BegunIs DEF ScanBooks, AttemptsOwned
<1>4. ClosedAll(I, Ids, l, m, S, "failed")
  BY <1>1, <1>3, RecoverCloses
<1>5. S \in SUBSET Ids /\ \A id \in S : WasBegun(l, id)
  BY <1>1 DEF WasBegun
<1>6. \A id \in Attempts(h.job) : id \notin S => AttemptOf(l, id) # "started"
  OBVIOUS
<1> HIDE DEF m, S
<1>7. S \in SUBSET Ids
  BY <1>5
<1>8. \A id \in S : WasBegun(l, id)
  BY <1>5
<1>9. "failed" \in {"succeeded", "failed"}
  OBVIOUS
<1>10. /\ ScanBooks(m, I, K) /\ Touches(l, m, Ids)
       /\ \A id : WasBegun(m, id) <=> WasBegun(l, id)
       /\ \A id : AttemptOf(m, id) = "started" => AttemptOf(l, id) = "started" /\ id \notin S
  BY <1>4, <1>7, <1>8, <1>9, ClosedOwned, SMTT(60)
<1> QED
  BY <1>6, <1>10 DEF LedgerMoves, RecoveredAs, m

LEMMA PendingMoves ==
  ASSUME NEW I, Ids \in SUBSET I, NEW K, NEW h, h.job \in Jobs, NEW l, ScanBooks(l, I, K),
         \A id \in h.pending : id \in Attempts(h.job) /\ WasBegun(l, id),
         NEW outcome \in {"succeeded", "failed"}
  PROVE  LedgerMoves(I, K, h, l, Settled(l, h.pending, outcome))
<1> DEFINE S == h.pending
           m == Settled(l, S, outcome)
<1>1. Attempts(h.job) \in SUBSET Ids /\ IsFiniteSet(Attempts(h.job))
  BY AttemptIds
<1>2. S \in SUBSET Ids /\ IsFiniteSet(S) /\ \A id \in S : WasBegun(l, id)
  BY <1>1, FS_Subset
<1> HIDE DEF S
<1>3. l \in UnitBooks(I, Ids) /\ \A id \in S : RowsOf(l, id) # {}
  BY <1>2 DEF ScanBooks, AttemptsOwned
<1>4. ClosedAll(I, Ids, l, m, S, outcome)
  BY <1>2, <1>3, SettledCloses
<1> HIDE DEF m
<1> USE <1>2
<1>5. /\ ScanBooks(m, I, K) /\ Touches(l, m, Ids)
      /\ \A id : WasBegun(m, id) <=> WasBegun(l, id)
      /\ \A id : AttemptOf(m, id) = "started" => AttemptOf(l, id) = "started" /\ id \notin S
  BY <1>2, <1>4, ClosedOwned
<1> QED
  BY <1>5 DEF LedgerMoves, m, S

LEMMA RecoveredMoves ==
  ASSUME NEW I, Ids \in SUBSET I, NEW K, NEW h, h.job \in Jobs, ScanBooks(ledger, I, K)
  PROVE  LedgerMoves(I, K, h, ledger, Recovered(h))
<1>1. CASE h.first
  BY <1>1, RecoverMoves DEF Recovered, RecoveredAs
<1>2. CASE ~h.first
  BY <1>2 DEF Recovered, LedgerMoves, Touches
<1> QED
  BY <1>1, <1>2

LEMMA RequestMoves ==
  ASSUME ScanInv, NEW I, Ids \in SUBSET I, NEW K \in SUBSET Jobs, ScanLedger(I, K),
         NEW h \in scanners, Request(h)
  PROVE  /\ LedgerMoves(I, K, h, ledger, ledger')
         /\ NextRequest(h.job) \in Attempts(h.job) /\ WasBegun(ledger', NextRequest(h.job))
<1> DEFINE id == NextRequest(h.job)
           l == Recovered(h)
<1>1. h.job \in K /\ h.job \in Jobs /\ ScanBooks(ledger, I, K) /\ PoliciesTyped
  BY DEF ScanLedger
<1>2. LedgerMoves(I, K, h, ledger, l) /\ ScanBooks(l, I, K)
  BY <1>1, RecoveredMoves DEF LedgerMoves
<1>3. id \in Attempts(h.job)
  <2>1. sent[h.job].total \in Nat /\ sent[h.job].total < MaxTotal[h.job]
    BY <1>1 DEF Request, ScanInv, ScanTyped, SentRows
  <2> QED
    BY <1>1, <2>1, AttemptIds DEF NextRequest
<1>4. job[h.job].status = "running"
  BY DEF Request, Fetches, MayWork, Holds
<1>5. /\ MayReserve(l, id, "network", CollectionScopes, 1)
      /\ ledger' = BeginAttempt(Reserve(l, id, "network", CollectionScopes, 1), id)
  BY DEF Request
<1> HIDE DEF l, id
<1>6. ScanBooks(ledger', I, K) /\ Touches(l, ledger', {id}) /\ WasBegun(ledger', id)
  BY <1>1, <1>2, <1>3, <1>5, RequestedOwned
<1>7. LedgerMoves(I, K, h, l, ledger')
  <2>1. Touches(l, ledger', Ids)
    BY <1>1, <1>3, <1>6, AttemptIds DEF Touches
  <2>2. \A i : WasBegun(l, i) => WasBegun(ledger', i)
    BY <1>6 DEF Touches, WasBegun
  <2>3. \A i \in Ids : AttemptOf(ledger', i) = "started" => AttemptOf(l, i) = "started" \/ i = id
    BY <1>6 DEF Touches
  <2> QED
    BY <1>3, <1>4, <1>6, <2>1, <2>2, <2>3 DEF LedgerMoves
<1>8. LedgerMoves(I, K, h, ledger, ledger')
  BY <1>2, <1>7, MovesOn
<1> QED
  BY <1>3, <1>6, <1>8 DEF id

-----------------------------------------------------------------------------
(* Every step of a collection keeps its part of the ledger.                *)

StillOpen(s) == s \notin Finished \ {"cancelled"}
PendingBegun(l, K, g) == g.job \in K /\ \A id \in g.pending : id \in Attempts(g.job) /\ WasBegun(l, id)

LEMMA ScanLedgerMoves ==
  ASSUME NEW I, NEW K, ScanLedger(I, K), PoliciesTyped', ScanBooks(ledger', I, K),
         \A g \in scanners' : PendingBegun(ledger', K, g),
         \A id \in Ids : AttemptOf(ledger', id) = "started" =>
           \/ AttemptOf(ledger, id) = "started" /\ StillOpen(job'[id[1]].status)
           \/ job'[id[1]].status = "running"
  PROVE  ScanLedger(I, K)'
BY DEF ScanLedger, PendingBegun, Finished, StillOpen, ScanBooks, AttemptsOwned, WasBegun, AttemptOf,
       UnitBooks, Ledgers

(* What a step of h leaves in the hands of the scanners.                   *)
LEMMA PendingGoes ==
  ASSUME ScanInv, NEW h \in scanners, OtherStep(h) \/ Commit(h), NEW g \in scanners'
  PROVE  \/ g \in scanners
         \/ g.job = h.job /\ g.pending \subseteq h.pending
         \/ Request(h) /\ g.job = h.job /\ g.pending = h.pending \cup {NextRequest(h.job)}
<1>1. h \in Scanners
  BY DEF ScanInv, ScanTyped
<1>2. ASSUME NEW pc, g = [h EXCEPT !.pc = pc] PROVE g.job = h.job /\ g.pending \subseteq h.pending
  BY <1>1, <1>2 DEF Scanners
<1>3. ASSUME NEW outcome, Reports(h, outcome) PROVE g \in scanners \/ (g.job = h.job /\ g.pending \subseteq h.pending)
  <2>1. g \in scanners \/ g = [h EXCEPT !.pc = "report", !.outcome = outcome, !.pending = {}]
    BY <1>3 DEF Reports, Becomes
  <2>2. g = [h EXCEPT !.pc = "report", !.outcome = outcome, !.pending = {}] =>
          g.job = h.job /\ g.pending = {}
    BY <1>1 DEF Scanners
  <2> QED
    BY <2>1, <2>2
<1>4. \A f : f = Asking(h) => f \in Scanners /\ f.job = h.job /\ f.pending = h.pending
  <2>1. Asking(h) \in Scanners /\ Asking(h).job = h.job
    BY <1>1, AskingLater DEF Later, ScanInv, ScannersSound
  <2>2. Asking(h).pending = h.pending
    BY <1>1 DEF Asking, Scanners
  <2> QED
    BY <2>1, <2>2
<1>5. CASE RecognizeDone(h)
  BY <1>2, <1>3, <1>5 DEF RecognizeDone, Becomes
<1>6. CASE StopBetweenPages(h)
  BY <1>3, <1>6 DEF StopBetweenPages
<1>7. CASE CursorExhausted(h) \/ RecordSuccess(h)
  BY <1>3, <1>7 DEF CursorExhausted, RecordSuccess
<1>8. CASE Request(h)
  <2>1. PICK f, id : /\ f = Asking(h) /\ id = NextRequest(h.job)
                     /\ scanners' = (scanners \ {h}) \cup
                          {[f EXCEPT !.pc = "fetching", !.first = FALSE, !.pending = @ \cup {id}]}
    BY <1>8, Zenon DEF Request, Becomes
  <2>2. \/ g \in scanners
        \/ g = [f EXCEPT !.pc = "fetching", !.first = FALSE, !.pending = @ \cup {id}]
    BY <2>1
  <2>3. g = [f EXCEPT !.pc = "fetching", !.first = FALSE, !.pending = @ \cup {id}] =>
          g.job = f.job /\ g.pending = f.pending \cup {id}
    BY <1>4, <2>1 DEF Scanners
  <2> QED
    BY <1>4, <1>8, <2>1, <2>2, <2>3
<1>9. CASE Denied(h)
  <2>1. PICK f : f = Asking(h) /\ scanners' = (scanners \ {h}) \cup {[f EXCEPT !.pc = "stopped"]}
    BY <1>9, Zenon DEF Denied, Becomes
  <2>2. g = [f EXCEPT !.pc = "stopped"] => g.job = f.job /\ g.pending = f.pending
    BY <1>4, <2>1 DEF Scanners
  <2> QED
    BY <1>4, <2>1, <2>2
<1>10. CASE FailPending(h)
  <2>1. g \in scanners \/ g = [h EXCEPT !.pc = "failing", !.pending = {}]
    BY <1>10 DEF FailPending, Becomes
  <2>2. g = [h EXCEPT !.pc = "failing", !.pending = {}] => g.job = h.job /\ g.pending = {}
    BY <1>1 DEF Scanners
  <2> QED
    BY <2>1, <2>2
<1>11. CASE Fail(h)
  BY <1>3, <1>11 DEF Fail
<1>12. CASE Finalize(h)
  BY <1>12 DEF Finalize
<1>13. CASE ScannerDies(h)
  BY <1>3, <1>13 DEF ScannerDies
<1>14. CASE Commit(h)
  <2>1. PICK page : CommitPage(h, page)
    BY <1>14, Zenon DEF Commit
  <2>2. PICK s, t, f : /\ f = [h EXCEPT !.seq = s, !.pending = {}, !.token = t, !.rescan = FALSE]
                       /\ \/ \E pc : Becomes(h, [f EXCEPT !.pc = pc])
                          \/ \E o : Becomes(h, [f EXCEPT !.pc = "report", !.outcome = o])
    BY <2>1, Zenon DEF CommitPage
  <2>3. f.job = h.job /\ f.pending = {}
    BY <1>1, <2>2 DEF Scanners
  <2>4. DOMAIN f = DOMAIN h /\ "job" \in DOMAIN h /\ "pending" \in DOMAIN h
    BY <1>1, <2>2 DEF Scanners
  <2>5. \/ g \in scanners
        \/ \E pc : g = [f EXCEPT !.pc = pc]
        \/ \E o : g = [f EXCEPT !.pc = "report", !.outcome = o]
    BY <2>2 DEF Becomes
  <2>6. /\ \A pc : [f EXCEPT !.pc = pc].job = f.job /\ [f EXCEPT !.pc = pc].pending = f.pending
        /\ \A o : /\ [f EXCEPT !.pc = "report", !.outcome = o].job = f.job
                  /\ [f EXCEPT !.pc = "report", !.outcome = o].pending = f.pending
    BY <1>1, <2>2, <2>4 DEF Scanners
  <2> QED
    BY <2>3, <2>5, <2>6
<1> QED
  BY <1>5, <1>6, <1>7, <1>8, <1>9, <1>10, <1>11, <1>12, <1>13, <1>14 DEF OtherStep

LEMMA ScannerStepPays ==
  ASSUME ScanInv, ScanInv', NEW I, Ids \in SUBSET I, NEW K \in SUBSET Jobs, ScanLedger(I, K),
         NEW h \in scanners, OtherStep(h) \/ Commit(h)
  PROVE  ScanLedger(I, K)'
<1>1. /\ h.job \in K /\ h.job \in Jobs /\ ScanBooks(ledger, I, K) /\ PoliciesTyped
      /\ \A g \in scanners : PendingBegun(ledger, K, g)
  BY DEF ScanLedger, PendingBegun
<1>2. policy' = policy /\ now' = now
  BY Zenon DEF OtherStep, RecognizeDone, StopBetweenPages, CursorExhausted, Request, Denied, FailPending,
               Fail, RecordSuccess, Finalize, ScannerDies, Commit, budgetVars
<1>3. PoliciesTyped'
  BY <1>1, <1>2 DEF PoliciesTyped
<1>4. \A id \in Ids : AttemptOf(ledger, id) = "started" => StillOpen(job[id[1]].status)
  BY DEF ScanLedger, StillOpen
<1>5. ASSUME LedgerMoves(I, K, h, ledger, ledger'),
             Request(h) => NextRequest(h.job) \in Attempts(h.job)
                           /\ WasBegun(ledger', NextRequest(h.job))
      PROVE  /\ ScanBooks(ledger', I, K)
             /\ \A g \in scanners' : PendingBegun(ledger', K, g)
  <2>1. \A id : WasBegun(ledger, id) => WasBegun(ledger', id)
    BY <1>5 DEF LedgerMoves
  <2>2. ASSUME NEW g \in scanners' PROVE PendingBegun(ledger', K, g)
    <3>1. \/ g \in scanners
          \/ g.job = h.job /\ g.pending \subseteq h.pending
          \/ Request(h) /\ g.job = h.job /\ g.pending = h.pending \cup {NextRequest(h.job)}
      BY PendingGoes
    <3> QED
      BY <1>1, <1>5, <2>1, <3>1 DEF PendingBegun
  <2> QED
    BY <1>5, <2>2 DEF LedgerMoves
<1>6. ASSUME LedgerMoves(I, K, h, ledger, ledger'), job' = job,
             Request(h) => NextRequest(h.job) \in Attempts(h.job)
                           /\ WasBegun(ledger', NextRequest(h.job))
      PROVE  ScanLedger(I, K)'
  <2>1. ScanBooks(ledger', I, K) /\ \A g \in scanners' : PendingBegun(ledger', K, g)
    BY <1>5, <1>6
  <2>2. ASSUME NEW id \in Ids, AttemptOf(ledger', id) = "started"
        PROVE  \/ AttemptOf(ledger, id) = "started" /\ StillOpen(job'[id[1]].status)
               \/ job'[id[1]].status = "running"
    <3>1. \/ AttemptOf(ledger, id) = "started"
          \/ id \in Attempts(h.job) /\ job[h.job].status = "running"
      BY <1>6, <2>2 DEF LedgerMoves
    <3> QED
      BY <1>1, <1>4, <1>6, <3>1, AttemptIds
  <2> QED
    BY <1>3, <2>1, <2>2, ScanLedgerMoves
<1>7. CASE Request(h)
  <2>1. /\ LedgerMoves(I, K, h, ledger, ledger')
        /\ NextRequest(h.job) \in Attempts(h.job) /\ WasBegun(ledger', NextRequest(h.job))
    BY <1>7, RequestMoves
  <2>2. job' = job
    BY <1>7 DEF Request
  <2> QED
    BY <1>6, <2>1, <2>2
<1>8. CASE Denied(h)
  <2>1. ledger' = Recovered(h) /\ job' = job
    BY <1>8 DEF Denied
  <2>2. LedgerMoves(I, K, h, ledger, ledger')
    BY <1>1, <2>1, RecoveredMoves
  <2> QED
    BY <1>6, <1>7, <2>1, <2>2
<1>9. CASE Commit(h)
  <2>1. PICK outcome \in {"succeeded", "failed"} : ledger' = Settled(ledger, h.pending, outcome)
    <3>1. PICK page : CommitPage(h, page)
      BY <1>9, Zenon DEF Commit
    <3> QED
      BY <3>1, Zenon DEF CommitPage
  <2>2. LedgerMoves(I, K, h, ledger, ledger')
    BY <1>1, <2>1, PendingMoves DEF PendingBegun
  <2>3. job' = job
    BY <1>9 DEF Commit
  <2> QED
    BY <1>6, <1>7, <2>2, <2>3
<1>10. CASE FailPending(h)
  <2>1. ledger' = Settled(ledger, h.pending, "failed") /\ job' = job
    BY <1>10 DEF FailPending
  <2>2. LedgerMoves(I, K, h, ledger, ledger')
    BY <1>1, <2>1, PendingMoves DEF PendingBegun
  <2> QED
    BY <1>6, <1>7, <2>1, <2>2
<1>11. CASE ledger' = ledger /\ job' = job
  <2>1. LedgerMoves(I, K, h, ledger, ledger')
    BY <1>1, <1>11 DEF LedgerMoves, Touches
  <2> QED
    BY <1>6, <1>7, <1>11, <2>1
<1>12. ASSUME ledger' = RecoverAttempts(ledger, Attempts(h.job)), job' = Released(h.job, h.outcome)
       PROVE  ScanLedger(I, K)'
  <2>1. /\ LedgerMoves(I, K, h, ledger, ledger')
        /\ \A id \in Attempts(h.job) : AttemptOf(ledger', id) # "started"
        /\ \A id : AttemptOf(ledger', id) = "started" => AttemptOf(ledger, id) = "started"
    <3>1. RecoveredAs(I, K, h, ledger, ledger')
      BY <1>1, <1>12, RecoverMoves
    <3> QED
      BY <3>1 DEF RecoveredAs
  <2>2. CASE ~Request(h)
    <3>1. ScanBooks(ledger', I, K) /\ \A g \in scanners' : PendingBegun(ledger', K, g)
      BY <1>5, <2>1, <2>2
    <3>2. ASSUME NEW id \in Ids, AttemptOf(ledger', id) = "started"
          PROVE  AttemptOf(ledger, id) = "started" /\ StillOpen(job'[id[1]].status)
      <4>1. AttemptOf(ledger, id) = "started"
        BY <2>1, <3>2
      <4>2. id[1] \in Jobs /\ id \in Attempts(id[1])
        BY <3>1, <3>2 DEF ScanBooks, AttemptsOwned, WasBegun
      <4>3. id[1] # h.job
        BY <2>1, <3>2, <4>2
      <4>4. job'[id[1]] = job[id[1]]
        BY <1>12, <4>2, <4>3 DEF Released, ScanInv, JobsTyped
      <4> QED
        BY <1>4, <4>1, <4>4
    <3> QED
      BY <1>3, <3>1, <3>2, ScanLedgerMoves
  <2> QED
    BY <1>7, <2>2
<1>13. CASE Finalize(h)
  <2>1. \/ ledger' = RecoverAttempts(ledger, Attempts(h.job)) /\ job' = Released(h.job, h.outcome)
        \/ ledger' = ledger /\ job' = job
    BY <1>13, Zenon DEF Finalize, LeftOpen
  <2> QED
    BY <1>11, <1>12, <2>1
<1> QED
  BY <1>7, <1>8, <1>9, <1>10, <1>11, <1>13, Zenon
     DEF OtherStep, RecognizeDone, StopBetweenPages, CursorExhausted, Fail, RecordSuccess, ScannerDies,
         budgetVars

OwnJobs(K) == \A j \in Jobs \ K : job'[j] = job[j]

LEMMA ScanLedgerStep ==
  ASSUME ScanInv, ScanInv', NEW I, Ids \in SUBSET I, NEW K \in SUBSET Jobs, ScanLedger(I, K),
         [PageNext]_<<job, budgetVars, pageVars>>, OwnJobs(K)
  PROVE  ScanLedger(I, K)'
<1>1. /\ JobsTyped /\ PoliciesTyped /\ ScanBooks(ledger, I, K)
      /\ \A g \in scanners : PendingBegun(ledger, K, g)
      /\ \A id \in Ids : AttemptOf(ledger, id) = "started" =>
           id[1] \in Jobs /\ StillOpen(job[id[1]].status)
  BY DEF ScanInv, ScanLedger, PendingBegun, StillOpen, Ids
<1>2. ASSUME PoliciesTyped', ledger' = ledger,
             \A j \in Jobs : job'[j].status \in {job[j].status, "cancelled", "queued", "running"},
             \A g \in scanners' : g \in scanners \/ (g.job \in K /\ g.pending = {})
      PROVE  ScanLedger(I, K)'
  <2>1. \A j \in Jobs : StillOpen(job[j].status) => StillOpen(job'[j].status)
    BY <1>2 DEF StillOpen, Finished
  <2>2. \A g \in scanners' : PendingBegun(ledger', K, g)
    BY <1>1, <1>2 DEF PendingBegun
  <2> QED
    BY <1>1, <1>2, <2>1, <2>2, ScanLedgerMoves
<1>3. ASSUME NEW j \in Jobs, ScanAcquire(j) PROVE ScanLedger(I, K)'
  <2>1. \A i \in Jobs :
          /\ job'[i].epoch = IF i = j THEN job[i].epoch + 1 ELSE job[i].epoch
          /\ job'[i].status = IF i = j THEN "running" ELSE job[i].status
    BY <1>1, <1>3, JobStepsMove DEF ScanAcquire
  <2>2. j \in K
    <3>1. job[j].epoch \in Nat
      BY <1>1, JobRowRecords DEF JobsTyped
    <3> QED
      BY <2>1, <3>1 DEF OwnJobs
  <2>3. PICK g : scanners' = scanners \cup {g} /\ g.job = j /\ g.pending = {}
    <3> DEFINE g == [job |-> j, epoch |-> job[j].epoch + 1, pc |-> "start", token |-> NoToken,
                     seq |-> cursor[j].seq, first |-> TRUE, rescan |-> FALSE, pending |-> {},
                     outcome |-> "none"]
    <3>1. scanners' = scanners \cup {g} /\ g.job = j /\ g.pending = {}
      BY <1>3 DEF ScanAcquire
    <3> HIDE DEF g
    <3> QED
      BY <3>1
  <2>4. PoliciesTyped' /\ ledger' = ledger
    BY <1>1, <1>3 DEF ScanAcquire, budgetVars, PoliciesTyped
  <2> QED
    BY <1>2, <2>1, <2>2, <2>3, <2>4
<1>4. ASSUME NEW j \in Jobs, ScanJobMoves(j) PROVE ScanLedger(I, K)'
  <2>1. \A i \in Jobs : job'[i].status \in {job[i].status, "cancelled", "queued"}
    BY <1>1, <1>4, JobStepsMove DEF ScanJobMoves
  <2>2. PoliciesTyped' /\ ledger' = ledger /\ scanners' = scanners
    BY <1>1, <1>4 DEF ScanJobMoves, budgetVars, PoliciesTyped
  <2> QED
    BY <1>2, <2>1, <2>2
<1>5. ASSUME NEW h \in scanners, OtherStep(h) \/ Commit(h) PROVE ScanLedger(I, K)'
  BY <1>5, ScannerStepPays
<1>6. CASE ScanBudgetMoves
  <2>1. PoliciesTyped' /\ ledger' = ledger
    BY <1>1, <1>6, PoliciesMove DEF ScanBudgetMoves
  <2>2. job' = job /\ scanners' = scanners
    BY <1>6 DEF ScanBudgetMoves, pageVars
  <2> QED
    BY <1>2, <2>1, <2>2
<1>7. CASE UNCHANGED <<job, budgetVars, pageVars>>
  <2>1. PoliciesTyped' /\ ledger' = ledger /\ job' = job /\ scanners' = scanners
    BY <1>1, <1>7 DEF pageVars, budgetVars, PoliciesTyped
  <2> QED
    BY <1>2, <2>1
<1> QED
  BY <1>3, <1>4, <1>5, <1>6, <1>7 DEF PageNext, OtherStep

(* Other jobs' steps leave a collection where it is.                       *)
LEMMA ScanElsewhere ==
  ASSUME ScanInv, NEW I, NEW K \in SUBSET Jobs, ScanLedger(I, K),
         UNCHANGED pageVars, JobsTyped', \A j \in K : job'[j] = job[j],
         PoliciesTyped', ledger' \in Ledgers(I), Books(ledger'), Touches(ledger, ledger', I \ Ids)
  PROVE  ScanInv' /\ ScanLedger(I, K)'
<1>1. /\ cursor' = cursor /\ sent' = sent /\ window' = window /\ scanners' = scanners /\ trail' = trail
      /\ \A h \in scanners : h.job \in K
      /\ PoliciesTyped /\ ScanBooks(ledger, I, K)
  BY DEF pageVars, ScanLedger
<1>2. ScanInv'
  BY <1>1 DEF ScanInv, ScanTyped, ScanEpochsBounded, OneScannerPerEpoch, ScannersSound, CurrentOnTrail,
              CurrentScanner, OnTrail, ConfirmedWindowWasScanned, Confirmed
<1>3. \A id \in Ids : /\ AttemptOf(ledger', id) = AttemptOf(ledger, id)
                      /\ RowsOf(ledger', id) = RowsOf(ledger, id)
                      /\ IsSettled(ledger', id) <=> IsSettled(ledger, id)
  BY UntouchedSaysTheSame DEF Touches
<1>4. UnitRows(ledger', Ids)
  <2> SUFFICES ASSUME NEW r \in ledger'.rows, r.id \in Ids
               PROVE  r.requested = 1 /\ r.actual \in {Unsettled, 1}
    BY DEF UnitRows
  <2>1. r \in RowsOf(ledger', r.id)
    BY DEF RowsOf
  <2>2. r \in ledger.rows
    BY <1>3, <2>1 DEF RowsOf
  <2> QED
    BY <1>1, <2>2 DEF ScanBooks, UnitBooks, UnitRows
<1>5. ScanBooks(ledger', I, K)
  BY <1>1, <1>3, <1>4 DEF ScanBooks, UnitBooks, AttemptsOwned, WasBegun
<1>6. \A id \in Ids : WasBegun(ledger', id) <=> WasBegun(ledger, id)
  BY <1>3 DEF WasBegun
<1>7. \A h \in scanners : \A id \in h.pending : WasBegun(ledger', id)
  <2>1. \A h \in scanners : \A id \in h.pending : id \in Ids
    BY AttemptIds DEF ScanLedger
  <2> QED
    BY <1>6, <2>1 DEF ScanLedger
<1>8. \A id \in Ids : AttemptOf(ledger', id) = "started" =>
        id[1] \in K /\ job'[id[1]].status \notin Finished \ {"cancelled"}
  BY <1>1, <1>3 DEF ScanLedger, ScanBooks, AttemptsOwned, WasBegun
<1> QED
  BY <1>1, <1>2, <1>5, <1>7, <1>8 DEF ScanLedger

LEMMA ScanStarts ==
  ASSUME JobInit, LedgerInit, PageInit, NEW I, NEW K
  PROVE  ScanInv /\ ScanLedger(I, K)
<1>1. JobsTyped
  BY JobInitTyped
<1>2. EmptyCursor \in Cursors
  BY DEF EmptyCursor, Cursors, NoToken
<1>3. ScanTyped
  BY <1>2 DEF PageInit, ScanTyped, SentRows, Windows, Trails
<1>4. ScanInv
  BY <1>1, <1>3 DEF PageInit, ScanInv, ScanEpochsBounded, OneScannerPerEpoch, ScannersSound,
                    CurrentOnTrail, ConfirmedWindowWasScanned, Confirmed
<1>5. /\ PoliciesTyped /\ ledger \in Ledgers(I) /\ Books(ledger)
      /\ ledger.rows = {} /\ DOMAIN ledger.attempts = {}
  BY LedgerStarts
<1>6. \A id : ~WasBegun(ledger, id) /\ AttemptOf(ledger, id) # "started"
  BY <1>5 DEF WasBegun, AttemptOf
<1>7. ScanLedger(I, K)
  BY <1>5, <1>6 DEF ScanLedger, ScanBooks, AttemptsOwned, UnitBooks, UnitRows, PageInit
<1> QED
  BY <1>4, <1>7

LEMMA ScanOwes ==
  ASSUME NEW I, NEW K, ScanLedger(I, K)
  PROVE  LedgerTypeOK /\ WindowsBalance /\ NeverOversold /\ SettledCollectionOwesNothing
<1>1. PoliciesTyped /\ ledger \in Ledgers(I) /\ Books(ledger) /\ AttemptsOwned(ledger, K)
  BY DEF ScanLedger, ScanBooks, UnitBooks
<1>2. LedgerTypeOK /\ WindowsBalance /\ NeverOversold
  BY <1>1, LedgerIsTyped, BooksBalance
<1>3. SettledCollectionOwesNothing
  <2> SUFFICES ASSUME NEW j \in Jobs, job[j].status \in Finished \ {"cancelled"},
                      NEW id \in DOMAIN ledger.attempts \cap Attempts(j)
               PROVE  ledger.attempts[id] # "started" /\ IsSettled(ledger, id)
    BY DEF SettledCollectionOwesNothing
  <2>1. id \in Ids /\ id[1] = j
    BY AttemptIds
  <2>2. ledger.attempts[id] = AttemptOf(ledger, id)
    BY DEF AttemptOf
  <2>3. AttemptOf(ledger, id) # "started"
    BY <2>1 DEF ScanLedger
  <2>4. WasBegun(ledger, id)
    BY <1>1, BegunIs
  <2> QED
    BY <1>1, <2>1, <2>2, <2>3, <2>4 DEF AttemptsOwned
<1> QED
  BY <1>2, <1>3

ScanPaidInv == ScanInv /\ ScanLedger(Ids, Jobs)

LEMMA ScanPaidStep ==
  ScanPaidInv /\ [PageNext]_<<job, budgetVars, pageVars>> => ScanPaidInv'
<1> SUFFICES ASSUME ScanPaidInv, [PageNext]_<<job, budgetVars, pageVars>> PROVE ScanPaidInv'
  OBVIOUS
<1>1. ScanInv /\ ScanInv' /\ ScanLedger(Ids, Jobs)
  BY ScanStep DEF ScanPaidInv
<1>2. OwnJobs(Jobs) /\ Ids \in SUBSET Ids /\ Jobs \in SUBSET Jobs
  BY DEF OwnJobs
<1>3. ScanLedger(Ids, Jobs)'
  BY <1>1, <1>2, ScanLedgerStep
<1> QED
  BY <1>1, <1>3 DEF ScanPaidInv

(* Whatever the scans of any number of jobs reserve, retry, recover or     *)
(* leave behind, each budget window holds what its reservations add up to, *)
(* and no limit is exceeded (the reservations of jobs/services.py as       *)
(* content/discovery_execution.py uses them).                              *)
THEOREM ScansKeepTheBooks == PageSpec => [](LedgerTypeOK /\ WindowsBalance /\ NeverOversold)
<1>1. JobInit /\ LedgerInit /\ PageInit => ScanPaidInv
  BY ScanStarts DEF ScanPaidInv
<1>2. ScanPaidInv => LedgerTypeOK /\ WindowsBalance /\ NeverOversold
  BY ScanOwes DEF ScanPaidInv
<1> QED
  BY <1>1, <1>2, ScanPaidStep, PTL DEF PageSpec

(* A collection that a handler settled has charged every request any of    *)
(* its handlers ever sent: the one that settles it recovers the rest.      *)
THEOREM ScansOweNothing == PageSpec => []SettledCollectionOwesNothing
<1>1. JobInit /\ LedgerInit /\ PageInit => ScanPaidInv
  BY ScanStarts DEF ScanPaidInv
<1>2. ScanPaidInv => SettledCollectionOwesNothing
  BY ScanOwes DEF ScanPaidInv
<1> QED
  BY <1>1, <1>2, ScanPaidStep, PTL DEF PageSpec

-----------------------------------------------------------------------------
(* Bounds: no scan reads, numbers or rescans more pages than its cursor    *)
(* allows, and no cycle sends more requests. A handler that outlived its   *)
(* lease may hold an old checkpoint, but commits nothing with it.          *)

CursorBounded(c) ==
  /\ c.pages = c.seq /\ c.seq <= MaxPages /\ c.rescans <= MaxRescans
  /\ c.seen \subseteq 1 .. MaxPages
  /\ c.expected <= c.seq + 1 /\ c.expected <= MaxPages
Fetching(h) == h.pc \in {"fetching", "stopped"}
ScannerBounded(h, c) ==
  /\ h.epoch >= 1 /\ h.seq <= c.seq /\ h.token <= h.seq + 1 /\ h.token <= MaxPages
  /\ Fetching(h) /\ h.seq = c.seq =>
       c.pages < MaxPages /\ (h.rescan => c.rescans < MaxRescans)
Reached == {Broken} \cup 0 .. MaxPages

PageBounds ==
  /\ \A j \in Jobs : CursorBounded(cursor[j]) /\ sent[j].cycle <= MaxRequests
                     /\ trail[j].page \in Reached
  /\ window.seq <= MaxPages /\ window.proof \in Reached
  /\ \A h \in scanners : ScannerBounded(h, cursor[h.job])

LEMMA AdvanceBounded ==
  ASSUME NEW c \in Cursors, CursorBounded(c), c.pages < MaxPages, NEW rescan \in BOOLEAN,
         rescan => c.rescans < MaxRescans, NEW token \in Nat, token <= c.seq + 1,
         NEW page, page \in PagesOf(token) \/ page.state = "stopped"
  PROVE  LET next == Advanced(c, rescan, page)
         IN CursorBounded(next) /\ next.seq = c.seq + 1
<1> DEFINE next == Advanced(c, rescan, page)
           number == IF token = NoToken THEN 1 ELSE token
           seen == IF rescan THEN {} ELSE c.seen
           goes == /\ page.state = "more" /\ page.next \notin seen
                   /\ ~(c.pages + 1 >= MaxPages)
<1>1. /\ next.expected = IF goes THEN page.next ELSE NoToken
      /\ next.seen = IF goes THEN seen \cup {page.next} ELSE seen
      /\ next.pages = c.pages + 1 /\ next.seq = c.seq + 1
      /\ next.rescans = IF rescan THEN c.rescans + 1 ELSE c.rescans
  BY DEF Advanced
<1>2. page.state = "more" => page.next \in 1 .. number + 1
  BY DEF PagesOf
<1>3. /\ c.pages \in Nat /\ c.seq = c.pages /\ c.rescans \in Nat /\ c.rescans <= MaxRescans
      /\ MaxPages \in Nat \ {0} /\ MaxRescans \in Nat
      /\ seen \subseteq 1 .. MaxPages /\ number \in Nat /\ number <= c.seq + 1
  BY PageAssumption DEF Cursors, CursorBounded, NoToken
<1> HIDE DEF next, seen, number
<1>4. next.seq <= MaxPages /\ next.pages = next.seq /\ next.rescans <= MaxRescans
  BY <1>1, <1>3
<1>5. CASE goes
  <2>1. page.next \in 1 .. number + 1 /\ c.pages + 1 < MaxPages
    BY <1>2, <1>3, <1>5
  <2>2. page.next \in 1 .. MaxPages /\ page.next <= next.seq + 1
    BY <1>1, <1>3, <2>1
  <2>3. next.expected = page.next /\ next.seen = seen \cup {page.next}
    BY <1>1, <1>5
  <2>4. next.seen \subseteq 1 .. MaxPages
    BY <1>3, <2>2, <2>3
  <2>5. next.expected <= next.seq + 1 /\ next.expected <= MaxPages
    BY <1>3, <2>2, <2>3
  <2> QED
    BY <1>1, <1>4, <2>4, <2>5 DEF CursorBounded, next
<1>6. CASE ~goes
  <2>1. next.expected = 0 /\ next.seen = seen
    BY <1>1, <1>6 DEF NoToken
  <2>2. next.seen \subseteq 1 .. MaxPages
    BY <1>3, <2>1
  <2>3. next.expected <= next.seq + 1 /\ next.expected <= MaxPages
    BY <1>1, <1>3, <2>1
  <2> QED
    BY <1>1, <1>4, <2>2, <2>3 DEF CursorBounded, next
<1> QED
  BY <1>5, <1>6

(* A commit of h from a bounded scan.                                      *)
LEMMA CommitBounded ==
  ASSUME ScanInv, PageBounds, NEW h \in scanners, Commit(h)
  PROVE  PageBounds'
<1>1. PICK page : /\ page \in PagesOf(h.token) \/ page.state = "stopped"
                  /\ CommitPage(h, page)
  <2>1. CASE h.pc = "fetching"
    BY <2>1, Zenon DEF Commit
  <2>2. CASE h.pc # "fetching"
    <3> DEFINE stop == [state |-> "stopped", next |-> NoToken, proof |-> FALSE,
                        reason |-> "budget_exhausted"]
    <3>1. CommitPage(h, stop)
      BY <2>2, Zenon DEF Commit
    <3>2. stop.state = "stopped"
      OBVIOUS
    <3> HIDE DEF stop
    <3> QED
      BY <3>1, <3>2
  <2> QED
    BY <2>1, <2>2
<1>2. /\ \A g \in scanners : g \in Scanners /\ g.job \in Jobs /\ g.seq \in Nat
      /\ h \in Scanners /\ h.job \in Jobs /\ h.epoch \in Nat /\ h.token \in Nat
      /\ h.rescan \in BOOLEAN
      /\ \A j \in Jobs : cursor[j] \in Cursors /\ cursor[j].seq \in Nat
      /\ cursor \in [Jobs -> Cursors] /\ trail \in [Jobs -> Trails]
  BY DEF ScanInv, ScanTyped, Scanners, Cursors
<1> DEFINE c == cursor[h.job]
           next == Advanced(c, h.rescan, page)
           reached == IF Number(h) = 1 \/ trail[h.job] = [epoch |-> h.epoch, page |-> Number(h) - 1]
                        THEN Number(h) ELSE Broken
           status == IF next.expected # NoToken THEN "running"
                     ELSE IF Ends(page, next) /\ page.proof THEN "confirmed" ELSE "partial"
<1>3. /\ h.seq = c.seq /\ Fetching(h)
      /\ ScannerBounded(h, c) /\ CursorBounded(c)
  BY <1>2 DEF Commit, MayCommit, PageBounds, Fetching
<1>4. /\ c.pages < MaxPages /\ (h.rescan => c.rescans < MaxRescans) /\ h.token <= c.seq + 1
      /\ h.token <= MaxPages /\ h.epoch >= 1
  BY <1>3 DEF ScannerBounded
<1>5. CursorBounded(next) /\ next.seq = c.seq + 1
  BY <1>1, <1>2, <1>3, <1>4, AdvanceBounded
<1>6. reached \in Reached
  <2>1. Number(h) \in 0 .. MaxPages
    BY <1>2, <1>4, PageAssumption DEF Number
  <2> QED
    BY <2>1 DEF Reached
<1>7. /\ cursor' = [cursor EXCEPT ![h.job] = next]
      /\ trail' = [trail EXCEPT ![h.job] = [epoch |-> h.epoch, page |-> reached]]
      /\ window' = [status |-> status, job |-> h.job, seq |-> next.seq,
                    proof |-> IF status = "confirmed" THEN reached ELSE window.proof]
      /\ sent' = sent
  BY <1>1, Zenon DEF CommitPage, Number, Commit
<1>8. \E new : /\ scanners' = (scanners \ {h}) \cup {new}
               /\ new.job = h.job /\ new.epoch = h.epoch /\ new.seq = next.seq
               /\ new.token = next.expected /\ ~Fetching(new)
  <2> DEFINE fresh == [h EXCEPT !.seq = next.seq, !.pending = {}, !.token = next.expected,
                                !.rescan = FALSE]
  <2>1. \/ \E pc \in {"loop", "confirmed"} : Becomes(h, [fresh EXCEPT !.pc = pc])
        \/ \E outcome : Becomes(h, [fresh EXCEPT !.pc = "report", !.outcome = outcome])
    BY <1>1 DEF CommitPage
  <2> HIDE DEF next
  <2>2. /\ \A pc \in {"loop", "confirmed"} : \A g : g = [fresh EXCEPT !.pc = pc] =>
             g.job = h.job /\ g.epoch = h.epoch /\ g.seq = next.seq
               /\ g.token = next.expected /\ ~Fetching(g)
        /\ \A outcome, g : g = [fresh EXCEPT !.pc = "report", !.outcome = outcome] =>
             g.job = h.job /\ g.epoch = h.epoch /\ g.seq = next.seq
               /\ g.token = next.expected /\ ~Fetching(g)
    BY <1>2 DEF Scanners, Fetching
  <2> HIDE DEF fresh
  <2> QED
    BY <2>1, <2>2 DEF Becomes
<1> HIDE DEF next, reached, status, c
<1>9. PICK new : /\ scanners' = (scanners \ {h}) \cup {new}
                 /\ new.job = h.job /\ new.epoch = h.epoch /\ new.seq = next.seq
                 /\ new.token = next.expected /\ ~Fetching(new)
  BY <1>8
<1>10. \A j \in Jobs : /\ cursor'[j] = IF j = h.job THEN next ELSE cursor[j]
                       /\ trail'[j].page = IF j = h.job THEN reached ELSE trail[j].page
  BY <1>2, <1>7
<1>11. ASSUME NEW g \in scanners, g # h PROVE ScannerBounded(g, cursor'[g.job])
  <2>1. ScannerBounded(g, cursor[g.job]) /\ g.job \in Jobs /\ g.seq \in Nat
    BY <1>2 DEF PageBounds
  <2>2. CASE g.job # h.job
    BY <1>10, <2>1, <2>2
  <2>3. CASE g.job = h.job
    <3>1. cursor'[g.job] = next /\ next.seq = c.seq + 1 /\ g.seq <= c.seq /\ c.seq \in Nat
      BY <1>2, <1>5, <1>10, <2>1, <2>3 DEF ScannerBounded, c
    <3> QED
      BY <2>1, <3>1 DEF ScannerBounded
  <2> QED
    BY <2>2, <2>3
<1>12. ScannerBounded(new, next)
  <2>1. c.seq \in Nat
    BY <1>2 DEF c
  <2> QED
    BY <1>4, <1>5, <1>9, <2>1 DEF ScannerBounded, CursorBounded
<1>13. \A g \in scanners' : ScannerBounded(g, cursor'[g.job])
  BY <1>2, <1>9, <1>10, <1>11, <1>12
<1>14. window'.seq <= MaxPages /\ window'.proof \in Reached
  BY <1>5, <1>6, <1>7 DEF PageBounds, CursorBounded
<1> QED
  BY <1>5, <1>6, <1>7, <1>10, <1>13, <1>14 DEF PageBounds, CursorBounded, ScannerBounded, Reached, Fetching

(* A step of h other than a commit: it begins to fetch only where the      *)
(* cursor lets it.                                                         *)
GoesOn(h, g) ==
  /\ g.job = h.job /\ g.epoch = h.epoch /\ g.seq = h.seq /\ g.token \in {h.token, NoToken}
  /\ Fetching(g) =>
       \/ Fetching(h) /\ g.rescan = h.rescan
       \/ /\ ~Exhausted(cursor[h.job], h.token)
          /\ g.rescan => MustRescan(cursor[h.job], h.token)

LEMMA OtherStepsGoOn ==
  ASSUME ScanInv, NEW h \in scanners, OtherStep(h), NEW g \in scanners'
  PROVE  g \in scanners \/ GoesOn(h, g)
<1>1. h \in Scanners
  BY DEF ScanInv, ScanTyped
<1>2. ASSUME NEW pc \in {"loop", "failing", "report"},
             \/ g = [h EXCEPT !.pc = pc]
             \/ g = [h EXCEPT !.pc = pc, !.pending = {}]
             \/ \E outcome : g = [h EXCEPT !.pc = pc, !.outcome = outcome, !.pending = {}]
      PROVE  GoesOn(h, g)
  <2>1. /\ g.job = h.job /\ g.epoch = h.epoch /\ g.seq = h.seq /\ g.token = h.token /\ g.pc = pc
    BY <1>1, <1>2 DEF Scanners
  <2> QED
    BY <2>1 DEF GoesOn, Fetching
<1>3. ASSUME NEW outcome, Reports(h, outcome) PROVE g \in scanners \/ GoesOn(h, g)
  <2>1. g \in scanners \/ g = [h EXCEPT !.pc = "report", !.outcome = outcome, !.pending = {}]
    BY <1>3 DEF Reports, Becomes
  <2> QED
    BY <1>2, <2>1
<1>4. ASSUME NEW f, f = Asking(h), Fetches(h)
      PROVE  /\ f \in Scanners /\ f.job = h.job /\ f.epoch = h.epoch /\ f.seq = h.seq
             /\ f.token \in {h.token, NoToken}
             /\ \/ Fetching(h) /\ f.rescan = h.rescan
                \/ /\ ~Exhausted(cursor[h.job], h.token)
                   /\ f.rescan => MustRescan(cursor[h.job], h.token)
  <2>1. f \in Scanners /\ f.job = h.job /\ f.epoch = h.epoch
    BY <1>1, <1>4, AskingLater DEF Later, ScanInv, ScannersSound
  <2>2. CASE h.pc = "fetching"
    BY <1>1, <1>4, <2>1, <2>2 DEF Asking, Fetching
  <2>3. CASE h.pc # "fetching"
    <3>1. f = [h EXCEPT !.rescan = MustRescan(cursor[h.job], h.token),
                        !.token = IF MustRescan(cursor[h.job], h.token) THEN NoToken ELSE @]
      BY <1>4, <2>3 DEF Asking
    <3>2. /\ f.seq = h.seq /\ f.token \in {h.token, NoToken}
          /\ f.rescan = MustRescan(cursor[h.job], h.token)
      BY <1>1, <3>1 DEF Scanners
    <3> QED
      BY <1>4, <2>1, <2>3, <3>2 DEF Fetches, Fetching
  <2> QED
    BY <2>2, <2>3
<1>5. CASE RecognizeDone(h)
  <2>1. \/ \E o : Reports(h, o)
        \/ Becomes(h, [h EXCEPT !.pc = "loop"])
    BY <1>5 DEF RecognizeDone
  <2> QED
    BY <1>2, <1>3, <2>1 DEF Becomes
<1>6. CASE StopBetweenPages(h)
  BY <1>3, <1>6 DEF StopBetweenPages
<1>7. CASE CursorExhausted(h) \/ RecordSuccess(h)
  BY <1>3, <1>7 DEF CursorExhausted, RecordSuccess
<1>8. CASE Request(h)
  <2>1. PICK f, id : /\ f = Asking(h) /\ id = NextRequest(h.job) /\ Fetches(h)
                     /\ scanners' = (scanners \ {h}) \cup
                          {[f EXCEPT !.pc = "fetching", !.first = FALSE, !.pending = @ \cup {id}]}
    BY <1>8, Zenon DEF Request, Becomes
  <2>2. \/ g \in scanners
        \/ g = [f EXCEPT !.pc = "fetching", !.first = FALSE, !.pending = @ \cup {id}]
    BY <2>1
  <2>3. g = [f EXCEPT !.pc = "fetching", !.first = FALSE, !.pending = @ \cup {id}] =>
          /\ g.job = f.job /\ g.epoch = f.epoch /\ g.seq = f.seq /\ g.token = f.token
          /\ g.rescan = f.rescan
    BY <1>4, <2>1 DEF Scanners
  <2> QED
    BY <1>4, <2>1, <2>2, <2>3 DEF GoesOn
<1>9. CASE Denied(h)
  <2>1. PICK f : /\ f = Asking(h) /\ scanners' = (scanners \ {h}) \cup {[f EXCEPT !.pc = "stopped"]}
                 /\ Fetches(h)
    BY <1>9, Zenon DEF Denied, Becomes
  <2>2. g = [f EXCEPT !.pc = "stopped"] =>
          /\ g.job = f.job /\ g.epoch = f.epoch /\ g.seq = f.seq /\ g.token = f.token
          /\ g.rescan = f.rescan
    BY <1>4, <2>1 DEF Scanners
  <2> QED
    BY <1>4, <2>1, <2>2 DEF GoesOn
<1>10. CASE FailPending(h)
  BY <1>2, <1>10 DEF FailPending, Becomes
<1>11. CASE Fail(h)
  BY <1>3, <1>11 DEF Fail
<1>12. CASE Finalize(h)
  BY <1>12 DEF Finalize
<1>13. CASE ScannerDies(h)
  BY <1>3, <1>13 DEF ScannerDies
<1> QED
  BY <1>5, <1>6, <1>7, <1>8, <1>9, <1>10, <1>11, <1>12, <1>13 DEF OtherStep

(* The window after a scan was given up.                                    *)
LEMMA MarkPartialBounded ==
  ASSUME ScanInv, PageBounds, NEW j \in Jobs, MarkPartial(j)
  PROVE  window'.seq <= MaxPages /\ window'.proof \in Reached
<1>1. window \in Windows /\ cursor[j].seq <= MaxPages
  BY DEF ScanInv, ScanTyped, PageBounds, CursorBounded
<1>2. Begun(j).seq \in {window.seq, cursor[j].seq} /\ Begun(j).proof = window.proof
  BY <1>1 DEF Begun, Windows
<1>3. window'.seq = Begun(j).seq /\ window'.proof = Begun(j).proof
  <2>1. cursor[j].seq \in Nat
    BY DEF ScanInv, ScanTyped, Cursors
  <2>2. Begun(j) \in Windows
    BY <2>1, WindowRecords DEF Begun, ScanInv, ScanTyped
  <2>3. \A w \in Windows : [w EXCEPT !.status = "partial"].seq = w.seq
                           /\ [w EXCEPT !.status = "partial"].proof = w.proof
    BY DEF Windows
  <2> QED
    BY <2>2, <2>3 DEF MarkPartial
<1> QED
  BY <1>1, <1>2, <1>3 DEF PageBounds

LEMMA OtherStepsBounded ==
  ASSUME ScanInv, PageBounds, NEW h \in scanners, OtherStep(h)
  PROVE  PageBounds'
<1>1. /\ \A g \in scanners : g \in Scanners /\ g.job \in Jobs /\ g.seq \in Nat /\ g.token \in Nat
      /\ \A j \in Jobs : cursor[j] \in Cursors /\ sent[j] \in SentRows
      /\ sent \in [Jobs -> SentRows] /\ h.job \in Jobs
  BY DEF ScanInv, ScanTyped, Scanners
<1>2. cursor' = cursor /\ trail' = trail
  BY OtherStepsQuiet DEF Quiet
<1>3. \A j \in Jobs : sent'[j].cycle <= MaxRequests
  <2>1. CASE sent' = sent
    BY <2>1 DEF PageBounds
  <2>2. CASE Request(h)
    <3>1. sent' = [sent EXCEPT ![h.job].total = @ + 1, ![h.job].cycle = @ + 1]
          /\ sent[h.job].cycle < MaxRequests
      BY <2>2, Zenon DEF Request
    <3>2. \A j \in Jobs : sent'[j].cycle = IF j = h.job THEN sent[j].cycle + 1 ELSE sent[j].cycle
      BY <1>1, <3>1 DEF SentRows
    <3>3. sent[h.job].cycle \in Nat /\ MaxRequests \in Nat
      BY <1>1, PageAssumption DEF SentRows
    <3>4. \A j \in Jobs : sent[j].cycle <= MaxRequests
      BY DEF PageBounds
    <3>5. sent[h.job].cycle < MaxRequests
      BY <3>1
    <3> QED
      BY <3>2, <3>3, <3>4, <3>5
  <2> QED
    BY <2>1, <2>2, Zenon DEF OtherStep, RecognizeDone, StopBetweenPages, CursorExhausted, Denied,
                             FailPending, Fail, RecordSuccess, Finalize, ScannerDies
<1>4. window'.seq <= MaxPages /\ window'.proof \in Reached
  <2>1. window' = window \/ MarkPartial(h.job)
    BY Zenon DEF OtherStep, RecognizeDone, StopBetweenPages, CursorExhausted, Request, Denied, FailPending,
                 Fail, RecordSuccess, Finalize, ScannerDies
  <2> QED
    BY <1>1, <2>1, MarkPartialBounded DEF PageBounds
<1>5. ASSUME NEW g \in scanners' PROVE ScannerBounded(g, cursor[g.job])
  <2>1. CASE g \in scanners
    BY <2>1 DEF PageBounds
  <2>2. CASE GoesOn(h, g)
    <3> DEFINE c == cursor[h.job]
    <3>1. ScannerBounded(h, c) /\ CursorBounded(c) /\ c \in Cursors
      BY <1>1 DEF PageBounds
    <3>2. /\ g.job = h.job /\ g.epoch = h.epoch /\ g.seq = h.seq /\ g.token \in {h.token, 0}
          /\ h.seq \in Nat /\ h.token \in Nat /\ MaxPages \in Nat /\ MaxRescans \in Nat
      BY <1>1, <2>2, PageAssumption DEF GoesOn, NoToken
    <3>3. g.epoch >= 1 /\ g.seq <= c.seq /\ g.token <= g.seq + 1 /\ g.token <= MaxPages
      BY <3>1, <3>2 DEF ScannerBounded
    <3>4. ASSUME Fetching(g), g.seq = c.seq
          PROVE  c.pages < MaxPages /\ (g.rescan => c.rescans < MaxRescans)
      <4>1. CASE Fetching(h) /\ g.rescan = h.rescan
        BY <3>1, <3>2, <3>4, <4>1 DEF ScannerBounded
      <4>2. CASE /\ ~Exhausted(c, h.token)
                 /\ g.rescan => MustRescan(c, h.token)
        <5>1. c.pages \in Nat /\ c.rescans \in Nat
          BY <3>1 DEF Cursors
        <5> HIDE DEF c
        <5> QED
          BY <3>2, <4>2, <5>1 DEF Exhausted
      <4> QED
        BY <2>2, <3>4, <4>1, <4>2 DEF GoesOn
    <3> QED
      BY <3>2, <3>3, <3>4 DEF ScannerBounded
  <2> QED
    BY <2>1, <2>2, OtherStepsGoOn
<1> QED
  BY <1>2, <1>3, <1>4, <1>5 DEF PageBounds, CursorBounded, ScannerBounded, Reached, Fetching

LEMMA BoundsStep ==
  ScanInv /\ PageBounds /\ [PageNext]_<<job, budgetVars, pageVars>> => PageBounds'
<1> SUFFICES ASSUME ScanInv, PageBounds, [PageNext]_<<job, budgetVars, pageVars>> PROVE PageBounds'
  OBVIOUS
<1>1. /\ \A g \in scanners : g \in Scanners /\ g.job \in Jobs
      /\ \A j \in Jobs : /\ cursor[j] \in Cursors /\ sent[j] \in SentRows /\ job[j].epoch \in Nat
                         /\ cursor[j].seq \in Nat
      /\ sent \in [Jobs -> SentRows] /\ MaxPages \in Nat /\ MaxRequests \in Nat
  BY JobRowRecords, PageAssumption DEF ScanInv, ScanTyped, Scanners, JobsTyped, Cursors
<1>2. ASSUME cursor' = cursor, trail' = trail, window' = window,
             \A j \in Jobs : sent'[j].cycle \in {sent[j].cycle, 0},
             \A g \in scanners' : g \in scanners \/ ScannerBounded(g, cursor[g.job])
      PROVE  PageBounds'
  <2>1. \A j \in Jobs : sent'[j].cycle <= MaxRequests
    BY <1>1, <1>2 DEF PageBounds
  <2>2. \A g \in scanners' : ScannerBounded(g, cursor[g.job])
    BY <1>2 DEF PageBounds
  <2> QED
    BY <1>2, <2>1, <2>2 DEF PageBounds, CursorBounded, ScannerBounded, Reached, Fetching
<1>3. ASSUME NEW j \in Jobs, ScanAcquire(j) PROVE PageBounds'
  <2>1. \A i \in Jobs : sent'[i].cycle \in {sent[i].cycle, 0}
    <3>1. sent' = [sent EXCEPT ![j].cycle = IF sent[j].closed THEN 0 ELSE @, ![j].closed = FALSE]
      BY <1>3 DEF ScanAcquire
    <3> QED
      BY <1>1, <3>1 DEF SentRows
  <2>2. \A g \in scanners' : g \in scanners \/ ScannerBounded(g, cursor[g.job])
    <3> DEFINE scanner ==
          [job |-> j, epoch |-> job[j].epoch + 1, pc |-> "start", token |-> NoToken,
           seq |-> cursor[j].seq, first |-> TRUE, rescan |-> FALSE, pending |-> {},
           outcome |-> "none"]
    <3>1. scanners' = scanners \cup {scanner}
      BY <1>3 DEF ScanAcquire
    <3>2. /\ scanner.job = j /\ scanner.epoch = job[j].epoch + 1 /\ scanner.pc = "start"
          /\ scanner.token = 0 /\ scanner.seq = cursor[j].seq
      BY DEF NoToken
    <3> HIDE DEF scanner
    <3>3. ScannerBounded(scanner, cursor[j])
      BY <1>1, <3>2 DEF ScannerBounded, Fetching
    <3> QED
      BY <3>1, <3>2, <3>3
  <2> QED
    BY <1>2, <1>3, <2>1, <2>2 DEF ScanAcquire
<1>4. ASSUME NEW j \in Jobs, ScanJobMoves(j) PROVE PageBounds'
  <2>1. \A i \in Jobs : sent'[i].cycle \in {sent[i].cycle, 0}
    <3>1. sent' = sent \/ sent' = [sent EXCEPT ![j].closed = TRUE]
      BY <1>4 DEF ScanJobMoves
    <3> QED
      BY <1>1, <3>1 DEF SentRows
  <2> QED
    BY <1>2, <1>4, <2>1 DEF ScanJobMoves
<1>5. ASSUME NEW h \in scanners, Commit(h) PROVE PageBounds'
  BY <1>5, CommitBounded
<1>6. ASSUME NEW h \in scanners, OtherStep(h) PROVE PageBounds'
  BY <1>6, OtherStepsBounded
<1>7. CASE ScanBudgetMoves \/ UNCHANGED <<job, budgetVars, pageVars>>
  BY <1>2, <1>7 DEF ScanBudgetMoves, pageVars
<1> QED
  BY <1>3, <1>4, <1>5, <1>6, <1>7 DEF PageNext, OtherStep

LEMMA BoundsStart == JobInit /\ PageInit => PageBounds
<1> SUFFICES ASSUME PageInit PROVE PageBounds
  OBVIOUS
<1>1. CursorBounded(EmptyCursor)
  BY PageAssumption DEF CursorBounded, EmptyCursor, NoToken
<1> QED
  BY <1>1, PageAssumption DEF PageInit, PageBounds, Reached

LEMMA ScanIsTypeOK ==
  ASSUME ScanInv, PageBounds, NEW I, NEW K, ScanLedger(I, K)
  PROVE  JobTypeOK /\ PageTypeOK
<1>1. /\ MaxPages \in Nat \ {0} /\ MaxRescans \in Nat /\ MaxRequests \in Nat
  BY PageAssumption
<1>2. ASSUME NEW j \in Jobs
      PROVE  cursor[j] \in [pages : 0 .. MaxPages, rescans : 0 .. MaxRescans,
                            seen : SUBSET (1 .. MaxPages + 1), expected : 0 .. MaxPages + 1,
                            restart : BOOLEAN, done : BOOLEAN, seq : 0 .. MaxPages]
  <2> DEFINE c == cursor[j]
  <2>1. c \in Cursors /\ CursorBounded(c)
    BY DEF ScanInv, ScanTyped, PageBounds
  <2> HIDE DEF c
  <2>2. /\ c.pages \in 0 .. MaxPages /\ c.rescans \in 0 .. MaxRescans /\ c.seq \in 0 .. MaxPages
        /\ c.expected \in 0 .. MaxPages + 1
    BY <1>1, <2>1 DEF Cursors, CursorBounded
  <2>3. c.seen \in SUBSET (1 .. MaxPages + 1)
    BY <1>1, <2>1 DEF CursorBounded
  <2> QED
    BY <2>1, <2>2, <2>3 DEF Cursors, c
<1>3. ASSUME NEW j \in Jobs
      PROVE  /\ sent[j] \in [total : Nat, cycle : 0 .. MaxRequests, closed : BOOLEAN]
             /\ trail[j] \in [epoch : Nat, page : Reached]
  <2>1. /\ sent[j] \in SentRows /\ sent[j].cycle <= MaxRequests
        /\ trail[j] \in Trails /\ trail[j].page \in Reached
    BY DEF ScanInv, ScanTyped, PageBounds
  <2>2. sent[j].cycle \in 0 .. MaxRequests
    BY <1>1, <2>1 DEF SentRows
  <2> QED
    BY <2>1, <2>2 DEF SentRows, Trails
<1>4. window \in [status : {"absent", "running", "partial", "confirmed"}, job : Jobs \cup {NoJob},
                  seq : 0 .. MaxPages, proof : Reached]
  <2>1. window \in Windows /\ window.seq <= MaxPages /\ window.proof \in Reached
    BY DEF ScanInv, ScanTyped, PageBounds
  <2>2. window.seq \in 0 .. MaxPages
    BY <1>1, <2>1 DEF Windows
  <2> QED
    BY <2>1, <2>2 DEF Windows
<1>5. ASSUME NEW h \in scanners
      PROVE  /\ h.job \in Jobs /\ h.epoch \in 1 .. job[h.job].epoch
             /\ h.pc \in ScannerPlaces
             /\ h.token \in 0 .. MaxPages + 1 /\ h.pending \subseteq Attempts(h.job)
  <2>1. h \in Scanners /\ h.epoch <= job[h.job].epoch /\ h.epoch >= 1 /\ h.token <= MaxPages
    BY DEF ScanInv, ScanTyped, ScanEpochsBounded, PageBounds, ScannerBounded
  <2>2. h.job \in Jobs /\ h.epoch \in Nat /\ h.token \in Nat /\ h.pc \in ScannerPlaces
    BY <2>1 DEF Scanners
  <2>3. job[h.job].epoch \in Nat
    BY <2>2, JobRowRecords DEF ScanInv, JobsTyped
  <2>4. h.pending \subseteq Attempts(h.job)
    BY DEF ScanLedger
  <2>5. h.epoch \in 1 .. job[h.job].epoch /\ h.token \in 0 .. MaxPages + 1
    BY <1>1, <2>1, <2>2, <2>3
  <2> QED
    BY <2>2, <2>4, <2>5
<1>6. /\ cursor \in [Jobs -> Cursors] /\ sent \in [Jobs -> SentRows] /\ trail \in [Jobs -> Trails]
  BY DEF ScanInv, ScanTyped
<1>7. JobTypeOK
  BY JobsTypedIsTypeOK DEF ScanInv
<1> QED
  BY <1>2, <1>3, <1>4, <1>5, <1>6, <1>7 DEF PageTypeOK, Reached, ScannerPlaces

-----------------------------------------------------------------------------
(* Each variable of a collection has its type, and no scan, whatever       *)
(* crashed or was retried, reads, numbers or rescans more pages than       *)
(* plan_cursor_request and advance_cursor_page allow, nor sends more       *)
(* requests in a cycle than the meter does (jobs/cursor.py,                *)
(* content/discovery.py).                                                  *)
THEOREM ScansTyped == PageSpec => [](JobTypeOK /\ PageTypeOK)
<1>1. JobInit /\ LedgerInit /\ PageInit => ScanPaidInv /\ PageBounds
  BY ScanStarts, BoundsStart DEF ScanPaidInv
<1>2. ScanPaidInv /\ PageBounds /\ [PageNext]_<<job, budgetVars, pageVars>> => (ScanPaidInv /\ PageBounds)'
  BY ScanPaidStep, BoundsStep DEF ScanPaidInv
<1>3. ScanPaidInv /\ PageBounds => JobTypeOK /\ PageTypeOK
  BY ScanIsTypeOK DEF ScanPaidInv
<1> QED
  BY <1>1, <1>2, <1>3, PTL DEF PageSpec

-----------------------------------------------------------------------------
(* What the other handlers may count on: a collection touches no           *)
(* reservation but its own, and stays within its bounds while they move.   *)

LEMMA ScanTouches ==
  ASSUME ScanInv, NEW I, Ids \in SUBSET I, NEW K \in SUBSET Jobs, ScanLedger(I, K),
         [PageNext]_<<job, budgetVars, pageVars>>
  PROVE  Touches(ledger, ledger', Ids)
<1>1. CASE ledger' = ledger
  BY <1>1 DEF Touches
<1>2. ASSUME NEW h \in scanners, OtherStep(h) \/ Commit(h)
      PROVE  Touches(ledger, ledger', Ids)
  <2>1. /\ h.job \in Jobs /\ ScanBooks(ledger, I, K)
        /\ \A id \in h.pending : id \in Attempts(h.job) /\ WasBegun(ledger, id)
    BY DEF ScanLedger
  <2>2. CASE Request(h)
    BY <2>2, RequestMoves DEF LedgerMoves
  <2>3. CASE Denied(h)
    <3>1. ledger' = Recovered(h)
      BY <2>3 DEF Denied
    <3>2. LedgerMoves(I, K, h, ledger, ledger')
      BY <2>1, <3>1, RecoveredMoves
    <3> QED
      BY <3>2 DEF LedgerMoves
  <2>4. ASSUME NEW outcome \in {"succeeded", "failed"}, ledger' = Settled(ledger, h.pending, outcome)
        PROVE  Touches(ledger, ledger', Ids)
    <3>1. LedgerMoves(I, K, h, ledger, ledger')
      BY <2>1, <2>4, PendingMoves
    <3> QED
      BY <3>1 DEF LedgerMoves
  <2>5. CASE Commit(h)
    <3>1. PICK page : CommitPage(h, page)
      BY <2>5, Zenon DEF Commit
    <3>2. \E outcome \in {"succeeded", "failed"} : ledger' = Settled(ledger, h.pending, outcome)
      BY <3>1, Zenon DEF CommitPage
    <3> QED
      BY <2>4, <3>2
  <2>6. CASE FailPending(h)
    BY <2>4, <2>6 DEF FailPending
  <2>7. CASE Finalize(h)
    <3>1. \/ ledger' = RecoverAttempts(ledger, Attempts(h.job))
          \/ ledger' = ledger
      BY <2>7, Zenon DEF Finalize, LeftOpen
    <3>2. CASE ledger' = RecoverAttempts(ledger, Attempts(h.job))
      <4>1. RecoveredAs(I, K, h, ledger, ledger')
        BY <2>1, <3>2, RecoverMoves
      <4> QED
        BY <4>1 DEF RecoveredAs, LedgerMoves
    <3> QED
      BY <1>1, <3>1, <3>2
  <2> QED
    BY <1>1, <1>2, <2>2, <2>3, <2>5, <2>6, <2>7, Zenon
       DEF OtherStep, RecognizeDone, StopBetweenPages, CursorExhausted, Fail, RecordSuccess, ScannerDies,
           budgetVars
<1>3. ASSUME NEW j \in Jobs, ScanAcquire(j) \/ ScanJobMoves(j) PROVE ledger' = ledger
  BY <1>3 DEF ScanAcquire, ScanJobMoves, budgetVars
<1>4. CASE ScanBudgetMoves
  BY <1>1, <1>4 DEF ScanBudgetMoves, SavePolicy, Tick
<1>5. CASE UNCHANGED <<job, budgetVars, pageVars>>
  BY <1>1, <1>5 DEF budgetVars
<1> QED
  BY <1>1, <1>2, <1>3, <1>4, <1>5 DEF PageNext, OtherStep

LEMMA BoundsElsewhere == PageBounds /\ UNCHANGED pageVars => PageBounds'
  BY DEF pageVars, PageBounds, CursorBounded, ScannerBounded, Reached, Fetching
=============================================================================

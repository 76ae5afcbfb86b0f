-------------------------- MODULE Reminders_proofs --------------------------
(***************************************************************************)
(* Proofs about the reminder job, for any number of processes, bookings    *)
(* and any page size: its types, that what it stores is true when it is    *)
(* stored, and that a run without a failure leaves no steady booking out.  *)
(*                                                                         *)
(* The last needs an invariant over a run in progress: each booking that   *)
(* did not change since the run began has its reminders, or is on the page *)
(* with at least the reminders it needs planned, or is behind the cursor   *)
(* of a scan that goes on.                                                 *)
(***************************************************************************)
EXTENDS Reminders, TLAPS

Covered(w, b) == Plan(b, run[w].now) \subseteq sent

OnPage(w, b) == \E r \in run[w].page : r.b = b /\ Plan(b, run[w].now) \subseteq r.plan

Behind(w, b) == (run[w].step = "scan" \/ run[w].full) /\ After(b, run[w].cursor)

RunFine(w) ==
    /\ run[w].stored \subseteq sent
    /\ run[w].step = "scan" => run[w].page = {}
    /\ run[w].step # "idle" /\ ~run[w].failed =>
           \A b \in run[w].steady : Covered(w, b) \/ OnPage(w, b) \/ Behind(w, b)

RemindersInv == TypeOK /\ \A w \in Workers : RunFine(w)

-----------------------------------------------------------------------------
\* planReminders returns reminders of the booking it was given.
LEMMA PlanType ==
    ASSUME TypeOK, NEW b \in Bookings, NEW at
    PROVE  Plan(b, at) \subseteq Note
BY DEF Plan, TypeOK, Note, Row, Bands, Kinds

LEMMA InitType == Init => TypeOK
BY RemindersAssumption DEF Init, TypeOK, Row, NoRun, Run, Cursor, Users

LEMMA ChangeType ==
    ASSUME TypeOK, NEW b \in Bookings, NEW row \in Row, Change(b, row), events' \in Nat
    PROVE  TypeOK'
<1>1. booking' \in [Bookings -> Row]
  BY DEF Change, TypeOK
<1>2. \A w \in Workers : [run[w] EXCEPT !.steady = @ \ {b}] \in Run
  BY DEF TypeOK, Run
<1>3. run' \in [Workers -> Run]
  BY <1>2 DEF Change
<1> QED  BY <1>1, <1>3 DEF Change, TypeOK

LEMMA ScanType ==
    ASSUME TypeOK, NEW w \in Workers, Scan(w)
    PROVE  TypeOK'
<1>1. PICK page \in SUBSET Bookings, cursor \in Cursor :
          run' = [run EXCEPT ![w].step = "keys", ![w].cursor = cursor,
                             ![w].page = {Snapshot(b, run[w].now) : b \in page},
                             ![w].full = Cardinality(page) = PageSize]
  BY DEF Scan
<1> DEFINE P == {Snapshot(b, run[w].now) : b \in page}
<1>2. P \in SUBSET Scanned
  <2> SUFFICES ASSUME NEW b \in page PROVE Snapshot(b, run[w].now) \in Scanned
    OBVIOUS
  <2>1. Plan(b, run[w].now) \subseteq Note
    BY PlanType
  <2>2. Start[booking[b].slot] \in Nat
    BY RemindersAssumption DEF TypeOK, Row
  <2> QED  BY <2>1, <2>2 DEF Snapshot, Scanned
<1>3. PICK q \in SUBSET Scanned : q = P
  BY <1>2
<1>4. PICK full \in BOOLEAN : full = (Cardinality(page) = PageSize)
  OBVIOUS
<1>5. [run[w] EXCEPT !.step = "keys", !.cursor = cursor, !.page = q, !.full = full] \in Run
  BY DEF TypeOK, Run
<1> QED  BY <1>1, <1>3, <1>4, <1>5 DEF Scan, TypeOK

LEMMA NextType ==
    ASSUME TypeOK, [Next]_vars
    PROVE  TypeOK'
<1> USE DEF TypeOK
<1>1. ASSUME NEW w \in Workers, Tick(w) PROVE TypeOK'
  <2>1. [NoRun EXCEPT !.step = "scan", !.now = now, !.steady = Bookings] \in Run
    BY DEF NoRun, Run, Cursor
  <2> QED  BY <1>1, <2>1 DEF Tick
<1>2. ASSUME NEW w \in Workers, Keys(w) PROVE TypeOK'
  <2>1. PICK s \in SUBSET Note : s = {n \in sent : \E r \in run[w].page : r.b = n.b}
    OBVIOUS
  <2>2. [run[w] EXCEPT !.step = "rows", !.stored = s] \in Run
    BY DEF Run
  <2> QED  BY <1>2, <2>1, <2>2 DEF Keys
<1>3. ASSUME NEW w \in Workers, PageEnd(w) PROVE TypeOK'
  <2>1. NoRun \in Run
    BY DEF NoRun, Run, Cursor
  <2>2. [run[w] EXCEPT !.step = "scan", !.stored = {}] \in Run
    BY DEF Run
  <2> QED  BY <1>3, <2>1, <2>2 DEF PageEnd
<1>4. ASSUME NEW w \in Workers, Abort(w) PROVE TypeOK'
  <2>1. NoRun \in Run
    BY DEF NoRun, Run, Cursor
  <2> QED  BY <1>4, <2>1, RemindersAssumption DEF Abort, Event
<1>5. ASSUME NEW w \in Workers, NEW r \in run[w].page, NEW failed \in BOOLEAN,
             Drop(w, r, failed)
      PROVE  run' \in [Workers -> Run]
  <2>1. [run[w] EXCEPT !.page = @ \ {r}, !.failed = @ \/ failed] \in Run
    BY DEF Run
  <2> QED  BY <1>5, <2>1 DEF Drop
<1>6. ASSUME NEW w \in Workers, NEW r \in run[w].page
      PROVE  Plan(r.b, run[w].now) \subseteq Note
  <2>1. r.b \in Bookings
    BY DEF Run, Scanned
  <2> QED  BY <2>1, PlanType
<1>7. ASSUME NEW w \in Workers, NEW r \in run[w].page,
             Skip(w, r) \/ Remind(w, r) \/ RemindFailed(w, r)
      PROVE  TypeOK'
  <2>1. run' \in [Workers -> Run]
    BY <1>5, <1>7 DEF Skip, Remind, RemindFailed
  <2>2. sent' \subseteq Note
    BY <1>6, <1>7 DEF Skip, Remind, RemindFailed
  <2>3. events' \in Nat
    <3>1. events' = events \/ events' = events + 1
      BY <1>7 DEF Skip, Remind, RemindFailed, Event
    <3> QED  BY <3>1
  <2>4. now' = now /\ booking' = booking /\ active' = active
    BY <1>7 DEF Skip, Remind, RemindFailed
  <2> QED  BY <2>1, <2>2, <2>3, <2>4
<1>8. ASSUME NEW b \in Bookings, Confirm(b) \/ Close(b) \/ Pay(b) PROVE TypeOK'
  <2>1. /\ [booking[b] EXCEPT !.status = "CONFIRMED"] \in Row
        /\ [booking[b] EXCEPT !.status = "CLOSED"] \in Row
        /\ [booking[b] EXCEPT !.paid = TRUE] \in Row
    BY DEF Row
  <2>2. events' \in Nat
    BY <1>8, RemindersAssumption DEF Confirm, Close, Pay, Event
  <2> QED  BY <1>8, <2>1, <2>2, ChangeType DEF Confirm, Close, Pay
<1>9. ASSUME NEW b \in Bookings, NEW slot \in Slots, Move(b, slot) PROVE TypeOK'
  <2>1. [booking[b] EXCEPT !.slot = slot] \in Row
    BY DEF Row
  <2> QED  BY <1>9, <2>1, ChangeType, RemindersAssumption DEF Move, Event
<1>10. ASSUME NEW u \in Users, Deactivate(u) PROVE TypeOK'
  BY <1>10, RemindersAssumption DEF Deactivate, Event
<1>11. CASE Advance
  BY <1>11 DEF Advance
<1>12. CASE UNCHANGED vars
  BY <1>12 DEF vars
<1> QED
  BY <1>1, <1>2, <1>3, <1>4, <1>7, <1>8, <1>9, <1>10, <1>11, <1>12, ScanType DEF Next

-----------------------------------------------------------------------------
LEMMA InitFine == Init => \A w \in Workers : RunFine(w)
BY DEF Init, RunFine, NoRun

\* What others do leaves a run as it was if it forgets the bookings they change.
LEMMA RunKept ==
    ASSUME TypeOK, NEW w \in Workers, RunFine(w), sent \subseteq sent',
           run[w]'.step = run[w].step, run[w]'.now = run[w].now,
           run[w]'.page = run[w].page, run[w]'.full = run[w].full,
           run[w]'.cursor = run[w].cursor, run[w]'.stored = run[w].stored,
           run[w]'.failed = run[w].failed, run[w]'.steady \subseteq run[w].steady,
           \A b \in run[w]'.steady : /\ booking'[b] = booking[b]
                                     /\ Plan(b, run[w].now)' \subseteq Plan(b, run[w].now)
    PROVE  RunFine(w)'
<1>1. ASSUME NEW b \in run[w]'.steady
      PROVE  /\ Covered(w, b) => Covered(w, b)'
             /\ OnPage(w, b) => OnPage(w, b)'
             /\ Behind(w, b) => Behind(w, b)'
  BY DEF Covered, OnPage, Behind, After
<1> QED  BY <1>1 DEF RunFine

\* The run of a process that does nothing, when no booking changes.
LEMMA IdleKept ==
    ASSUME TypeOK, NEW w \in Workers, RunFine(w), run[w]' = run[w],
           sent \subseteq sent', booking' = booking, active' \subseteq active
    PROVE  RunFine(w)'
<1>1. run[w] \in Run
  BY DEF TypeOK
<1>2. \A b \in run[w]'.steady : /\ booking'[b] = booking[b]
                                /\ Plan(b, run[w].now)' \subseteq Plan(b, run[w].now)
  <2> SUFFICES ASSUME NEW b \in run[w]'.steady
               PROVE  Plan(b, run[w].now)' \subseteq Plan(b, run[w].now)
    OBVIOUS
  <2> QED  BY DEF Plan
<1> QED  BY <1>1, <1>2, RunKept

\* The run of another process goes on.
LEMMA OthersKept ==
    ASSUME TypeOK, \A v \in Workers : RunFine(v), NEW w \in Workers,
           \A v \in Workers \ {w} : run[v]' = run[v],
           sent \subseteq sent', booking' = booking, active' \subseteq active,
           RunFine(w)'
    PROVE  \A v \in Workers : RunFine(v)'
<1> SUFFICES ASSUME NEW v \in Workers, v # w PROVE RunFine(v)'
  OBVIOUS
<1> QED  BY IdleKept

\* A booking changes: no run counts on it any more.
LEMMA ChangeFine ==
    ASSUME TypeOK, \A v \in Workers : RunFine(v), NEW b \in Bookings, NEW row, Change(b, row)
    PROVE  \A v \in Workers : RunFine(v)'
<1> SUFFICES ASSUME NEW v \in Workers PROVE RunFine(v)'
  OBVIOUS
<1>1. run[v]' = [run[v] EXCEPT !.steady = @ \ {b}] /\ run[v] \in Run
  BY DEF Change, TypeOK
<1>2. /\ run[v]'.step = run[v].step /\ run[v]'.now = run[v].now
      /\ run[v]'.page = run[v].page /\ run[v]'.full = run[v].full
      /\ run[v]'.cursor = run[v].cursor /\ run[v]'.stored = run[v].stored
      /\ run[v]'.failed = run[v].failed /\ run[v]'.steady = run[v].steady \ {b}
  BY <1>1 DEF Run
<1>3. \A c \in run[v]'.steady : /\ booking'[c] = booking[c]
                                /\ Plan(c, run[v].now)' \subseteq Plan(c, run[v].now)
  <2> SUFFICES ASSUME NEW c \in run[v]'.steady
               PROVE  /\ booking'[c] = booking[c]
                      /\ Plan(c, run[v].now)' \subseteq Plan(c, run[v].now)
    OBVIOUS
  <2>1. c \in Bookings \ {b}
    BY <1>1, <1>2 DEF Run
  <2>2. booking'[c] = booking[c] /\ active' = active
    BY <2>1 DEF Change, TypeOK
  <2> QED  BY <1>2, <2>2 DEF Plan
<1>4. sent \subseteq sent'
  BY DEF Change
<1> QED  BY <1>2, <1>3, <1>4, RunKept

\* Every booking is behind the cursor a run begins with.
LEMMA TickFine ==
    ASSUME TypeOK, NEW w \in Workers, Tick(w)
    PROVE  RunFine(w)'
<1>1. run[w]' = [NoRun EXCEPT !.step = "scan", !.now = now, !.steady = Bookings]
  BY DEF Tick, TypeOK
<1>2. /\ run[w]'.step = "scan" /\ run[w]'.page = {} /\ run[w]'.stored = {}
      /\ run[w]'.steady = Bookings /\ run[w]'.cursor = <<0, 0>>
  BY <1>1 DEF NoRun
<1>3. ASSUME NEW b \in Bookings PROVE After(b, <<0, 0>>)'
  <2>1. Start[booking[b].slot] \in Nat /\ b \in Nat \ {0} /\ booking' = booking
    BY RemindersAssumption DEF TypeOK, Row, Tick
  <2> QED  BY <2>1 DEF After
<1>4. \A b \in Bookings : Behind(w, b)'
  BY <1>2, <1>3 DEF Behind, After
<1> QED  BY <1>2, <1>4 DEF RunFine

\* A booking that a page does not reach is behind the cursor it leaves.
LEMMA ScanFine ==
    ASSUME TypeOK, NEW w \in Workers, RunFine(w), Scan(w)
    PROVE  RunFine(w)'
<1> DEFINE rest == {b \in Bookings : Matches(b, run[w].now) /\ After(b, run[w].cursor)}
<1>1. PICK page \in SUBSET rest, cursor \in Cursor :
          /\ Page(page, rest)
          /\ IF page = {} THEN cursor = run[w].cursor
             ELSE \E b \in page : /\ cursor = <<Start[booking[b].slot], b>>
                                  /\ \A c \in page : c = b \/ Ahead(c, b)
          /\ run' = [run EXCEPT ![w].step = "keys", ![w].cursor = cursor,
                                ![w].page = {Snapshot(b, run[w].now) : b \in page},
                                ![w].full = Cardinality(page) = PageSize]
  BY DEF Scan
<1>2. run[w] \in Run /\ run[w].step = "scan" /\ booking' = booking /\ active' = active
      /\ sent' = sent
  BY DEF TypeOK, Scan
<1>3. /\ run[w]'.step = "keys" /\ run[w]'.now = run[w].now /\ run[w]'.cursor = cursor
      /\ run[w]'.page = {Snapshot(b, run[w].now) : b \in page}
      /\ run[w]'.full = (Cardinality(page) = PageSize)
      /\ run[w]'.stored = run[w].stored
      /\ run[w]'.failed = run[w].failed /\ run[w]'.steady = run[w].steady
  BY <1>1, <1>2 DEF Run, TypeOK
<1>4. ASSUME NEW b \in Bookings PROVE Plan(b, run[w].now)' = Plan(b, run[w].now)
  BY <1>2, <1>3 DEF Plan
<1>5. ASSUME ~run[w].failed, NEW b \in run[w].steady, ~Covered(w, b)'
      PROVE  OnPage(w, b)' \/ Behind(w, b)'
  <2>1. b \in Bookings
    BY <1>2 DEF Run
  <2>2. ~Covered(w, b)
    BY <1>2, <1>3, <1>4, <1>5, <2>1 DEF Covered
  <2>3. After(b, run[w].cursor)
    BY <1>2, <1>5, <2>2 DEF RunFine, OnPage, Behind
  <2>4. Matches(b, run[w].now)
    <3>1. Plan(b, run[w].now) # {}
      BY <2>2 DEF Covered
    <3>2. \E band \in Bands : InBand(booking[b].slot, run[w].now, band)
      BY <3>1 DEF Plan
    <3>3. Within(booking[b].slot, run[w].now, Day)
      <4>1. Start[booking[b].slot] \in Nat /\ run[w].now \in Nat
        BY <1>2, <2>1, RemindersAssumption DEF TypeOK, Row, Run
      <4> QED  BY <3>2, <4>1, RemindersAssumption DEF InBand, Within, Bands
    <3>4. booking[b].status = "CONFIRMED"
      BY <3>1 DEF Plan
    <3> QED  BY <3>3, <3>4 DEF Matches
  <2>5. CASE b \in page
    <3>1. Snapshot(b, run[w].now) \in run[w]'.page
      BY <1>3, <2>5
    <3>2. Snapshot(b, run[w].now).b = b /\ Snapshot(b, run[w].now).plan = Plan(b, run[w].now)
      BY DEF Snapshot
    <3> QED  BY <1>4, <2>1, <3>1, <3>2, <1>3 DEF OnPage
  <2>6. CASE b \notin page
    <3>1. b \in rest \ page
      BY <2>1, <2>3, <2>4, <2>6
    <3>2. run[w]'.full /\ Cardinality(page) = PageSize
      BY <1>1, <1>3, <3>1 DEF Page
    <3>3. CASE page = {}
      BY <1>1, <1>2, <1>3, <2>3, <3>2, <3>3 DEF Behind, After
    <3>4. CASE page # {}
      <4>1. PICK c \in page : cursor = <<Start[booking[c].slot], c>>
        BY <1>1, <3>4
      <4>2. Ahead(c, b)
        BY <1>1, <3>1, <4>1 DEF Page
      <4>3. After(b, cursor)
        BY <4>1, <4>2 DEF Ahead, After
      <4> QED  BY <1>2, <1>3, <3>2, <4>3 DEF Behind, After
    <3> QED  BY <3>3, <3>4
  <2> QED  BY <2>5, <2>6
<1>6. run[w]'.stored \subseteq sent'
  BY <1>2, <1>3 DEF RunFine
<1> QED  BY <1>3, <1>5, <1>6 DEF RunFine

\* A row leaves the page when its reminders are stored, or in a failure.
LEMMA RowFine ==
    ASSUME TypeOK, NEW w \in Workers, RunFine(w), NEW r \in run[w].page,
           Skip(w, r) \/ Remind(w, r) \/ RemindFailed(w, r)
    PROVE  RunFine(w)'
<1>1. PICK failed \in BOOLEAN : /\ Drop(w, r, failed)
                                /\ ~failed => Skip(w, r) \/ Remind(w, r)
  BY DEF Skip, Remind, RemindFailed
<1>2. /\ run[w] \in Run /\ run[w].step = "rows" /\ booking' = booking /\ active' = active
      /\ sent \subseteq sent'
  BY DEF TypeOK, Skip, Remind, RemindFailed, NextRow
<1>3. /\ run[w]'.step = "rows" /\ run[w]'.now = run[w].now /\ run[w]'.cursor = run[w].cursor
      /\ run[w]'.page = run[w].page \ {r} /\ run[w]'.full = run[w].full
      /\ run[w]'.stored = run[w].stored /\ run[w]'.failed = (run[w].failed \/ failed)
      /\ run[w]'.steady = run[w].steady
  BY <1>1, <1>2 DEF Run, TypeOK, Drop
<1>4. ASSUME NEW b \in Bookings PROVE Plan(b, run[w].now)' = Plan(b, run[w].now)
  BY <1>2, <1>3 DEF Plan
<1>5. ASSUME ~run[w]'.failed, NEW b \in run[w].steady
      PROVE  Covered(w, b)' \/ OnPage(w, b)' \/ Behind(w, b)'
  <2>1. b \in Bookings /\ ~run[w].failed /\ ~failed
    BY <1>2, <1>3, <1>5 DEF Run
  <2>2. Covered(w, b) => Covered(w, b)'
    BY <1>2, <1>4, <2>1 DEF Covered
  <2>3. Behind(w, b) => Behind(w, b)'
    BY <1>2, <1>3 DEF Behind, After
  <2>4. ASSUME OnPage(w, b) PROVE OnPage(w, b)' \/ Covered(w, b)'
    <3>1. PICK q \in run[w].page : q.b = b /\ Plan(b, run[w].now) \subseteq q.plan
      BY <2>4 DEF OnPage
    <3>2. CASE q # r
      BY <1>3, <1>4, <2>1, <3>1, <3>2 DEF OnPage
    <3>3. CASE q = r
      <4>1. CASE Skip(w, r)
        <5>1. r.plan \subseteq sent
          BY <4>1 DEF Skip, RunFine
        <5> QED  BY <1>2, <1>4, <2>1, <3>1, <3>3, <5>1 DEF Covered
      <4>2. CASE Remind(w, r)
        <5>1. Plan(b, run[w].now) \subseteq sent'
          BY <3>1, <3>3, <4>2 DEF Remind
        <5> QED  BY <1>4, <2>1, <5>1 DEF Covered
      <4> QED  BY <1>1, <2>1, <4>1, <4>2
    <3> QED  BY <3>2, <3>3
  <2>5. Covered(w, b) \/ OnPage(w, b) \/ Behind(w, b)
    BY <1>2, <1>5, <2>1 DEF RunFine
  <2> QED  BY <2>2, <2>3, <2>4, <2>5
<1>6. run[w]'.stored \subseteq sent'
  BY <1>2, <1>3 DEF RunFine
<1> QED  BY <1>3, <1>5, <1>6 DEF RunFine

LEMMA KeysFine ==
    ASSUME TypeOK, NEW w \in Workers, RunFine(w), Keys(w)
    PROVE  RunFine(w)'
<1>1. /\ run[w] \in Run /\ run[w].step = "keys" /\ booking' = booking /\ active' = active
      /\ sent' = sent
  BY DEF TypeOK, Keys
<1>2. /\ run[w]'.step = "rows" /\ run[w]'.now = run[w].now /\ run[w]'.cursor = run[w].cursor
      /\ run[w]'.page = run[w].page /\ run[w]'.full = run[w].full
      /\ run[w]'.stored = {n \in sent : \E r \in run[w].page : r.b = n.b}
      /\ run[w]'.failed = run[w].failed /\ run[w]'.steady = run[w].steady
  BY <1>1 DEF Run, TypeOK, Keys
<1>3. ASSUME NEW b \in Bookings PROVE Plan(b, run[w].now)' = Plan(b, run[w].now)
  BY <1>1, <1>2 DEF Plan
<1>4. ASSUME NEW b \in run[w].steady
      PROVE  /\ Covered(w, b) => Covered(w, b)'
             /\ OnPage(w, b) => OnPage(w, b)'
             /\ Behind(w, b) => Behind(w, b)'
  <2>1. b \in Bookings
    BY <1>1 DEF Run
  <2> QED  BY <1>1, <1>2, <1>3, <2>1 DEF Covered, OnPage, Behind, After
<1> QED  BY <1>1, <1>2, <1>4 DEF RunFine

LEMMA PageEndFine ==
    ASSUME TypeOK, NEW w \in Workers, RunFine(w), PageEnd(w)
    PROVE  RunFine(w)'
<1>1. /\ run[w] \in Run /\ run[w].step = "rows" /\ run[w].page = {}
      /\ booking' = booking /\ active' = active /\ sent' = sent
  BY DEF TypeOK, PageEnd
<1>2. CASE ~run[w].full
  BY <1>2 DEF PageEnd, TypeOK, RunFine, NoRun
<1>3. CASE run[w].full
  <2>1. /\ run[w]'.step = "scan" /\ run[w]'.now = run[w].now /\ run[w]'.cursor = run[w].cursor
        /\ run[w]'.page = {} /\ run[w]'.full = run[w].full
        /\ run[w]'.stored = {} /\ run[w]'.failed = run[w].failed
        /\ run[w]'.steady = run[w].steady
    BY <1>1, <1>3 DEF Run, TypeOK, PageEnd
  <2>2. ASSUME NEW b \in run[w].steady
        PROVE  /\ Covered(w, b) => Covered(w, b)'
               /\ ~OnPage(w, b)
               /\ Behind(w, b) => Behind(w, b)'
    <3>1. b \in Bookings
      BY <1>1 DEF Run
    <3>2. Plan(b, run[w].now)' = Plan(b, run[w].now)
      BY <1>1, <2>1 DEF Plan
    <3> QED  BY <1>1, <2>1, <3>1, <3>2 DEF Covered, OnPage, Behind, After
  <2> QED  BY <1>1, <2>1, <2>2 DEF RunFine
<1> QED  BY <1>2, <1>3

LEMMA StepFine ==
    ASSUME RemindersInv, [Next]_vars
    PROVE  \A v \in Workers : RunFine(v)'
<1> USE DEF RemindersInv
<1>1. ASSUME NEW w \in Workers, NEW row, run' = [run EXCEPT ![w] = row]
      PROVE  \A v \in Workers \ {w} : run[v]' = run[v]
  BY <1>1 DEF TypeOK
<1>2. ASSUME NEW w \in Workers, Tick(w) PROVE \A v \in Workers : RunFine(v)'
  <2>1. RunFine(w)'
    BY <1>2, TickFine
  <2>2. /\ \A v \in Workers \ {w} : run[v]' = run[v]
        /\ sent \subseteq sent' /\ booking' = booking /\ active' \subseteq active
    BY <1>2 DEF Tick, TypeOK
  <2> QED  BY <2>1, <2>2, OthersKept
<1>3. ASSUME NEW w \in Workers, Scan(w) PROVE \A v \in Workers : RunFine(v)'
  <2>1. RunFine(w)'
    BY <1>3, ScanFine
  <2>2. /\ \A v \in Workers \ {w} : run[v]' = run[v]
        /\ sent \subseteq sent' /\ booking' = booking /\ active' \subseteq active
    BY <1>3 DEF Scan, TypeOK
  <2> QED  BY <2>1, <2>2, OthersKept
<1>4. ASSUME NEW w \in Workers, Keys(w) PROVE \A v \in Workers : RunFine(v)'
  <2>1. RunFine(w)'
    BY <1>4, KeysFine
  <2>2. /\ \A v \in Workers \ {w} : run[v]' = run[v]
        /\ sent \subseteq sent' /\ booking' = booking /\ active' \subseteq active
    BY <1>4 DEF Keys, TypeOK
  <2> QED  BY <2>1, <2>2, OthersKept
<1>5. ASSUME NEW w \in Workers, PageEnd(w) PROVE \A v \in Workers : RunFine(v)'
  <2>1. RunFine(w)'
    BY <1>5, PageEndFine
  <2>2. /\ \A v \in Workers \ {w} : run[v]' = run[v]
        /\ sent \subseteq sent' /\ booking' = booking /\ active' \subseteq active
    BY <1>5 DEF PageEnd, TypeOK
  <2> QED  BY <2>1, <2>2, OthersKept
<1>6. ASSUME NEW w \in Workers, Abort(w) PROVE \A v \in Workers : RunFine(v)'
  <2>1. RunFine(w)'
    BY <1>6 DEF Abort, TypeOK, RunFine, NoRun
  <2>2. /\ \A v \in Workers \ {w} : run[v]' = run[v]
        /\ sent \subseteq sent' /\ booking' = booking /\ active' \subseteq active
    BY <1>6 DEF Abort, TypeOK
  <2> QED  BY <2>1, <2>2, OthersKept
<1>7. ASSUME NEW w \in Workers, NEW r \in run[w].page,
             Skip(w, r) \/ Remind(w, r) \/ RemindFailed(w, r)
      PROVE  \A v \in Workers : RunFine(v)'
  <2>1. RunFine(w)'
    BY <1>7, RowFine
  <2>2. \A v \in Workers \ {w} : run[v]' = run[v]
    BY <1>7 DEF Skip, Remind, RemindFailed, Drop, TypeOK
  <2>3. sent \subseteq sent' /\ booking' = booking /\ active' \subseteq active
    BY <1>7 DEF Skip, Remind, RemindFailed
  <2> QED  BY <2>1, <2>2, <2>3, OthersKept
<1>8. ASSUME NEW b \in Bookings,
             Confirm(b) \/ Close(b) \/ Pay(b) \/ \E slot \in Slots : Move(b, slot)
      PROVE  \A v \in Workers : RunFine(v)'
  <2>1. \E row : Change(b, row)
    BY <1>8 DEF Confirm, Close, Pay, Move
  <2> QED  BY <2>1, ChangeFine
<1>9. ASSUME NEW u \in Users, Deactivate(u) PROVE \A v \in Workers : RunFine(v)'
  BY <1>9, IdleKept DEF Deactivate
<1>10. CASE Advance
  BY <1>10, IdleKept DEF Advance
<1>11. CASE UNCHANGED vars
  BY <1>11, IdleKept DEF vars
<1> QED
  BY <1>2, <1>3, <1>4, <1>5, <1>6, <1>7, <1>8, <1>9, <1>10, <1>11 DEF Next

LEMMA RemindersHold == Spec => []RemindersInv
<1>1. Init => RemindersInv
  BY InitType, InitFine DEF RemindersInv
<1>2. RemindersInv /\ [Next]_vars => RemindersInv'
  BY NextType, StepFine DEF RemindersInv
<1> QED  BY <1>1, <1>2, PTL DEF Spec

-----------------------------------------------------------------------------
\* The variables always have their types.
THEOREM RemindersTypes == Spec => []TypeOK
<1>1. RemindersInv => TypeOK
  BY DEF RemindersInv
<1> QED  BY <1>1, RemindersHold, PTL

\* A run that ends without a failure has written, or found written, every
\* reminder of the bookings that did not change meanwhile (runOnce).
THEOREM RunsCoverSteady == Spec => []RunCoversSteady
<1>1. RemindersInv => RunCoversSteady
  BY DEF RemindersInv, RunFine, RunCoversSteady, Ending, Covered, OnPage, Behind
<1> QED  BY <1>1, RemindersHold, PTL

\* No reminder is stored that the booking, as it is then, does not ask for,
\* whatever the scan it was planned from said (remindBooking).
THEOREM RemindersTrue == Spec => TrueWhenWritten
<1> DEFINE Told == \A n \in sent' \ sent : \E w \in Workers : n \in Plan(n.b, run[w].now)
<1>1. RemindersInv /\ [Next]_vars => [Told]_vars
  <2> SUFFICES ASSUME RemindersInv, Next PROVE Told
    OBVIOUS
  <2>1. CASE sent' = sent
    BY <2>1
  <2>2. ASSUME NEW w \in Workers, NEW r \in run[w].page, Remind(w, r) \/ RemindFailed(w, r)
        PROVE  Told
    <3> SUFFICES ASSUME NEW n \in sent' \ sent PROVE n \in Plan(n.b, run[w].now)
      OBVIOUS
    <3>1. n \in Plan(r.b, run[w].now)
      BY <2>2 DEF Remind, RemindFailed
    <3>2. n.b = r.b
      BY <3>1 DEF Plan
    <3> QED  BY <3>1, <3>2
  <2>3. sent' = sent \/ \E w \in Workers : \E r \in run[w].page :
                               Remind(w, r) \/ RemindFailed(w, r)
    BY DEF Next, Tick, Scan, Keys, PageEnd, Abort, Skip, Confirm, Close, Pay, Move, Change,
           Deactivate, Advance
  <2> QED  BY <2>1, <2>2, <2>3
<1> QED  BY <1>1, RemindersHold, PTL DEF Spec, TrueWhenWritten
=============================================================================

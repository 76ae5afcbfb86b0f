-------------------------- MODULE Payments_proofs ---------------------------
(***************************************************************************)
(* Theorems of Payments and of its page, for any number of bookings,       *)
(* attempts, workers and requests.                                         *)
(***************************************************************************)
EXTENDS PaymentPage, TLAPS

\* The ids a worker has, and what it may rely on of the attempt it works on:
\* nothing else can post the charge it is about to post, a rejected charge will
\* never exist, and a result to apply is the charge's own or a stale PENDING.
JobRow(t) ==
    LET j == job[t] IN
    /\ j.op = "idle" => j = Idle
    /\ j.op # "idle" => j.a \in Attempts /\ j.b \in Bookings
    /\ j.op = "claim" => attempt[j.a].status = "NONE"
    /\ j.op \notin {"idle", "claim"} => attempt[j.a].status # "NONE"
    /\ j.op \in {"post", "wait", "rejected"} => attempt[j.a].b = j.b
    /\ j.op = "post" => attempt[j.a].status = "CREATING"
    /\ j.op \in {"post", "rejected"} => charge[j.a] = "NONE" /\ j.a \notin wire
    /\ j.op = "apply" => /\ charge[j.a] # "NONE"
                        /\ j.result \in {"PENDING", charge[j.a]}

JobRows == \A t \in Workers : JobRow(t)

\* The handler that drew the id of an attempt is the only one that may post it.
Making(t) == job[t].op \in {"claim", "post", "wait", "rejected"}
OneMaker == \A t, u \in Workers : Making(t) /\ Making(u) /\ job[t].a = job[u].a => t = u

\* An attempt on its way has no charge yet, and a recorded result is that of the
\* charge; an attempt may also have failed because there is no charge.
Recorded(a) ==
    /\ a \in wire => attempt[a].status = "CREATING" /\ charge[a] = "NONE"
    /\ charge[a] # "NONE" => attempt[a].status # "NONE"
    /\ attempt[a].status = "PENDING" => charge[a] # "NONE"
    /\ attempt[a].status \in {"SUCCESSFUL", "EXPIRED"} => charge[a] = attempt[a].status
    /\ attempt[a].status = "FAILED" => charge[a] \in {"NONE", "FAILED"}

Records == \A a \in Attempts : Recorded(a)

\* OneAttemptCounts, attempt by attempt.
Mine(b, a) == attempt[a].b = b
Open(a) == attempt[a].status \in {"CREATING", "PENDING"}
Won(a) == attempt[a].status = "SUCCESSFUL"

OpenOf(b) == {a \in Attempts : Mine(b, a) /\ Open(a)}
WonOf(b) == {a \in Attempts : Mine(b, a) /\ Won(a)}

Count(b) ==
    /\ \A a, c \in OpenOf(b) \cup WonOf(b) : a = c
    /\ booking[b].pending <=> OpenOf(b) # {}
    /\ booking[b].paid <=> WonOf(b) # {}
    /\ booking[b].pending => booking[b].status = "CONFIRMED"

Counts == \A b \in Bookings : Count(b)

PayInv == TypeOK /\ JobRows /\ OneMaker /\ Records /\ Counts

LEMMA FinishKeeps ==
    ASSUME PayInv, NEW t \in Workers, Finish(t), UNCHANGED <<booking, attempt, charge, wire>>
    PROVE  PayInv'
<1> USE DEF PayInv
<1>1. TypeOK'
  BY DEF TypeOK, Finish, Job, Idle
<1>2. JobRows'
  BY DEF TypeOK, JobRows, JobRow, Finish, Idle
<1>3. OneMaker'
  BY DEF OneMaker, Making, Finish, Idle
<1>4. Records'
  BY DEF Records, Recorded
<1>5. Counts'
  BY DEF Counts, Count, OpenOf, WonOf, Mine, Open, Won
<1> QED
  BY <1>1, <1>2, <1>3, <1>4, <1>5

LEMMA PayReadKeeps ==
    ASSUME PayInv, NEW t \in Workers, NEW b \in Bookings, NEW a \in Attempts, PayRead(t, b, a)
    PROVE  PayInv'
<1> USE DEF PayInv
<1>1. TypeOK'
  <2>1. [Idle EXCEPT !.op = "claim", !.b = b, !.a = a] \in Job
    BY DEF Job, Idle
  <2> QED
    BY <2>1 DEF TypeOK, PayRead, Begin
<1>2. JobRows'
  BY DEF TypeOK, JobRows, JobRow, PayRead, Begin, Job
<1>3. OneMaker'
  BY DEF JobRows, JobRow, OneMaker, Making, PayRead, Begin
<1>4. Records'
  BY DEF Records, Recorded, PayRead, Begin
<1>5. Counts'
  BY DEF Counts, Count, OpenOf, WonOf, Mine, Open, Won, PayRead
<1> QED
  BY <1>1, <1>2, <1>3, <1>4, <1>5

LEMMA ClaimKeeps ==
    ASSUME PayInv, NEW t \in Workers, Claim(t)
    PROVE  PayInv'
<1>1. PICK a \in Attempts, b \in Bookings :
        /\ a = job[t].a /\ b = job[t].b
        /\ attempt[a].status = "NONE" /\ job[t].op = "claim"
  BY DEF PayInv, JobRows, JobRow, Claim
<1>2. CASE Payable(b)
  <2>1. /\ booking' = [booking EXCEPT ![b].pending = TRUE]
        /\ attempt' = [attempt EXCEPT ![a] = [status |-> "CREATING", b |-> b]]
        /\ job' = [job EXCEPT ![t].op = "post"]
        /\ charge' = charge /\ wire' = wire
    BY <1>1, <1>2 DEF Claim
  <2>2. \A c \in Attempts :
          /\ attempt'[c].status = IF c = a THEN "CREATING" ELSE attempt[c].status
          /\ attempt'[c].b = IF c = a THEN b ELSE attempt[c].b
    BY <1>1, <2>1 DEF PayInv, TypeOK
  <2>3. \A d \in Bookings :
          /\ booking'[d].pending = IF d = b THEN TRUE ELSE booking[d].pending
          /\ booking'[d].paid = booking[d].paid
          /\ booking'[d].status = booking[d].status
    BY <1>1, <2>1 DEF PayInv, TypeOK, BookingRow
  <2>4. \A u \in Workers :
          /\ job'[u].op = IF u = t THEN "post" ELSE job[u].op
          /\ job'[u].a = job[u].a /\ job'[u].b = job[u].b /\ job'[u].result = job[u].result
          /\ u # t => job'[u] = job[u]
    BY <2>1 DEF PayInv, TypeOK, Job
  <2>5. TypeOK'
    <3>1. booking' \in [Bookings -> BookingRow]
      <4>1. [booking[b] EXCEPT !.pending = TRUE] \in BookingRow
        BY DEF PayInv, TypeOK, BookingRow
      <4> QED
        BY <2>1, <4>1 DEF PayInv, TypeOK
    <3>2. attempt' \in [Attempts -> AttemptRow]
      BY <1>1, <2>1 DEF PayInv, TypeOK, AttemptRow, AttemptStatus, ActiveStatus
    <3>3. job' \in [Workers -> Job]
      <4>1. [job[t] EXCEPT !.op = "post"] \in Job
        BY DEF PayInv, TypeOK, Job
      <4> QED
        BY <2>1, <4>1 DEF PayInv, TypeOK
    <3>4. \A c \in Attempts : attempt'[c].b = Nil <=> attempt'[c].status = "NONE"
      BY <1>1, <2>2, PaymentNilAssumption DEF PayInv, TypeOK
    <3> QED
      BY <2>1, <3>1, <3>2, <3>3, <3>4 DEF PayInv, TypeOK
  <2>6. JobRows'
    <3> SUFFICES ASSUME NEW u \in Workers PROVE JobRow(u)'
      BY DEF JobRows
    <3>1. /\ JobRow(u) /\ JobRow(t)
          /\ u # t /\ job[u].op \in {"claim", "post", "wait", "rejected"} => job[u].a # a
      BY <1>1 DEF PayInv, JobRows, OneMaker, Making
    <3>2. charge[a] = "NONE" /\ a \notin wire
      BY <1>1 DEF PayInv, Records, Recorded
    <3> QED
      BY <1>1, <2>1, <2>2, <2>4, <3>1, <3>2 DEF JobRow, Idle
  <2>7. OneMaker'
    BY <1>1, <2>4 DEF PayInv, OneMaker, Making
  <2>8. Records'
    BY <1>1, <2>1, <2>2 DEF PayInv, Records, Recorded
  <2>9. Counts'
    <3>1. OpenOf(b) = {} /\ WonOf(b) = {} /\ booking[b].status = "CONFIRMED"
      BY <1>1, <1>2 DEF PayInv, Counts, Count, Payable
    <3>2. ASSUME NEW d \in Bookings, d # b PROVE Count(d)'
      <4>1. OpenOf(d)' = OpenOf(d) /\ WonOf(d)' = WonOf(d)
        BY <1>1, <2>2, <3>2 DEF OpenOf, WonOf, Mine, Open, Won
      <4>2. Count(d)
        BY DEF PayInv, Counts
      <4> QED
        BY <2>3, <3>2, <4>1, <4>2 DEF Count
    <3>3. OpenOf(b)' = {a} /\ WonOf(b)' = {}
      BY <1>1, <2>2, <3>1 DEF OpenOf, WonOf, Mine, Open, Won
    <3>4. booking'[b].pending = TRUE /\ booking'[b].paid = FALSE /\ booking'[b].status = "CONFIRMED"
      BY <1>1, <1>2, <2>3, <3>1 DEF Payable, PayInv, TypeOK, BookingRow
    <3>5. Count(b)'
      BY <3>3, <3>4 DEF Count
    <3> QED
      BY <3>2, <3>5 DEF Counts
  <2> QED
    BY <2>5, <2>6, <2>7, <2>8, <2>9 DEF PayInv
<1>3. CASE ~Payable(b)
  BY <1>1, <1>3, FinishKeeps DEF Claim
<1> QED
  BY <1>2, <1>3

LEMMA PostKeeps ==
    ASSUME PayInv, NEW t \in Workers, Post(t)
    PROVE  PayInv'
<1> USE DEF PayInv
<1>1. TypeOK'
  <2>1. job[t].a \in Attempts
    BY DEF JobRows, JobRow, Post
  <2>2. job' \in [Workers -> Job]
    BY DEF TypeOK, Post, Job
  <2> QED
    BY <2>1, <2>2 DEF TypeOK, Post
<1>2. JobRows'
  BY DEF TypeOK, JobRows, JobRow, OneMaker, Making, Post
<1>3. OneMaker'
  BY DEF TypeOK, OneMaker, Making, Post
<1>4. Records'
  BY DEF JobRows, JobRow, Records, Recorded, Post
<1>5. Counts'
  BY DEF Counts, Count, OpenOf, WonOf, Mine, Open, Won, Post
<1> QED
  BY <1>1, <1>2, <1>3, <1>4, <1>5

\* An open attempt gets the result of its charge, or fails for want of one.
LEMMA CloseKeeps ==
    ASSUME PayInv, NEW t \in Workers, NEW a \in Attempts, NEW b \in Bookings,
           NEW s \in {"SUCCESSFUL", "FAILED", "EXPIRED"},
           Mine(b, a), Open(a), a \notin wire,
           charge[a] = s \/ (s = "FAILED" /\ charge[a] = "NONE"),
           \A u \in Workers : job[u].op = "post" => job[u].a # a,
           Finish(t), charge' = charge, wire' = wire,
           attempt' = [attempt EXCEPT ![a].status = s],
           booking' = [booking EXCEPT ![b].pending = FALSE, ![b].paid = (s = "SUCCESSFUL")]
    PROVE  PayInv'
<1>1. \A c \in Attempts :
        /\ attempt'[c].status = IF c = a THEN s ELSE attempt[c].status
        /\ attempt'[c].b = attempt[c].b
  BY DEF PayInv, TypeOK, AttemptRow
<1>2. \A d \in Bookings :
        /\ booking'[d].pending = IF d = b THEN FALSE ELSE booking[d].pending
        /\ booking'[d].paid = IF d = b THEN s = "SUCCESSFUL" ELSE booking[d].paid
        /\ booking'[d].status = booking[d].status
  BY DEF PayInv, TypeOK, BookingRow
<1>3. \A u \in Workers : job'[u] = IF u = t THEN Idle ELSE job[u]
  BY DEF PayInv, TypeOK, Finish
<1>4. TypeOK'
  <2>1. booking' \in [Bookings -> BookingRow]
    <3>1. [booking[b] EXCEPT !.pending = FALSE, !.paid = (s = "SUCCESSFUL")] \in BookingRow
      BY DEF PayInv, TypeOK, BookingRow
    <3> QED
      BY <3>1 DEF PayInv, TypeOK
  <2>2. attempt' \in [Attempts -> AttemptRow]
    BY DEF PayInv, TypeOK, AttemptRow, AttemptStatus, Outcome
  <2>3. job' \in [Workers -> Job]
    BY DEF PayInv, TypeOK, Finish, Job, Idle
  <2>4. \A c \in Attempts : attempt'[c].b = Nil <=> attempt'[c].status = "NONE"
    BY <1>1 DEF PayInv, TypeOK, Open
  <2> QED
    BY <2>1, <2>2, <2>3, <2>4 DEF PayInv, TypeOK
<1>5. JobRows'
  <2> SUFFICES ASSUME NEW u \in Workers PROVE JobRow(u)'
    BY DEF JobRows
  <2>1. CASE u = t
    BY <1>3, <2>1 DEF JobRow, Idle
  <2>2. CASE u # t
    <3>1. job'[u] = job[u] /\ JobRow(u) /\ (job[u].op = "post" => job[u].a # a)
      BY <1>3, <2>2 DEF PayInv, JobRows
    <3> QED
      BY <1>1, <3>1 DEF JobRow, Open
  <2> QED
    BY <2>1, <2>2
<1>6. OneMaker'
  BY <1>3 DEF PayInv, OneMaker, Making, Idle
<1>7. Records'
  BY <1>1 DEF PayInv, Records, Recorded
<1>8. Counts'
  <2>1. ASSUME NEW d \in Bookings, d # b PROVE Count(d)'
    <3>1. OpenOf(d)' = OpenOf(d) /\ WonOf(d)' = WonOf(d)
      BY <1>1, <2>1 DEF OpenOf, WonOf, Mine, Open, Won
    <3>2. Count(d)
      BY DEF PayInv, Counts
    <3> QED
      BY <1>2, <2>1, <3>1, <3>2 DEF Count
  <2>2. a \in OpenOf(b) /\ (\A c \in OpenOf(b) \cup WonOf(b) : c = a)
    BY DEF PayInv, Counts, Count, OpenOf
  <2>3. OpenOf(b)' = {} /\ WonOf(b)' = IF s = "SUCCESSFUL" THEN {a} ELSE {}
    BY <1>1, <2>2 DEF OpenOf, WonOf, Mine, Open, Won
  <2>4. ~booking'[b].pending /\ (booking'[b].paid <=> s = "SUCCESSFUL")
    BY <1>2
  <2>5. Count(b)'
    BY <2>3, <2>4 DEF Count
  <2> QED
    BY <2>1, <2>5 DEF Counts
<1> QED
  BY <1>4, <1>5, <1>6, <1>7, <1>8 DEF PayInv

LEMMA RejectedKeeps ==
    ASSUME PayInv, NEW t \in Workers, Rejected(t)
    PROVE  PayInv'
<1> DEFINE a == job[t].a
           b == job[t].b
<1>1. /\ a \in Attempts /\ b \in Bookings /\ job[t].op = "rejected"
      /\ charge[a] = "NONE" /\ a \notin wire /\ Mine(b, a)
  BY DEF PayInv, JobRows, JobRow, Rejected, Mine
<1>2. CASE attempt[a].status = "CREATING"
  <2>1. Open(a) /\ ~Won(a)
    BY <1>2 DEF Open, Won
  <2>2. Count(b) /\ a \in OpenOf(b) /\ a \notin WonOf(b)
    BY <1>1, <2>1 DEF PayInv, Counts, OpenOf, WonOf
  <2>3. ~booking[b].paid
    BY <2>2 DEF Count
  <2>4. booking[b].paid = FALSE /\ booking[b] \in BookingRow
    BY <1>1, <2>3 DEF PayInv, TypeOK, BookingRow
  <2>5. /\ booking' = [booking EXCEPT ![b].pending = FALSE]
        /\ attempt' = [attempt EXCEPT ![a].status = "FAILED"]
        /\ Finish(t) /\ charge' = charge /\ wire' = wire
    BY <1>2, <2>3 DEF Rejected
  <2>6. booking' = [booking EXCEPT ![b].pending = FALSE, ![b].paid = ("FAILED" = "SUCCESSFUL")]
    <3>1. [booking[b] EXCEPT !.pending = FALSE]
            = [booking[b] EXCEPT !.pending = FALSE, !.paid = ("FAILED" = "SUCCESSFUL")]
      BY <2>4 DEF BookingRow
    <3> QED
      BY <1>1, <2>5, <3>1 DEF PayInv, TypeOK
  <2>7. \A u \in Workers : job[u].op = "post" => job[u].a # a
    BY <1>1 DEF PayInv, OneMaker, Making
  <2> HIDE DEF a, b
  <2> QED
    BY <1>1, <2>1, <2>5, <2>6, <2>7, CloseKeeps
<1>3. CASE attempt[a].status # "CREATING"
  BY <1>3, FinishKeeps DEF Rejected
<1> QED
  BY <1>2, <1>3

LEMMA StatusReadKeeps ==
    ASSUME PayInv, NEW t \in Workers, NEW a \in Attempts, StatusRead(t, a)
    PROVE  PayInv'
<1> USE DEF PayInv
<1>1. TypeOK'
  <2>1. [Idle EXCEPT !.op = "lookup", !.b = attempt[a].b, !.a = a] \in Job
    BY DEF TypeOK, AttemptRow, Job, Idle
  <2> QED
    BY <2>1 DEF TypeOK, StatusRead, Begin
<1>2. JobRows'
  BY DEF TypeOK, JobRows, JobRow, StatusRead, Begin, Active, AttemptRow, Job, AttemptStatus, ActiveStatus
<1>3. OneMaker'
  BY DEF TypeOK, JobRows, JobRow, OneMaker, Making, StatusRead, Begin, Active
<1>4. Records'
  BY DEF Records, Recorded, StatusRead, Begin, Active
<1>5. Counts'
  BY DEF Counts, Count, OpenOf, WonOf, Mine, Open, Won, StatusRead
<1> QED
  BY <1>1, <1>2, <1>3, <1>4, <1>5

LEMMA WebhookKeeps ==
    ASSUME PayInv, NEW t \in Workers, NEW a \in Attempts, Webhook(t, a)
    PROVE  PayInv'
<1> USE DEF PayInv
<1>1. TypeOK'
  <2>1. [Idle EXCEPT !.op = "lookup", !.b = attempt[a].b, !.a = a] \in Job
    BY DEF TypeOK, AttemptRow, Job, Idle
  <2> QED
    BY <2>1 DEF TypeOK, Webhook, Begin
<1>2. JobRows'
  BY DEF TypeOK, JobRows, JobRow, Records, Recorded, Webhook, Begin, AttemptRow, Job, NoAttempt
<1>3. OneMaker'
  BY DEF TypeOK, JobRows, JobRow, OneMaker, Making, Webhook, Begin
<1>4. Records'
  BY DEF Records, Recorded, Webhook, Begin
<1>5. Counts'
  BY DEF Counts, Count, OpenOf, WonOf, Mine, Open, Won, Webhook
<1> QED
  BY <1>1, <1>2, <1>3, <1>4, <1>5

LEMMA LookupKeeps ==
    ASSUME PayInv, NEW t \in Workers, Lookup(t)
    PROVE  PayInv'
<1> USE DEF PayInv
<1>1. TypeOK'
  BY DEF TypeOK, Lookup, Finish, Job, Idle
<1>2. JobRows'
  BY DEF TypeOK, JobRows, JobRow, Lookup, Finish, Job, Idle
<1>3. OneMaker'
  BY DEF TypeOK, JobRows, JobRow, OneMaker, Making, Lookup, Finish, Job, Idle
<1>4. Records'
  BY DEF Records, Recorded, Lookup, Finish
<1>5. Counts'
  BY DEF Counts, Count, OpenOf, WonOf, Mine, Open, Won, Lookup
<1> QED
  BY <1>1, <1>2, <1>3, <1>4, <1>5

LEMMA ApplyKeeps ==
    ASSUME PayInv, NEW t \in Workers, Apply(t)
    PROVE  PayInv'
<1> DEFINE a == job[t].a
           b == attempt[a].b
           s == job[t].result
<1>1. /\ a \in Attempts /\ job[t].op = "apply" /\ attempt[a].status # "NONE"
      /\ charge[a] # "NONE" /\ s \in {"PENDING", charge[a]}
  BY DEF PayInv, JobRows, JobRow, Apply
<1>2. b \in Bookings /\ Mine(b, a)
  BY <1>1 DEF PayInv, TypeOK, AttemptRow, Mine
<1>3. a \notin wire /\ (\A u \in Workers : job[u].op = "post" => job[u].a # a)
  BY <1>1 DEF PayInv, Records, Recorded, JobRows, JobRow
<1>4. CASE Active(a) /\ s = "PENDING"
  <2>1. /\ attempt' = [attempt EXCEPT ![a].status = "PENDING"]
        /\ booking' = booking /\ Finish(t) /\ charge' = charge /\ wire' = wire
    BY <1>4 DEF Apply
  <2>2. \A c \in Attempts :
          /\ attempt'[c].status = IF c = a THEN "PENDING" ELSE attempt[c].status
          /\ attempt'[c].b = attempt[c].b
    BY <1>1, <2>1 DEF PayInv, TypeOK, AttemptRow
  <2>3. \A u \in Workers : job'[u] = IF u = t THEN Idle ELSE job[u]
    BY <2>1 DEF PayInv, TypeOK, Finish
  <2>4. Open(a)
    BY <1>4 DEF Active, Open, ActiveStatus
  <2>5. TypeOK'
    <3>1. attempt' \in [Attempts -> AttemptRow]
      BY <1>1, <2>1 DEF PayInv, TypeOK, AttemptRow, AttemptStatus, ActiveStatus
    <3>2. job' \in [Workers -> Job]
      BY <2>1 DEF PayInv, TypeOK, Finish, Job, Idle
    <3>3. \A c \in Attempts : attempt'[c].b = Nil <=> attempt'[c].status = "NONE"
      BY <1>1, <2>2 DEF PayInv, TypeOK
    <3> QED
      BY <2>1, <3>1, <3>2, <3>3 DEF PayInv, TypeOK
  <2>6. JobRows'
    <3> SUFFICES ASSUME NEW u \in Workers PROVE JobRow(u)'
      BY DEF JobRows
    <3>1. CASE u = t
      BY <2>3, <3>1 DEF JobRow, Idle
    <3>2. CASE u # t
      <4>1. job'[u] = job[u] /\ JobRow(u) /\ (job[u].op = "post" => job[u].a # a)
        BY <1>3, <2>3, <3>2 DEF PayInv, JobRows
      <4> QED
        BY <1>1, <2>1, <2>2, <4>1 DEF JobRow
    <3> QED
      BY <3>1, <3>2
  <2>7. OneMaker'
    BY <2>3 DEF PayInv, OneMaker, Making, Idle
  <2>8. Records'
    BY <1>1, <1>3, <2>1, <2>2 DEF PayInv, Records, Recorded
  <2>9. Counts'
    BY <2>1, <2>2, <2>4 DEF PayInv, Counts, Count, OpenOf, WonOf, Mine, Open, Won
  <2> QED
    BY <2>5, <2>6, <2>7, <2>8, <2>9 DEF PayInv
<1>5. CASE Active(a) /\ Claimed(b) /\ s # "PENDING"
  <2>1. /\ attempt' = [attempt EXCEPT ![a].status = s]
        /\ booking' = [booking EXCEPT ![b].pending = FALSE, ![b].paid = (s = "SUCCESSFUL")]
        /\ Finish(t) /\ charge' = charge /\ wire' = wire
    BY <1>5 DEF Apply
  <2>2. Open(a)
    BY <1>5 DEF Active, Open, ActiveStatus
  <2>3. s = charge[a] /\ s \in {"SUCCESSFUL", "FAILED", "EXPIRED"}
    BY <1>1, <1>5 DEF PayInv, TypeOK, ChargeStatus, Outcome
  <2> HIDE DEF a, b, s
  <2> QED
    BY <1>1, <1>2, <1>3, <2>1, <2>2, <2>3, CloseKeeps
<1>6. CASE ~(Active(a) /\ (s = "PENDING" \/ Claimed(b)))
  BY <1>6, FinishKeeps DEF Apply
<1> QED
  BY <1>4, <1>5, <1>6

LEMMA AbortKeeps ==
    ASSUME PayInv, NEW t \in Workers, Abort(t)
    PROVE  PayInv'
<1> USE DEF PayInv
<1>1. TypeOK'
  BY DEF TypeOK, Abort, Finish, Job, Idle
<1>2. JobRows'
  BY DEF TypeOK, JobRows, JobRow, Abort, Finish, Job, Idle
<1>3. OneMaker'
  BY DEF JobRows, JobRow, OneMaker, Making, Abort, Finish, Idle
<1>4. Records'
  BY DEF Records, Recorded, Abort, Finish, Idle
<1>5. Counts'
  BY DEF Counts, Count, OpenOf, WonOf, Mine, Open, Won, Abort
<1> QED
  BY <1>1, <1>2, <1>3, <1>4, <1>5

LEMMA AcceptKeeps ==
    ASSUME PayInv, NEW a \in Attempts, NEW status \in {"PENDING", "FAILED"}, Accept(a, status)
    PROVE  PayInv'
<1> USE DEF PayInv
<1>1. /\ a \in wire /\ wire' = wire \ {a} /\ booking' = booking /\ attempt' = attempt
      /\ attempt[a].status = "CREATING" /\ charge[a] = "NONE"
  BY DEF Accept, Records, Recorded
<1>2. \A c \in Attempts : charge'[c] = IF c = a THEN status ELSE charge[c]
  BY DEF Accept, TypeOK
<1>3. charge' \in [Attempts -> {"NONE"} \cup ChargeStatus]
  BY DEF Accept, TypeOK, ChargeStatus, Outcome
<1>4. Records'
  BY <1>1, <1>2 DEF Records, Recorded
<1>5. Counts'
  BY <1>1 DEF Counts, Count, OpenOf, WonOf, Mine, Open, Won
<1>6. \A u \in Workers : job[u].a = a => job[u].op \notin {"claim", "post", "rejected", "apply"}
  BY <1>1 DEF JobRows, JobRow
<1>7. CASE job' = job
  <2>1. TypeOK'
    BY <1>1, <1>3, <1>7 DEF TypeOK
  <2>2. JobRows'
    <3> SUFFICES ASSUME NEW u \in Workers PROVE JobRow(u)'
      BY DEF JobRows
    <3> QED
      BY <1>1, <1>2, <1>6, <1>7 DEF JobRows, JobRow
  <2>3. OneMaker'
    BY <1>7 DEF OneMaker, Making
  <2> QED
    BY <1>4, <1>5, <2>1, <2>2, <2>3
<1>8. ASSUME NEW t \in Workers, job[t].op = "wait", job[t].a = a,
             job' = [job EXCEPT ![t].op = "apply", ![t].result = status]
      PROVE  PayInv'
  <2>1. /\ job' \in [Workers -> Job]
        /\ job'[t] = [job[t] EXCEPT !.op = "apply", !.result = status]
        /\ \A u \in Workers : u # t => job'[u] = job[u]
    <3>1. [job[t] EXCEPT !.op = "apply", !.result = status] \in Job
      BY DEF TypeOK, Job, ChargeStatus, Outcome
    <3> QED
      BY <1>8, <3>1 DEF TypeOK
  <2>2. TypeOK'
    BY <1>1, <1>3, <2>1 DEF TypeOK
  <2>3. /\ job'[t].op = "apply" /\ job'[t].result = status
        /\ job'[t].a = a /\ job'[t].b = job[t].b
    BY <1>8, <2>1 DEF TypeOK, Job
  <2>4. JobRows'
    <3> SUFFICES ASSUME NEW u \in Workers PROVE JobRow(u)'
      BY DEF JobRows
    <3>1. CASE u = t
      BY <1>1, <1>2, <1>8, <2>3, <3>1 DEF JobRows, JobRow
    <3>2. CASE u # t
      BY <1>1, <1>2, <1>6, <2>1, <3>2 DEF JobRows, JobRow
    <3> QED
      BY <3>1, <3>2
  <2>5. OneMaker'
    BY <1>8, <2>1, <2>3 DEF OneMaker, Making
  <2> QED
    BY <1>4, <1>5, <2>2, <2>4, <2>5
<1> QED
  BY <1>7, <1>8 DEF Accept, Answer

LEMMA RefuseKeeps ==
    ASSUME PayInv, NEW a \in Attempts, Refuse(a)
    PROVE  PayInv'
<1> USE DEF PayInv
<1>1. /\ a \in wire /\ wire' = wire \ {a} /\ booking' = booking /\ attempt' = attempt
      /\ attempt[a].status = "CREATING" /\ charge[a] = "NONE"
  BY DEF Refuse, Records, Recorded
<1>2. charge' = charge
  BY DEF Refuse
<1>3. charge' \in [Attempts -> {"NONE"} \cup ChargeStatus]
  BY DEF Refuse, TypeOK
<1>4. Records'
  BY <1>1, <1>2 DEF Records, Recorded
<1>5. Counts'
  BY <1>1 DEF Counts, Count, OpenOf, WonOf, Mine, Open, Won
<1>6. \A u \in Workers : job[u].a = a => job[u].op \notin {"claim", "post", "rejected", "apply"}
  BY <1>1 DEF JobRows, JobRow
<1>7. CASE job' = job
  <2>1. TypeOK'
    BY <1>1, <1>3, <1>7 DEF TypeOK
  <2>2. JobRows'
    <3> SUFFICES ASSUME NEW u \in Workers PROVE JobRow(u)'
      BY DEF JobRows
    <3> QED
      BY <1>1, <1>2, <1>6, <1>7 DEF JobRows, JobRow
  <2>3. OneMaker'
    BY <1>7 DEF OneMaker, Making
  <2> QED
    BY <1>4, <1>5, <2>1, <2>2, <2>3
<1>8. ASSUME NEW t \in Workers, job[t].op = "wait", job[t].a = a,
             job' = [job EXCEPT ![t].op = "rejected", ![t].result = "NONE"]
      PROVE  PayInv'
  <2>1. /\ job' \in [Workers -> Job]
        /\ job'[t] = [job[t] EXCEPT !.op = "rejected", !.result = "NONE"]
        /\ \A u \in Workers : u # t => job'[u] = job[u]
    <3>1. [job[t] EXCEPT !.op = "rejected", !.result = "NONE"] \in Job
      BY DEF TypeOK, Job, ChargeStatus
    <3> QED
      BY <1>8, <3>1 DEF TypeOK
  <2>2. TypeOK'
    BY <1>1, <1>3, <2>1 DEF TypeOK
  <2>3. /\ job'[t].op = "rejected" /\ job'[t].result = "NONE"
        /\ job'[t].a = a /\ job'[t].b = job[t].b
    BY <1>8, <2>1 DEF TypeOK, Job
  <2>4. JobRows'
    <3> SUFFICES ASSUME NEW u \in Workers PROVE JobRow(u)'
      BY DEF JobRows
    <3>1. CASE u = t
      BY <1>1, <1>2, <1>8, <2>3, <3>1 DEF JobRows, JobRow
    <3>2. CASE u # t
      BY <1>1, <1>2, <1>6, <2>1, <3>2 DEF JobRows, JobRow
    <3> QED
      BY <3>1, <3>2
  <2>5. OneMaker'
    BY <1>8, <2>1, <2>3 DEF OneMaker, Making
  <2> QED
    BY <1>4, <1>5, <2>2, <2>4, <2>5
<1> QED
  BY <1>7, <1>8 DEF Refuse, Answer

LEMMA LoseRequestKeeps ==
    ASSUME PayInv, NEW a \in Attempts, LoseRequest(a)
    PROVE  PayInv'
<1> USE DEF PayInv
<1>1. TypeOK'
  BY DEF TypeOK, LoseRequest
<1>2. JobRows'
  BY DEF TypeOK, JobRows, JobRow, LoseRequest
<1>3. OneMaker'
  BY DEF JobRows, JobRow, OneMaker, Making, LoseRequest
<1>4. Records'
  BY DEF Records, Recorded, LoseRequest
<1>5. Counts'
  BY DEF Counts, Count, OpenOf, WonOf, Mine, Open, Won, LoseRequest
<1> QED
  BY <1>1, <1>2, <1>3, <1>4, <1>5

LEMMA SettleKeeps ==
    ASSUME PayInv, NEW a \in Attempts, NEW outcome \in Outcome, Settle(a, outcome)
    PROVE  PayInv'
<1> USE DEF PayInv
<1>1. TypeOK'
  BY DEF TypeOK, Settle, ChargeStatus
<1>2. JobRows'
  BY DEF TypeOK, JobRows, JobRow, Settle, Outcome
<1>3. OneMaker'
  BY DEF JobRows, JobRow, OneMaker, Making, Settle
<1>4. Records'
  BY DEF TypeOK, Records, Recorded, Settle, Outcome
<1>5. Counts'
  BY DEF Counts, Count, OpenOf, WonOf, Mine, Open, Won, Settle
<1> QED
  BY <1>1, <1>2, <1>3, <1>4, <1>5

LEMMA CancelKeeps ==
    ASSUME PayInv, NEW b \in Bookings, Cancel(b)
    PROVE  PayInv'
<1> USE DEF PayInv
<1>1. TypeOK'
  BY DEF TypeOK, Cancel, BookingRow
<1>2. JobRows'
  BY DEF TypeOK, JobRows, JobRow, Cancel, BookingRow
<1>3. OneMaker'
  BY DEF JobRows, JobRow, OneMaker, Making, Cancel
<1>4. Records'
  BY DEF Records, Recorded, Cancel
<1>5. Counts'
  BY DEF TypeOK, BookingRow, Counts, Count, OpenOf, WonOf, Mine, Open, Won, Cancel, Payable
<1> QED
  BY <1>1, <1>2, <1>3, <1>4, <1>5

LEMMA CompleteKeeps ==
    ASSUME PayInv, NEW b \in Bookings, Complete(b)
    PROVE  PayInv'
<1> USE DEF PayInv
<1>1. TypeOK'
  BY DEF TypeOK, Complete, BookingRow
<1>2. JobRows'
  BY DEF TypeOK, JobRows, JobRow, Complete, BookingRow
<1>3. OneMaker'
  BY DEF JobRows, JobRow, OneMaker, Making, Complete
<1>4. Records'
  BY DEF Records, Recorded, Complete
<1>5. Counts'
  BY DEF TypeOK, BookingRow, Counts, Count, OpenOf, WonOf, Mine, Open, Won, Complete
<1> QED
  BY <1>1, <1>2, <1>3, <1>4, <1>5

-----------------------------------------------------------------------------
(* The invariant *)

LEMMA InitPayInv == Init => PayInv
<1> SUFFICES ASSUME Init PROVE PayInv
  OBVIOUS
<1>1. TypeOK
  BY DEF Init, TypeOK, BookingRow, AttemptRow, AttemptStatus, NoAttempt, Job, Idle
<1>2. JobRows
  BY DEF Init, JobRows, JobRow, Idle
<1>3. OneMaker
  BY DEF Init, OneMaker, Making, Idle
<1>4. Records
  BY DEF Init, Records, Recorded, NoAttempt
<1>5. Counts
  BY DEF Init, Counts, Count, OpenOf, WonOf, Open, Won, NoAttempt
<1> QED
  BY <1>1, <1>2, <1>3, <1>4, <1>5 DEF PayInv

LEMMA NextKeepsPayInv == PayInv /\ [Next]_vars => PayInv'
<1> SUFFICES ASSUME PayInv, [Next]_vars PROVE PayInv'
  OBVIOUS
<1>1. ASSUME NEW t \in Workers, NEW b \in Bookings, NEW a \in Attempts, PayRead(t, b, a)
      PROVE  PayInv'
  BY <1>1, PayReadKeeps
<1>2. ASSUME NEW t \in Workers, NEW a \in Attempts, StatusRead(t, a) \/ Webhook(t, a)
      PROVE  PayInv'
  BY <1>2, StatusReadKeeps, WebhookKeeps
<1>3. ASSUME NEW t \in Workers, Continue(t) \/ Abort(t) PROVE PayInv'
  BY <1>3, ClaimKeeps, PostKeeps, RejectedKeeps, LookupKeeps, ApplyKeeps, AbortKeeps
     DEF Continue
<1>4. ASSUME NEW a \in Attempts, Provider(a) PROVE PayInv'
  BY <1>4, AcceptKeeps, RefuseKeeps, LoseRequestKeeps, SettleKeeps DEF Provider
<1>5. ASSUME NEW b \in Bookings, Cancel(b) \/ Complete(b) PROVE PayInv'
  BY <1>5, CancelKeeps, CompleteKeeps
<1>6. CASE UNCHANGED vars
  BY <1>6 DEF vars, PayInv, TypeOK, JobRows, JobRow, OneMaker, Making, Records, Recorded,
              Counts, Count, OpenOf, WonOf, Mine, Open, Won
<1> QED
  BY <1>1, <1>2, <1>3, <1>4, <1>5, <1>6 DEF Next

\* PayInv is inductive: whatever the network, the provider and the other handlers
\* do, it holds in every state.
THEOREM PaymentInvariant == Spec => []PayInv
<1>1. Init => PayInv
  BY InitPayInv
<1>2. PayInv /\ [Next]_vars => PayInv'
  BY NextKeepsPayInv
<1> QED
  BY <1>1, <1>2, PTL DEF Spec

-----------------------------------------------------------------------------
(* What it gives *)

\* A charge that exists and has not failed is that of an open or won attempt.
LEMMA ChargeCounts ==
    ASSUME PayInv, NEW a \in Attempts, charge[a] \in {"PENDING", "SUCCESSFUL"}
    PROVE  /\ attempt[a].b \in Bookings
           /\ a \in OpenOf(attempt[a].b) \cup WonOf(attempt[a].b)
<1>1. attempt[a].status \in {"CREATING", "PENDING", "SUCCESSFUL"}
  BY DEF PayInv, TypeOK, AttemptRow, AttemptStatus, ActiveStatus, Outcome, Records, Recorded
<1>2. attempt[a].b \in Bookings
  BY <1>1 DEF PayInv, TypeOK, AttemptRow
<1> QED
  BY <1>1, <1>2 DEF OpenOf, WonOf, Mine, Open, Won

\* The rows and the jobs of the payment service keep their types.
THEOREM PaymentTypeCorrect == Spec => []TypeOK
<1>1. PayInv => TypeOK
  BY DEF PayInv
<1> QED
  BY <1>1, PaymentInvariant, PTL

\* No customer is charged twice for a class.
THEOREM ChargedAtMostOnce == Spec => []NeverChargedTwice
<1>1. ASSUME PayInv PROVE NeverChargedTwice
  <2> SUFFICES ASSUME NEW a \in Attempts, NEW c \in Attempts,
                      charge[a] = "SUCCESSFUL", charge[c] = "SUCCESSFUL",
                      attempt[a].b = attempt[c].b
               PROVE  a = c
    BY DEF NeverChargedTwice
  <2>1. /\ attempt[a].b \in Bookings
        /\ a \in OpenOf(attempt[a].b) \cup WonOf(attempt[a].b)
        /\ c \in OpenOf(attempt[a].b) \cup WonOf(attempt[a].b)
    BY <1>1, ChargeCounts
  <2> QED
    BY <1>1, <2>1 DEF PayInv, Counts, Count
<1> QED
  BY <1>1, PaymentInvariant, PTL

\* An open attempt holds the claim of its booking, and the booking is not paid.
LEMMA OpenClaims ==
    ASSUME PayInv, NEW b \in Bookings, NEW a \in OpenOf(b)
    PROVE  Claimed(b) /\ OpenOf(b) \cup WonOf(b) = {a} /\ WonOf(b) = {}
<1>1. Count(b)
  BY DEF PayInv, Counts
<1>2. a \notin WonOf(b)
  BY DEF OpenOf, WonOf, Open, Won
<1>3. WonOf(b) = {}
  BY <1>1, <1>2 DEF Count
<1> QED
  BY <1>1, <1>3 DEF Count, Claimed

\* No money without a booking that has it or still waits for it.
THEOREM MoneyIsRecorded == Spec => []MoneyHasABooking
<1>1. ASSUME PayInv PROVE MoneyHasABooking
  <2> SUFFICES ASSUME NEW a \in Attempts, charge[a] = "SUCCESSFUL"
               PROVE  IF Active(a) THEN Claimed(attempt[a].b)
                      ELSE attempt[a].status = "SUCCESSFUL" /\ booking[attempt[a].b].paid
    BY DEF MoneyHasABooking
  <2>1. /\ attempt[a].b \in Bookings
        /\ a \in OpenOf(attempt[a].b) \cup WonOf(attempt[a].b)
    BY <1>1, ChargeCounts
  <2>2. CASE Active(a)
    <3>1. a \in OpenOf(attempt[a].b)
      BY <2>2 DEF Active, ActiveStatus, OpenOf, Mine, Open
    <3> QED
      BY <1>1, <2>1, <2>2, <3>1, OpenClaims
  <2>3. CASE ~Active(a)
    <3>1. a \in WonOf(attempt[a].b) /\ attempt[a].status = "SUCCESSFUL"
      BY <2>1, <2>3 DEF Active, ActiveStatus, OpenOf, WonOf, Open, Won
    <3> QED
      BY <1>1, <2>1, <2>3, <3>1 DEF PayInv, Counts, Count
  <2> QED
    BY <2>2, <2>3
<1> QED
  BY <1>1, PaymentInvariant, PTL

\* The claim and the payment of a booking agree with its attempts.
THEOREM OneAttemptCountsAlways == Spec => []OneAttemptCounts
<1>1. ASSUME PayInv PROVE OneAttemptCounts
  <2> SUFFICES ASSUME NEW b \in Bookings
               PROVE  /\ \A a, c \in Of(b, ActiveStatus \cup {"SUCCESSFUL"}) : a = c
                      /\ booking[b].pending <=> Of(b, ActiveStatus) # {}
                      /\ booking[b].paid <=> Of(b, {"SUCCESSFUL"}) # {}
                      /\ booking[b].pending => booking[b].status = "CONFIRMED"
    BY DEF OneAttemptCounts
  <2>1. /\ Of(b, ActiveStatus) = OpenOf(b) /\ Of(b, {"SUCCESSFUL"}) = WonOf(b)
        /\ Of(b, ActiveStatus \cup {"SUCCESSFUL"}) = OpenOf(b) \cup WonOf(b)
    BY DEF Of, ActiveStatus, OpenOf, WonOf, Mine, Open, Won
  <2>2. Count(b)
    BY <1>1 DEF PayInv, Counts
  <2> QED
    BY <2>1, <2>2 DEF Count
<1> QED
  BY <1>1, PaymentInvariant, PTL

-----------------------------------------------------------------------------
(* Results are final *)

LEMMA StepKeepsResults ==
    ASSUME PayInv, [Next]_vars, NEW a \in Attempts
    PROVE  /\ attempt[a].status \in Outcome => attempt'[a] = attempt[a]
           /\ attempt[a].status = "PENDING" => attempt'[a].status # "CREATING"
<1>1. CASE attempt' = attempt
  BY <1>1
<1>2. ASSUME NEW t \in Workers, Claim(t), job[t].a \in Attempts, attempt[job[t].a].status = "NONE"
      PROVE  attempt'[a] = attempt[a] \/ attempt[a].status = "NONE"
  BY <1>2 DEF Claim, PayInv, TypeOK
<1>3. ASSUME NEW t \in Workers, Claim(t)
      PROVE  job[t].a \in Attempts /\ attempt[job[t].a].status = "NONE"
  BY <1>3 DEF Claim, PayInv, JobRows, JobRow
<1>4. ASSUME NEW c \in Attempts, NEW s, attempt' = [attempt EXCEPT ![c].status = s]
      PROVE  attempt'[a] = attempt[a] \/ (a = c /\ attempt'[a].status = s)
  BY <1>4 DEF PayInv, TypeOK, AttemptRow
<1>5. ASSUME NEW t \in Workers, Rejected(t)
      PROVE  \/ attempt'[a] = attempt[a]
             \/ attempt[a].status = "CREATING" /\ attempt'[a].status = "FAILED"
  <2>1. job[t].a \in Attempts
    BY <1>5 DEF Rejected, PayInv, JobRows, JobRow
  <2> QED
    BY <1>4, <1>5, <2>1 DEF Rejected
<1>6. ASSUME NEW t \in Workers, Apply(t)
      PROVE  attempt'[a] = attempt[a] \/ (Active(a) /\ attempt'[a].status # "CREATING")
  <2>1. job[t].result # "CREATING" /\ job[t].a \in Attempts
    BY <1>6 DEF Apply, PayInv, TypeOK, ChargeStatus, Outcome, JobRows, JobRow
  <2> QED
    BY <1>4, <1>6, <2>1 DEF Apply
<1>7. attempt' = attempt \/ (\E t \in Workers : Claim(t) \/ Rejected(t) \/ Apply(t))
  BY DEF Next, vars, PayRead, StatusRead, Webhook, Continue, Post, Lookup, Abort, Provider,
         Accept, Refuse, LoseRequest, Settle, Cancel, Complete
<1> QED
  BY <1>1, <1>2, <1>3, <1>5, <1>7, <1>6 DEF Active, ActiveStatus, Outcome

\* No late, repeated or stale answer changes the result of an attempt.
THEOREM ResultsStay == Spec => ResultsAreFinal
<1>1. ASSUME PayInv, [Next]_vars
      PROVE  \A a \in Attempts :
               /\ attempt[a].status \in Outcome => attempt'[a] = attempt[a]
               /\ attempt[a].status = "PENDING" => attempt'[a].status # "CREATING"
  BY <1>1, StepKeepsResults
<1> QED
  BY <1>1, PaymentInvariant, PTL DEF Spec, ResultsAreFinal

-----------------------------------------------------------------------------
(* The contract *)

LEMMA SameContract ==
    ASSUME \A d \in Bookings : Deal(d)' = Deal(d) /\ Money(d)' = Money(d)
    PROVE  UNCHANGED <<[d \in Bookings |-> Deal(d)], [d \in Bookings |-> Money(d)]>>
OBVIOUS

LEMMA ContractMoves ==
    ASSUME NEW b \in Bookings, NEW from, NEW to, Deal(b) = from,
           \A d \in Bookings : Deal(d)' = (IF d = b THEN to ELSE Deal(d)),
           \A d \in Bookings : Money(d)' = Money(d)
    PROVE  Contract!Move(b, from, to)
BY DEF Contract!Move

LEMMA DealOf ==
    ASSUME PayInv, NEW b \in Bookings
    PROVE  /\ Payable(b) => Deal(b) = "OPEN"
           /\ Claimed(b) => Deal(b) = "CLAIMED"
BY DEF Payable, Claimed, Deal

\* A result, or a rejection, releases the claim or records the money.
LEMMA ContractCloses ==
    ASSUME PayInv, NEW a \in Attempts, NEW b \in Bookings,
           NEW s \in {"SUCCESSFUL", "FAILED", "EXPIRED"},
           Mine(b, a), Open(a),
           charge[a] = s \/ (s = "FAILED" /\ charge[a] = "NONE"), charge' = charge,
           attempt' = [attempt EXCEPT ![a].status = s],
           booking' = [booking EXCEPT ![b].pending = FALSE, ![b].paid = (s = "SUCCESSFUL")]
    PROVE  Contract!Release(b) \/ Contract!Record(b)
<1>1. a \in OpenOf(b)
  BY DEF OpenOf
<1>2. Claimed(b) /\ OpenOf(b) \cup WonOf(b) = {a}
  BY <1>1, OpenClaims
<1>3. Deal(b) = "CLAIMED"
  BY <1>2, DealOf
<1>4. \A c \in Attempts : attempt'[c].b = attempt[c].b
  BY DEF PayInv, TypeOK, AttemptRow
<1>5. \A d \in Bookings : Money(d)' = Money(d)
  BY <1>4 DEF Money
<1>6. /\ booking'[b].paid <=> s = "SUCCESSFUL"
      /\ ~booking'[b].pending /\ booking'[b].status = "CONFIRMED"
      /\ \A d \in Bookings : d # b => booking'[d] = booking[d]
  BY <1>2 DEF PayInv, TypeOK, BookingRow, Claimed
<1>7. \A d \in Bookings : d # b => Deal(d)' = Deal(d)
  BY <1>6 DEF Deal, Payable
<1>8. \A c \in Money(b) : c = a /\ charge[a] = "SUCCESSFUL"
  BY <1>2, ChargeCounts DEF Money
<1>9. CASE s = "SUCCESSFUL"
  <2>1. Deal(b)' = "PAID"
    BY <1>6, <1>9 DEF Deal, Payable
  <2>2. Money(b) # {}
    BY <1>9 DEF Money, Mine
  <2>3. Contract!Move(b, "CLAIMED", "PAID")
    BY <1>3, <1>5, <1>7, <2>1, ContractMoves
  <2> QED
    BY <2>2, <2>3 DEF Contract!Record
<1>10. CASE s # "SUCCESSFUL"
  <2>1. Deal(b)' = "OPEN"
    BY <1>6, <1>10 DEF Deal, Payable
  <2>2. Money(b) = {}
    BY <1>8, <1>10
  <2>3. Contract!Move(b, "CLAIMED", "OPEN")
    BY <1>3, <1>5, <1>7, <2>1, ContractMoves
  <2> QED
    BY <2>2, <2>3 DEF Contract!Release
<1> QED
  BY <1>9, <1>10

\* Every step of the service, the provider and the network is one of the
\* contract or leaves it alone.
LEMMA StepOfContract ==
    ASSUME PayInv, Next
    PROVE  \/ Contract!Next
           \/ \A d \in Bookings : Deal(d)' = Deal(d) /\ Money(d)' = Money(d)
<1>1. CASE booking' = booking /\ attempt' = attempt /\ charge' = charge
  BY <1>1 DEF Deal, Payable, Money
<1>2. ASSUME NEW t \in Workers, Claim(t), NEW a \in Attempts, NEW b \in Bookings,
             a = job[t].a, b = job[t].b, Payable(b)
      PROVE  Contract!Claim(b)
  <2>1. attempt[a].status = "NONE" /\ charge[a] = "NONE"
    BY <1>2 DEF Claim, PayInv, JobRows, JobRow, Records, Recorded
  <2>2. \A c \in Attempts : c # a => attempt'[c] = attempt[c]
    BY <1>2 DEF Claim, PayInv, TypeOK
  <2>3. \A d \in Bookings : Money(d)' = Money(d)
    BY <1>2, <2>1, <2>2 DEF Claim, Money
  <2>4. /\ booking'[b] = [booking[b] EXCEPT !.pending = TRUE]
        /\ \A d \in Bookings : d # b => booking'[d] = booking[d]
    BY <1>2 DEF Claim, PayInv, TypeOK
  <2>5. booking'[b].pending /\ ~booking'[b].paid
    BY <1>2, <2>4 DEF Payable, PayInv
  <2>6. Deal(b) = "OPEN" /\ Deal(b)' = "CLAIMED"
    BY <1>2, <2>5, DealOf DEF Deal, Payable
  <2>7. \A d \in Bookings : d # b => Deal(d)' = Deal(d)
    BY <2>4 DEF Deal, Payable
  <2> QED
    BY <2>3, <2>6, <2>7, ContractMoves DEF Contract!Claim
<1>3. ASSUME NEW t \in Workers, Claim(t), ~UNCHANGED <<booking, attempt>>
      PROVE  Contract!Next
  <2>1. PICK a \in Attempts, b \in Bookings : a = job[t].a /\ b = job[t].b
    BY <1>3 DEF Claim, PayInv, JobRows, JobRow
  <2> QED
    BY <1>2, <1>3, <2>1 DEF Claim, Contract!Next
<1>4. ASSUME NEW t \in Workers, Rejected(t), ~UNCHANGED <<booking, attempt>>
      PROVE  Contract!Next
  <2>1. PICK a \in Attempts, b \in Bookings :
          a = job[t].a /\ b = job[t].b /\ Mine(b, a) /\ charge[a] = "NONE"
    BY <1>4 DEF Rejected, PayInv, JobRows, JobRow, Mine
  <2>2. attempt[a].status = "CREATING"
    BY <1>4, <2>1 DEF Rejected
  <2>3. a \in OpenOf(b) /\ Open(a)
    BY <2>1, <2>2 DEF OpenOf, Open
  <2>4. Claimed(b)
    BY <2>3, OpenClaims
  <2>5. /\ booking' = [booking EXCEPT ![b].pending = FALSE]
        /\ attempt' = [attempt EXCEPT ![a].status = "FAILED"] /\ charge' = charge
    BY <1>4, <2>1, <2>2, <2>4 DEF Rejected, Claimed
  <2>6. booking' = [booking EXCEPT ![b].pending = FALSE, ![b].paid = ("FAILED" = "SUCCESSFUL")]
    BY <2>4, <2>5 DEF PayInv, TypeOK, BookingRow, Claimed
  <2> QED
    BY <2>1, <2>3, <2>5, <2>6, ContractCloses DEF Contract!Next
<1>5. ASSUME NEW t \in Workers, Apply(t), ~UNCHANGED <<booking, attempt>>, job[t].result # "PENDING"
      PROVE  Contract!Next
  <2>1. PICK a \in Attempts, s \in {"SUCCESSFUL", "FAILED", "EXPIRED"} :
          a = job[t].a /\ s = job[t].result /\ charge[a] = s /\ attempt[a].status # "NONE"
    BY <1>5 DEF Apply, PayInv, TypeOK, ChargeStatus, Outcome, JobRows, JobRow
  <2>2. PICK b \in Bookings : b = attempt[a].b
    BY <2>1 DEF PayInv, TypeOK, AttemptRow
  <2>3. /\ Open(a) /\ Mine(b, a) /\ charge' = charge
        /\ attempt' = [attempt EXCEPT ![a].status = s]
        /\ booking' = [booking EXCEPT ![b].pending = FALSE, ![b].paid = (s = "SUCCESSFUL")]
    BY <1>5, <2>1, <2>2 DEF Apply, Active, ActiveStatus, Open, Mine
  <2> QED
    BY <2>1, <2>3, ContractCloses DEF Contract!Next
<1>6. ASSUME NEW t \in Workers, Apply(t), ~UNCHANGED <<booking, attempt>>, job[t].result = "PENDING"
      PROVE  \A d \in Bookings : Deal(d)' = Deal(d) /\ Money(d)' = Money(d)
  <2>1. booking' = booking /\ charge' = charge
    BY <1>6 DEF Apply
  <2>2. \A c \in Attempts : attempt'[c].b = attempt[c].b
    BY <1>6 DEF Apply, PayInv, TypeOK, AttemptRow
  <2> QED
    BY <2>1, <2>2 DEF Deal, Payable, Money
<1>7. ASSUME NEW a \in Attempts, NEW status \in {"PENDING", "FAILED"}, Accept(a, status)
      PROVE  \A d \in Bookings : Deal(d)' = Deal(d) /\ Money(d)' = Money(d)
  <2>1. /\ booking' = booking /\ attempt' = attempt /\ charge[a] = "NONE"
        /\ \A c \in Attempts : charge'[c] = IF c = a THEN status ELSE charge[c]
    BY <1>7 DEF Accept, PayInv, TypeOK, Records, Recorded
  <2> QED
    BY <2>1 DEF Deal, Payable, Money
<1>8. ASSUME NEW a \in Attempts, NEW outcome \in Outcome, Settle(a, outcome)
      PROVE  \/ Contract!Next
             \/ \A d \in Bookings : Deal(d)' = Deal(d) /\ Money(d)' = Money(d)
  <2>1. /\ booking' = booking /\ attempt' = attempt /\ charge[a] = "PENDING"
        /\ \A c \in Attempts : charge'[c] = IF c = a THEN outcome ELSE charge[c]
    BY <1>8 DEF Settle, PayInv, TypeOK
  <2>2. \A d \in Bookings : Deal(d)' = Deal(d)
    BY <2>1 DEF Deal, Payable
  <2>3. CASE outcome # "SUCCESSFUL"
    BY <2>1, <2>2, <2>3 DEF Money
  <2>4. CASE outcome = "SUCCESSFUL"
    <3>1. PICK b \in Bookings : attempt[a].b = b /\ a \in OpenOf(b) \cup WonOf(b)
      BY <2>1, ChargeCounts
    <3>2. a \in OpenOf(b)
      BY <2>1, <3>1 DEF PayInv, Records, Recorded, WonOf, Won
    <3>3. Deal(b) = "CLAIMED" /\ OpenOf(b) \cup WonOf(b) = {a}
      BY <3>2, OpenClaims, DealOf
    <3>4. Money(b) = {}
      BY <2>1, <3>3, ChargeCounts DEF Money
    <3>5. Money(b)' = {a} /\ (\A d \in Bookings : d # b => Money(d)' = Money(d))
      BY <2>1, <2>4, <3>1, <3>4 DEF Money
    <3>6. Contract!Capture(b, a)
      BY <2>2, <3>3, <3>4, <3>5 DEF Contract!Capture
    <3> QED
      BY <3>6 DEF Contract!Next
  <2> QED
    BY <2>3, <2>4
<1>9. ASSUME NEW b \in Bookings, Cancel(b) PROVE Contract!Next
  <2>1. \A d \in Bookings : Money(d)' = Money(d)
    BY <1>9 DEF Cancel, Money
  <2>2. /\ ~booking'[b].paid /\ ~booking'[b].pending /\ booking'[b].status = "CANCELED"
        /\ \A d \in Bookings : d # b => booking'[d] = booking[d]
    BY <1>9 DEF Cancel, Payable, PayInv, TypeOK
  <2>3. /\ Deal(b) = "OPEN" /\ Deal(b)' = "CLOSED"
        /\ \A d \in Bookings : d # b => Deal(d)' = Deal(d)
    BY <1>9, <2>2 DEF Cancel, Deal, Payable
  <2> QED
    BY <2>1, <2>3, ContractMoves DEF Contract!Close, Contract!Next
<1>10. ASSUME NEW b \in Bookings, Complete(b)
       PROVE  \A d \in Bookings : Deal(d)' = Deal(d) /\ Money(d)' = Money(d)
  <2>1. /\ booking'[b].paid /\ booking[b].paid
        /\ \A d \in Bookings : d # b => booking'[d] = booking[d]
    BY <1>10 DEF Complete, PayInv
  <2> QED
    BY <1>10, <2>1 DEF Complete, Deal, Payable, Money
<1>11. \/ booking' = booking /\ attempt' = attempt /\ charge' = charge
       \/ \E t \in Workers : /\ Claim(t) \/ Rejected(t) \/ Apply(t)
                             /\ ~UNCHANGED <<booking, attempt>>
       \/ \E a \in Attempts : \/ \E status \in {"PENDING", "FAILED"} : Accept(a, status)
                              \/ \E outcome \in Outcome : Settle(a, outcome)
       \/ \E b \in Bookings : Cancel(b) \/ Complete(b)
  BY DEF Next, PayRead, StatusRead, Webhook, Continue, Claim, Post, Rejected, Lookup, Apply,
         Abort, Provider, Refuse, LoseRequest
<1> QED
  BY <1>1, <1>3, <1>4, <1>5, <1>6, <1>7, <1>8, <1>9, <1>10, <1>11

\* The payment service keeps the contract, for any number of bookings, attempts
\* and workers.
THEOREM PaymentsImplementContract == Spec => ImplementsContract
<1>1. Init => Contract!Init
  BY DEF Init, Contract!Init, Deal, Payable, Money
<1>2. PayInv /\ [Next]_vars =>
        [Contract!Next]_<<[b \in Bookings |-> Deal(b)], [b \in Bookings |-> Money(b)]>>
  <2> SUFFICES ASSUME PayInv, [Next]_vars
               PROVE  \/ Contract!Next
                      \/ UNCHANGED <<[b \in Bookings |-> Deal(b)], [b \in Bookings |-> Money(b)]>>
    OBVIOUS
  <2>1. CASE Next
    BY <2>1, StepOfContract, SameContract
  <2>2. CASE UNCHANGED vars
    <3>1. \A d \in Bookings : Deal(d)' = Deal(d) /\ Money(d)' = Money(d)
      BY <2>2 DEF vars, Deal, Money
    <3> QED
      BY <3>1, SameContract
  <2> QED
    BY <2>1, <2>2
<1> QED
  BY <1>1, <1>2, PaymentInvariant, PTL DEF Spec, ImplementsContract, Contract!Spec

-----------------------------------------------------------------------------
(* The page *)

PageTypes == page \in Page /\ call \in [Calls -> Call] /\ latest \in Attempts \cup {Nil}

\* The gate: the page waits for one request at a time.
OneLive == page.loop \in Calls => page.buy = Nil
Live(c) == c = page.loop \/ c = page.buy

\* What is read of the payment is the past of what is recorded.
Past(v) ==
    /\ v.a # Nil => Onward(v.status, attempt[v.a].status)
    /\ v.paid => booking[Shown].paid

\* An answer the page waits for is not older than what it shows.
Newer(c) ==
    Live(c) =>
        /\ /\ call[c].step = "answered"
           /\ page.view.a # Nil /\ call[c].got.a = page.view.a
           => Onward(page.view.status, call[c].got.status)
        /\ call[c].step \in {"attempt", "answered"} /\ page.view.paid => call[c].got.paid

PageInv ==
    /\ PayInv
    /\ PageTypes
    /\ OneLive
    /\ Past(page.view)
    /\ \A c \in Calls : Past(call[c].got) /\ Newer(c)

LEMMA PageStepIsStep == PageTypes /\ PayInv /\ [PageNext]_pageVars => [Next]_vars
<1> SUFFICES ASSUME PageTypes, PayInv, [PageNext]_pageVars PROVE Next \/ UNCHANGED vars
  OBVIOUS
<1>1. ASSUME NEW c \in Calls,
             \/ Ask(c) \/ Click(c) \/ Read(c) \/ Bought(c) \/ Lose(c)
             \/ RefuseCreate(c) \/ RespondBooking(c) \/ RespondAttempt(c)
      PROVE  UNCHANGED vars
  BY <1>1 DEF Ask, Click, Send, Read, Bought, Received, Lose, RefuseCreate, RespondBooking,
              RespondAttempt
<1>2. ASSUME NEW c \in Calls, NEW t \in Workers, BeginCreate(c, t) PROVE Next \/ UNCHANGED vars
  BY <1>2, PageAssumption DEF BeginCreate, Next
<1>3. ASSUME NEW c \in Calls, NEW t \in Workers, BeginStatus(c, t) PROVE Next \/ UNCHANGED vars
  BY <1>3 DEF BeginStatus, Next, PageTypes
<1>4. CASE Refresh \/ Disable \/ Enable \/ Revisit
  BY <1>4 DEF Refresh, Disable, GiveUp, Enable, Revisit
<1>5. ASSUME NEW t \in Workers, Work(t) PROVE Next
  BY <1>5 DEF Work, ClaimStep, ApplyStep, Next, Continue
<1>6. CASE Rest
  BY <1>6 DEF Rest, Next
<1> QED
  BY <1>1, <1>2, <1>3, <1>4, <1>5, <1>6 DEF PageNext, pageVars, vars

\* What the payment service may do to what a page has read of it.
LEMMA StepMovesOn ==
    ASSUME PayInv, [Next]_vars, NEW a \in Attempts
    PROVE  Onward(attempt[a].status, attempt'[a].status)
<1>1. attempt[a].status \in Outcome => attempt'[a].status = attempt[a].status
  BY StepKeepsResults
<1>2. ASSUME attempt[a].status = "PENDING" PROVE attempt'[a].status \in {"PENDING"} \cup Outcome
  <2>1. attempt'[a].status # "CREATING"
    BY <1>2, StepKeepsResults
  <2>2. PayInv'
    BY NextKeepsPayInv
  <2>3. attempt'[a].status \in AttemptStatus
    BY <2>2 DEF PayInv, TypeOK, AttemptRow
  <2>4. charge[a] # "NONE"
    BY <1>2 DEF PayInv, Records, Recorded
  <2>5. charge'[a] # "NONE"
    <3>1. \/ charge' = charge
          \/ \E c \in Attempts : \/ \E s \in {"PENDING", "FAILED"} : Accept(c, s)
                                 \/ \E o \in Outcome : Settle(c, o)
      BY DEF Next, vars, PayRead, StatusRead, Webhook, Continue, Claim, Post, Rejected, Lookup,
             Apply, Abort, Provider, Refuse, LoseRequest, Cancel, Complete
    <3> QED
      BY <2>4, <3>1 DEF PayInv, TypeOK, Accept, Settle, Outcome
  <2>6. attempt'[a].status # "NONE"
    BY <2>2, <2>5 DEF PayInv, Records, Recorded
  <2> QED
    BY <2>1, <2>3, <2>6 DEF AttemptStatus, ActiveStatus, Outcome
<1> QED
  BY <1>1, <1>2 DEF Onward

LEMMA PaidStays ==
    ASSUME PayInv, [Next]_vars, NEW b \in Bookings, booking[b].paid
    PROVE  booking'[b].paid
<1>1. CASE booking' = booking
  BY <1>1
<1>2. ASSUME NEW d \in Bookings, NEW p, booking' = [booking EXCEPT ![d].pending = p]
      PROVE  booking'[b].paid
  BY <1>2 DEF PayInv, TypeOK, BookingRow
<1>3. ASSUME NEW d \in Bookings, NEW s, booking' = [booking EXCEPT ![d].status = s]
      PROVE  booking'[b].paid
  BY <1>3 DEF PayInv, TypeOK, BookingRow
<1>4. ASSUME NEW t \in Workers, Claim(t) \/ Rejected(t) PROVE booking'[b].paid
  <2>1. job[t].b \in Bookings
    BY <1>4 DEF Claim, Rejected, PayInv, JobRows, JobRow
  <2> QED
    BY <1>1, <1>2, <1>4, <2>1 DEF Claim, Rejected
<1>5. ASSUME NEW t \in Workers, Apply(t) PROVE booking'[b].paid
  <2>1. CASE attempt[job[t].a].b = b
    BY <1>1, <1>5, <2>1 DEF Apply, Claimed
  <2>2. CASE attempt[job[t].a].b # b
    BY <1>5, <2>2 DEF Apply, PayInv, TypeOK
  <2> QED
    BY <2>1, <2>2
<1>6. \/ booking' = booking
      \/ \E t \in Workers : Claim(t) \/ Rejected(t) \/ Apply(t)
      \/ \E d \in Bookings : Cancel(d) \/ Complete(d)
  BY DEF Next, vars, PayRead, StatusRead, Webhook, Continue, Post, Lookup, Abort, Provider,
         Accept, Refuse, LoseRequest, Settle
<1> QED
  BY <1>1, <1>3, <1>4, <1>5, <1>6 DEF Cancel, Complete

LEMMA OnwardTwice ==
    ASSUME NEW r, NEW s, NEW u, Onward(r, s), Onward(s, u)
    PROVE  Onward(r, u)
BY DEF Onward, Outcome

LEMMA PastStays ==
    ASSUME PayInv, [Next]_vars, NEW v \in View, Past(v)
    PROVE  Past(v)'
<1>1. ASSUME v.a # Nil PROVE Onward(v.status, attempt[v.a].status)'
  <2>1. v.a \in Attempts
    BY <1>1 DEF View
  <2> QED
    BY <1>1, <2>1, StepMovesOn, OnwardTwice DEF Past
<1>2. v.paid => booking'[Shown].paid
  BY PaidStays, PageAssumption DEF Past
<1> QED
  BY <1>1, <1>2 DEF Past

\* Steps that leave the view alone, and of the requests only forget some, or take
\* them to where nothing was read yet.
Kept(c) ==
    \/ call'[c].step \notin {"attempt", "answered"} /\ call'[c].got \in {Blank, call[c].got}
    \/ call'[c] = call[c] /\ (Live(c)' => Live(c))

LEMMA KeptPageInv ==
    ASSUME PageInv, [Next]_vars, PageTypes', OneLive', page'.view = page.view,
           \A c \in Calls : Kept(c)
    PROVE  PageInv'
<1>1. PayInv'
  BY NextKeepsPayInv DEF PageInv
<1>2. Past(page.view)'
  <2>1. Past(page.view) /\ page.view \in View
    BY DEF PageInv, PageTypes, Page
  <2> QED
    BY <2>1, PastStays DEF PageInv, Past
<1>3. ASSUME NEW c \in Calls PROVE Past(call[c].got)'
  <2>1. call[c].got \in View /\ Past(call[c].got)
    BY DEF PageInv, PageTypes, Call
  <2>2. CASE call'[c].got = call[c].got
    BY <2>1, <2>2, PastStays DEF PageInv, Past
  <2>3. CASE call'[c].got = Blank
    BY <2>3 DEF Past, Blank
  <2> QED
    BY <2>2, <2>3 DEF Kept
<1>4. ASSUME NEW c \in Calls PROVE Newer(c)'
  <2>1. Newer(c) /\ Kept(c)
    BY DEF PageInv
  <2> QED
    BY <2>1 DEF Newer, Kept, Live
<1> QED
  BY <1>1, <1>2, <1>3, <1>4 DEF PageInv

LEMMA SendKeeps ==
    ASSUME PageInv, NEW c \in Calls, Ask(c) \/ Click(c)
    PROVE  PageInv'
<1>1. /\ [Next]_vars /\ latest' = latest /\ page'.view = page.view
      /\ \E s \in {"asked", "status"} : call' = [call EXCEPT ![c].step = s]
  BY DEF Ask, Click, Send, PageInv, PageTypes, Page
<1>2. call' \in [Calls -> Call]
  BY <1>1 DEF PageInv, PageTypes, Call
<1>3. page' \in Page
  BY DEF PageInv, PageTypes, Page, Ask, Click
<1>4. OneLive'
  BY PageAssumption DEF Ask, Click, GateFree, OneLive, PageInv, PageTypes, Page
<1>5. ASSUME NEW d \in Calls PROVE Kept(d)
  <2>1. CASE d = c
    BY <1>1, <2>1 DEF Kept, PageInv, PageTypes, Call
  <2>2. CASE d # c
    BY <1>1, <2>2 DEF Kept, Live, Ask, Click, PageInv, PageTypes, Page
  <2> QED
    BY <2>1, <2>2
<1> QED
  BY <1>1, <1>2, <1>3, <1>4, <1>5, KeptPageInv DEF PageInv, PageTypes

\* A request that ends without an answer, and the clean-up of the loop.
LEMMA ForgetKeeps ==
    ASSUME PageInv, [Next]_vars, latest' \in Attempts \cup {Nil}, page' \in Page,
           page'.view = page.view,
           page'.loop \in Calls => page'.loop = page.loop,
           page'.buy \in {page.buy, Nil},
           call' \in [Calls -> Call],
           \A c \in Calls :
             \/ call'[c] = call[c]
             \/ call'[c].step \notin {"attempt", "answered"} /\ call'[c].got \in {Blank, call[c].got}
    PROVE  PageInv'
<1>1. OneLive'
  BY DEF PageInv, OneLive
<1>2. ASSUME NEW c \in Calls PROVE Live(c)' => Live(c)
  BY PageAssumption DEF Live
<1> QED
  BY <1>1, <1>2, KeptPageInv DEF PageTypes, Kept

LEMMA FailedPage ==
    ASSUME PageInv, NEW c \in Calls
    PROVE  /\ Failed(c) \in Page
           /\ Failed(c).view = page.view
           /\ Failed(c).loop \in Calls => Failed(c).loop = page.loop
           /\ Failed(c).buy \in {page.buy, Nil}
BY PageAssumption DEF PageInv, PageTypes, Page, Failed

LEMMA NoCallIsCall == NoCall \in Call /\ Blank \in View
BY DEF NoCall, Call, Blank, View, AttemptStatus

LEMMA LoseKeeps ==
    ASSUME PageInv, NEW c \in Calls, Lose(c) \/ RefuseCreate(c)
    PROVE  PageInv'
<1>1. page' = Failed(c) /\ call' = [call EXCEPT ![c] = NoCall] /\ UNCHANGED <<vars, latest>>
  BY DEF Lose, RefuseCreate
<1>2. call' \in [Calls -> Call]
  BY <1>1, NoCallIsCall DEF PageInv, PageTypes
<1>3. \A d \in Calls : call'[d] = IF d = c THEN NoCall ELSE call[d]
  BY <1>1 DEF PageInv, PageTypes
<1> QED
  BY <1>1, <1>2, <1>3, FailedPage, ForgetKeeps DEF PageInv, PageTypes, NoCall

LEMMA LoopKeeps ==
    ASSUME PageInv, Refresh \/ Disable \/ Enable
    PROVE  PageInv'
<1>1. /\ UNCHANGED <<vars, latest>> /\ page'.view = page.view
      /\ page'.loop \in {"due", "off"} /\ page'.buy = page.buy /\ page' \in Page
  <2>1. page \in Page
    BY DEF PageInv, PageTypes
  <2>2. ASSUME NEW loop \in {"due", "off"}, GiveUp(loop)
        PROVE  /\ UNCHANGED <<vars, latest>> /\ page'.view = page.view
               /\ page'.loop = loop /\ page'.buy = page.buy /\ page' \in Page
    <3>1. page.clicks + 1 \in 0 .. MaxClicks
      BY <2>1, <2>2, PageAssumption DEF GiveUp, Page
    <3> QED
      BY <2>1, <2>2, <3>1 DEF GiveUp, Page
  <2>3. CASE Enable
    BY <2>1, <2>3 DEF Enable, Page
  <2> QED
    BY <2>2, <2>3 DEF Refresh, Disable
<1>2. /\ call' \in [Calls -> Call]
      /\ \A c \in Calls : call'[c] \in {call[c], NoCall}
  BY NoCallIsCall DEF Refresh, Disable, Enable, GiveUp, PageInv, PageTypes
<1>3. page'.loop \in Calls => page'.loop = page.loop
  BY <1>1, PageAssumption
<1>4. NoCall.step \notin {"attempt", "answered"} /\ NoCall.got = Blank
  BY DEF NoCall
<1>5. latest' \in Attempts \cup {Nil}
  BY <1>1 DEF PageInv, PageTypes
<1> QED
  BY <1>1, <1>2, <1>3, <1>4, <1>5, ForgetKeeps

\* A new visit knows nothing and waits for nothing.
LEMMA RevisitKeeps ==
    ASSUME PageInv, Revisit
    PROVE  PageInv'
<1>1. /\ UNCHANGED <<vars, latest>>
      /\ page' = [Opened EXCEPT !.clicks = page.clicks + 1]
      /\ call' = [c \in Calls |-> NoCall]
  BY DEF Revisit
<1>2. PageTypes'
  <2>1. page' \in Page
    <3>1. page.clicks + 1 \in 0 .. MaxClicks
      BY PageAssumption DEF Revisit, PageInv, PageTypes, Page
    <3>2. Opened \in Page
      BY NoCallIsCall, PageAssumption DEF Opened, Page
    <3> QED
      BY <1>1, <3>1, <3>2 DEF Page
  <2> QED
    BY <1>1, <2>1, NoCallIsCall DEF PageInv, PageTypes
<1>3. page'.view = Blank /\ OneLive'
  BY <1>1, PageAssumption DEF Opened, OneLive
<1>4. PayInv'
  BY <1>1, NextKeepsPayInv DEF PageInv
<1>5. \A c \in Calls : call'[c] = NoCall
  BY <1>1
<1> QED
  BY <1>2, <1>3, <1>4, <1>5 DEF PageInv, Past, Newer, NoCall, Blank

\* The two reads of a response see what is there: all the page has read is its past.
LEMMA RespondKeeps ==
    ASSUME PageInv, NEW c \in Calls, RespondBooking(c) \/ RespondAttempt(c)
    PROVE  PageInv'
<1>1. /\ UNCHANGED <<vars, page, latest>>
      /\ \A d \in Calls \ {c} : call'[d] = call[d]
  BY DEF RespondBooking, RespondAttempt, PageInv, PageTypes
<1>2. PayInv'
  BY <1>1, NextKeepsPayInv DEF PageInv
<1>3. /\ page' \in Page /\ latest' \in Attempts \cup {Nil} /\ OneLive' /\ Past(page.view)'
  BY <1>1 DEF PageInv, PageTypes, OneLive, Past, vars
<1>4. \A d \in Calls \ {c} : Past(call[d].got)' /\ Newer(d)'
  BY <1>1 DEF PageInv, Past, Newer, Live, vars
<1>5. CASE RespondBooking(c)
  <2> DEFINE got == [Blank EXCEPT !.paid = booking[Shown].paid, !.pending = booking[Shown].pending]
  <2>1. call' = [call EXCEPT ![c].step = "attempt", ![c].got = got]
    BY <1>5 DEF RespondBooking
  <2>2. got \in View /\ got.a = Nil /\ got.paid = booking[Shown].paid
    BY PageAssumption DEF PageInv, PayInv, TypeOK, BookingRow, Blank, View, AttemptStatus
  <2>3. /\ call' \in [Calls -> Call]
        /\ call'[c].step = "attempt" /\ call'[c].got = got
    <3> HIDE DEF got
    <3> QED
      BY <2>1, <2>2 DEF PageInv, PageTypes, Call
  <2>4. Past(call[c].got)'
    BY <1>1, <2>2, <2>3 DEF Past, vars
  <2>5. Newer(c)'
    BY <1>1, <2>2, <2>3 DEF PageInv, Past, Newer, vars
  <2> QED
    BY <1>2, <1>3, <1>4, <2>3, <2>4, <2>5 DEF PageInv, PageTypes
<1>6. CASE RespondAttempt(c)
  <2> DEFINE status == IF latest = Nil THEN "NONE" ELSE attempt[latest].status
  <2> DEFINE got == [call[c].got EXCEPT !.a = latest, !.status = status]
  <2>1. /\ call[c].step = "attempt"
        /\ call' = [call EXCEPT ![c].step = "answered", ![c].got = got]
    BY <1>6 DEF RespondAttempt, PageInv, PageTypes, Call
  <2>2. status \in AttemptStatus /\ latest \in Attempts \cup {Nil}
    BY DEF PageInv, PageTypes, PayInv, TypeOK, AttemptRow, AttemptStatus
  <2>3. latest # Nil => status = attempt[latest].status
    OBVIOUS
  <2>4. /\ call' \in [Calls -> Call]
        /\ call'[c].step = "answered" /\ call'[c].got.a = latest
        /\ call'[c].got.status = status /\ call'[c].got.paid = call[c].got.paid
    <3> HIDE DEF status
    <3>1. call[c].got \in View
      BY DEF PageInv, PageTypes, Call
    <3>2. /\ got \in View /\ got.a = latest /\ got.status = status
          /\ got.paid = call[c].got.paid
      BY <2>2, <3>1 DEF View
    <3> HIDE DEF got
    <3> QED
      BY <2>1, <3>2 DEF PageInv, PageTypes, Call
  <2>5. Past(call[c].got)'
    <3>1. latest # Nil => Onward(status, attempt'[latest].status)
      BY <1>1, <2>3 DEF Onward, vars
    <3>2. call[c].got.paid => booking'[Shown].paid
      BY <1>1 DEF PageInv, Past, vars
    <3> QED
      BY <2>4, <3>1, <3>2 DEF Past
  <2>6. Newer(c)'
    BY <1>1, <2>1, <2>3, <2>4 DEF PageInv, Past, Newer, Live, vars
  <2> QED
    BY <1>2, <1>3, <1>4, <2>4, <2>5, <2>6 DEF PageInv, PageTypes
<1> QED
  BY <1>5, <1>6

\* An answer that the page waits for becomes its view; it waits for no other then.
LEMMA ReceivedKeeps ==
    ASSUME PageInv, NEW c \in Calls, Read(c) \/ Bought(c)
    PROVE  PageInv'
<1>1. /\ UNCHANGED <<vars, latest>> /\ call[c].step = "answered"
      /\ call' = [call EXCEPT ![c] = NoCall]
  BY DEF Read, Bought, Received
<1>2. call' \in [Calls -> Call] /\ \A d \in Calls : call'[d] = IF d = c THEN NoCall ELSE call[d]
  BY <1>1, NoCallIsCall DEF PageInv, PageTypes
<1>3. CASE page' = page
  BY <1>1, <1>2, <1>3, ForgetKeeps DEF PageInv, PageTypes, NoCall
<1>4. CASE page' # page
  <2>1. Live(c) /\ page'.view = call[c].got /\ call[c].got \in View /\ page' \in Page
    BY <1>4 DEF Read, Bought, Live, PageInv, PageTypes, Page, Call
  <2>2. \A d \in Calls : ~Live(d)'
    <3>1. page'.loop \in {"due", "off"} /\ page'.buy = Nil
      <4>1. CASE Bought(c)
        BY <4>1 DEF Bought, PageInv, PageTypes, Page
      <4>2. CASE Read(c)
        BY <1>4, <4>2 DEF Read, PageInv, PageTypes, Page, OneLive
      <4> QED
        BY <4>1, <4>2
    <3> QED
      BY <3>1, PageAssumption DEF Live
  <2>3. OneLive'
    BY <2>2 DEF OneLive, Live
  <2>4. Past(page.view)'
    BY <1>1, <2>1 DEF PageInv, Past, vars
  <2>5. \A d \in Calls : Past(call[d].got)' /\ Newer(d)'
    BY <1>1, <1>2, <2>2 DEF PageInv, Past, Newer, NoCall, Blank, vars
  <2>6. PayInv'
    BY <1>1, NextKeepsPayInv DEF PageInv
  <2> QED
    BY <1>1, <1>2, <2>1, <2>3, <2>4, <2>5, <2>6 DEF PageInv, PageTypes
<1> QED
  BY <1>3, <1>4

\* The job of a worker ends, and with it the work on the request it serves.
LEMMA WorkKeeps ==
    ASSUME PageInv, NEW t \in Workers, Work(t)
    PROVE  PageInv'
<1>1. [Next]_vars
  BY DEF Work, ClaimStep, ApplyStep, Next, Continue
<1>2. latest' \in Attempts \cup {Nil}
  <2>1. CASE ClaimStep(t)
    <3>1. job[t].a \in Attempts
      BY <2>1 DEF ClaimStep, Claim, PageInv, PayInv, JobRows, JobRow
    <3> QED
      BY <2>1, <3>1 DEF ClaimStep, PageInv, PageTypes
  <2>2. CASE latest' = latest
    BY <2>2 DEF PageInv, PageTypes
  <2> QED
    BY <2>1, <2>2 DEF Work
<1>3. ASSUME NEW next \in {"status", "booking"}, Then(t, next) PROVE PageInv'
  <2>1. page' = page
    BY <1>3 DEF Then
  <2>2. \A c \in Calls :
          call'[c] = IF Serves(t, c) /\ job'[t] = Idle
                     THEN [call[c] EXCEPT !.step = next, !.t = Nil] ELSE call[c]
    BY <1>3 DEF Then
  <2>3. call' \in [Calls -> Call]
    <3>1. \A c \in Calls : [call[c] EXCEPT !.step = next, !.t = Nil] \in Call
      BY DEF PageInv, PageTypes, Call
    <3> QED
      BY <1>3, <3>1 DEF Then, PageInv, PageTypes
  <2>4. \A c \in Calls :
          \/ call'[c] = call[c]
          \/ call'[c].step \notin {"attempt", "answered"} /\ call'[c].got \in {Blank, call[c].got}
    BY <2>2 DEF PageInv, PageTypes, Call
  <2> QED
    BY <1>1, <1>2, <2>1, <2>3, <2>4, ForgetKeeps DEF PageInv, PageTypes
<1>4. ASSUME Throw(t) PROVE PageInv'
  <2>1. /\ call' \in [Calls -> Call]
        /\ \A c \in Calls : call'[c] \in {call[c], NoCall}
    BY <1>4, NoCallIsCall DEF Throw, PageInv, PageTypes
  <2>2. NoCall.step \notin {"attempt", "answered"} /\ NoCall.got = Blank
    BY DEF NoCall
  <2>3. CASE page' = page
    BY <1>1, <1>2, <2>1, <2>2, <2>3, ForgetKeeps DEF PageInv, PageTypes
  <2>4. CASE \E c \in Calls : page' = Failed(c)
    BY <1>1, <1>2, <2>1, <2>2, <2>4, FailedPage, ForgetKeeps
  <2> QED
    BY <1>4, <2>3, <2>4 DEF Throw
<1> QED
  BY <1>3, <1>4 DEF Work, ClaimStep, ApplyStep

LEMMA BeginKeeps ==
    ASSUME PageInv, NEW c \in Calls, NEW t \in Workers, BeginCreate(c, t) \/ BeginStatus(c, t)
    PROVE  PageInv'
<1>1. [Next]_vars
  BY PageAssumption DEF BeginCreate, BeginStatus, Next, PageInv, PageTypes
<1>2. UNCHANGED <<page, latest>>
  BY DEF BeginCreate, BeginStatus
<1>3. \/ call' = [call EXCEPT ![c].step = "served", ![c].t = t]
      \/ \E s \in {"status", "booking"} : call' = [call EXCEPT ![c].step = s]
  BY DEF BeginCreate, BeginStatus
<1>4. call' \in [Calls -> Call]
  BY <1>3 DEF PageInv, PageTypes, Call
<1>5. \A d \in Calls :
        \/ call'[d] = call[d]
        \/ call'[d].step \notin {"attempt", "answered"} /\ call'[d].got \in {Blank, call[d].got}
  BY <1>3 DEF PageInv, PageTypes, Call
<1> QED
  BY <1>1, <1>2, <1>4, <1>5, ForgetKeeps DEF PageInv, PageTypes

LEMMA PageInitInv == PageInit => PageInv
<1> SUFFICES ASSUME PageInit PROVE PageInv
  OBVIOUS
<1>1. PayInv
  BY InitPayInv DEF PageInit
<1>2. PageTypes
  <2>1. Opened \in Page
    BY NoCallIsCall, PageAssumption DEF Opened, Page
  <2> QED
    BY <2>1, NoCallIsCall DEF PageInit, PageTypes
<1>3. OneLive /\ Past(page.view) /\ \A c \in Calls : Past(call[c].got) /\ Newer(c)
  BY PageAssumption DEF PageInit, Opened, OneLive, Past, Newer, NoCall, Blank
<1> QED
  BY <1>1, <1>2, <1>3 DEF PageInv

LEMMA NextKeepsPageInv == PageInv /\ [PageNext]_pageVars => PageInv'
<1> SUFFICES ASSUME PageInv, [PageNext]_pageVars PROVE PageInv'
  OBVIOUS
<1>1. ASSUME NEW c \in Calls,
             \/ Ask(c) \/ Click(c) \/ Read(c) \/ Bought(c) \/ Lose(c)
             \/ RefuseCreate(c) \/ RespondBooking(c) \/ RespondAttempt(c)
      PROVE  PageInv'
  BY <1>1, SendKeeps, ReceivedKeeps, LoseKeeps, RespondKeeps
<1>2. ASSUME NEW c \in Calls, NEW t \in Workers, BeginCreate(c, t) \/ BeginStatus(c, t)
      PROVE  PageInv'
  BY <1>2, BeginKeeps
<1>3. CASE Refresh \/ Disable \/ Enable \/ Revisit
  BY <1>3, LoopKeeps, RevisitKeeps
<1>4. ASSUME NEW t \in Workers, Work(t) PROVE PageInv'
  BY <1>4, WorkKeeps
<1>5. CASE UNCHANGED <<page, call, latest>> /\ [Next]_vars
  <2>1. /\ page' \in Page /\ call' \in [Calls -> Call] /\ latest' \in Attempts \cup {Nil}
        /\ page'.buy \in {page.buy, Nil} /\ page'.view = page.view /\ page'.loop = page.loop
        /\ \A c \in Calls : call'[c] = call[c]
    BY <1>5 DEF PageInv, PageTypes
  <2> QED
    BY <1>5, <2>1, ForgetKeeps
<1>6. Rest => UNCHANGED <<page, call, latest>> /\ [Next]_vars
  BY DEF Rest, Next
<1>7. UNCHANGED pageVars => UNCHANGED <<page, call, latest>> /\ [Next]_vars
  BY DEF pageVars
<1> QED
  BY <1>1, <1>2, <1>3, <1>4, <1>5, <1>6, <1>7 DEF PageNext

\* The page and what it has read of the payment, for any number of requests given up
\* and answered late, and any number of other devices, events and workers.
THEOREM PageInvariant == PageSpec => []PageInv
<1>1. PageInit => PageInv
  BY PageInitInv
<1>2. PageInv /\ [PageNext]_pageVars => PageInv'
  BY NextKeepsPageInv
<1> QED
  BY <1>1, <1>2, PTL DEF PageSpec

\* The state of the page and its requests keep their types.
THEOREM PageTypesHold == PageSpec => []PageTypeOK
<1>1. PageInv => PageTypeOK
  BY DEF PageInv, PayInv, PageTypes, PageTypeOK
<1> QED
  BY <1>1, PageInvariant, PTL

\* What the page and the API do together is something Payments allows, so all that is
\* proved of Payments holds while pages are open.
THEOREM PageImplementsPayments == PageSpec => Spec
<1>1. PageInit => Init
  BY DEF PageInit
<1>2. PageInv /\ [PageNext]_pageVars => [Next]_vars
  BY PageStepIsStep DEF PageInv
<1> QED
  BY <1>1, <1>2, PageInvariant, PTL DEF PageSpec, Spec

\* The view changes only by an answer the page waits for, or by a new visit.
LEMMA ViewMoves ==
    ASSUME PageInv, [PageNext]_pageVars
    PROVE  \/ page'.view = page.view
           \/ page'.view = Blank
           \/ \E c \in Calls : /\ Live(c) /\ call[c].step = "answered"
                               /\ page'.view = call[c].got
<1>1. ASSUME NEW c \in Calls, Read(c) \/ Bought(c)
      PROVE  \/ page'.view = page.view
             \/ Live(c) /\ call[c].step = "answered" /\ page'.view = call[c].got
  BY <1>1 DEF Read, Bought, Received, Live, PageInv, PageTypes, Page
<1>2. ASSUME NEW c \in Calls, Ask(c) \/ Click(c) PROVE page'.view = page.view
  BY <1>2 DEF Ask, Click, PageInv, PageTypes, Page
<1>3. ASSUME NEW c \in Calls, Lose(c) \/ RefuseCreate(c) PROVE page'.view = page.view
  BY <1>3, FailedPage DEF Lose, RefuseCreate
<1>4. ASSUME NEW t \in Workers, Work(t) PROVE page'.view = page.view
  <2>1. page' = page \/ Throw(t)
    BY <1>4 DEF Work, ClaimStep, ApplyStep, Then
  <2>2. Throw(t) => page' = page \/ \E c \in Calls : page' = Failed(c)
    BY DEF Throw
  <2> QED
    BY <2>1, <2>2, FailedPage
<1>5. CASE Refresh \/ Disable \/ Enable
  BY <1>5 DEF Refresh, Disable, Enable, GiveUp, PageInv, PageTypes, Page
<1>6. CASE Revisit
  BY <1>6 DEF Revisit, Opened
<1>7. CASE UNCHANGED page
  BY <1>7
<1> QED
  BY <1>1, <1>2, <1>3, <1>4, <1>5, <1>6, <1>7
     DEF PageNext, pageVars, RespondBooking, RespondAttempt, BeginCreate, BeginStatus, Rest

\* The page never takes back what it showed of a payment, whichever of its requests
\* are given up, and in whatever order their answers come.
THEOREM PageMovesOn == PageSpec => NeverShowsThePast
<1>1. ASSUME PageInv, [PageNext]_pageVars, page'.view.a = page.view.a, page.view.a # Nil
      PROVE  /\ Onward(page.view.status, page'.view.status)
             /\ page.view.paid => page'.view.paid
  <2>1. CASE page'.view = page.view
    BY <2>1 DEF Onward
  <2>2. page'.view # Blank
    BY <1>1 DEF Blank
  <2>3. ASSUME NEW c \in Calls, Live(c), call[c].step = "answered", page'.view = call[c].got
        PROVE  /\ Onward(page.view.status, page'.view.status)
               /\ page.view.paid => page'.view.paid
    BY <1>1, <2>3 DEF PageInv, Newer
  <2> QED
    BY <1>1, <2>1, <2>2, <2>3, ViewMoves
<1> QED
  BY <1>1, PageInvariant, PTL DEF PageSpec, NeverShowsThePast
=============================================================================

---------------------------- MODULE PaymentPage ----------------------------
(***************************************************************************)
(* The payment panel of a booking in the student's browser, as a client of *)
(* Payments.  A loop reads the payment every five seconds while it is      *)
(* pending, a click creates one, and a gate keeps the two apart.  Each     *)
(* request may fail, be answered late, or be given up by the page while    *)
(* the API still works on it.  Webhooks and other devices of the student   *)
(* act on the same booking.                                                *)
(*                                                                         *)
(* Left out: the hidden page, which only delays the loop; QR codes and     *)
(* amounts; and the copy of the booking that the page around it shows.     *)
(***************************************************************************)
EXTENDS Payments, Naturals

\* Calls are requests of the page in flight.  MaxClicks bounds what the user does
\* to the loop: reloads, visits to the page, other panels at work.
CONSTANTS Shown, Calls, MaxClicks

ASSUME PageAssumption ==
    Shown \in Bookings /\ MaxClicks \in Nat /\ Calls \cap {"off", "due", Nil} = {}

VARIABLES
    page,    \* the state of the panel
    call,    \* its requests
    latest   \* the attempt of the booking created last

pageVars == <<vars, page, call, latest>>

\* What a response says of the booking and of its latest attempt.
View == [paid : BOOLEAN, pending : BOOLEAN, a : Attempts \cup {Nil}, status : AttemptStatus]
Blank == [paid |-> FALSE, pending |-> FALSE, a |-> Nil, status |-> "NONE"]

\* loop is the read in flight, or whether one is due; buy the create in flight.
\* The gate is held exactly while one of them is in flight.
Page == [view : View, verified : BOOLEAN, error : BOOLEAN, disabled : BOOLEAN,
         loop : {"off", "due"} \cup Calls, buy : Calls \cup {Nil}, clicks : 0 .. MaxClicks]

\* asked and status wait for create and getStatus to begin, served for worker t;
\* a response takes two reads, and then the page asks for the booking.
Call == [step : {"none", "asked", "status", "served", "booking", "attempt", "answered"},
         t : Workers \cup {Nil}, got : View]
NoCall == [step |-> "none", t |-> Nil, got |-> Blank]

PageTypeOK ==
    /\ TypeOK
    /\ page \in Page
    /\ call \in [Calls -> Call]
    /\ latest \in Attempts \cup {Nil}

Opened == [view |-> Blank, verified |-> FALSE, error |-> FALSE, disabled |-> FALSE,
           loop |-> "due", buy |-> Nil, clicks |-> 0]

PageInit ==
    /\ Init
    /\ page = Opened
    /\ call = [c \in Calls |-> NoCall]
    /\ latest = Nil

GateFree == page.loop \notin Calls /\ page.buy = Nil

-----------------------------------------------------------------------------
(* The effect that reads, and the button *)

\* Which name a request gets does not matter.
Send(c, step) ==
    /\ call[c] = NoCall
    /\ c = CHOOSE d \in Calls : call[d] = NoCall
    /\ call' = [call EXCEPT ![c].step = step]
    /\ UNCHANGED <<vars, latest>>

\* poll
Ask(c) ==
    /\ page.loop = "due" /\ GateFree
    /\ Send(c, "status")
    /\ page' = [page EXCEPT !.loop = c]

\* create: the button is there for a verified payment that is neither paid nor pending.
Click(c) ==
    /\ GateFree /\ ~page.disabled /\ page.verified
    /\ ~page.view.pending /\ ~page.view.paid
    /\ Send(c, "asked")
    /\ page' = [page EXCEPT !.buy = c, !.error = FALSE]

Received(c) ==
    /\ call[c].step = "answered"
    /\ call' = [call EXCEPT ![c] = NoCall]
    /\ UNCHANGED <<vars, latest>>

\* Mutation of Read: an effect that was cleaned up still sets the state.
ReadLate(c) ==
    /\ Received(c)
    /\ c # page.buy
    /\ page' = [page EXCEPT !.view = call[c].got, !.verified = TRUE, !.error = FALSE,
                            !.loop = IF c # @ THEN @
                                     ELSE IF call[c].got.pending THEN "due" ELSE "off"]

\* The read of a loop that was cleaned up changes nothing.
Read(c) ==
    /\ Received(c)
    /\ c # page.buy
    /\ page' = IF c # page.loop THEN page
               ELSE [page EXCEPT !.view = call[c].got, !.verified = TRUE, !.error = FALSE,
                                 !.loop = IF call[c].got.pending THEN "due" ELSE "off"]

\* Mutation of Bought: the loop is not started again.
BoughtOnce(c) ==
    /\ Received(c)
    /\ c = page.buy
    /\ page' = [page EXCEPT !.view = call[c].got, !.verified = TRUE, !.buy = Nil]

\* The loop starts again with what was created.
Bought(c) ==
    /\ Received(c)
    /\ c = page.buy
    /\ page' = [page EXCEPT !.view = call[c].got, !.verified = TRUE, !.buy = Nil, !.loop = "due"]

\* What an error does to the page that waits for c: no read is due after one.
Failed(c) == [page EXCEPT !.error = @ \/ c \in {page.loop, page.buy},
                          !.verified = @ /\ c \notin {page.loop, page.buy},
                          !.loop = IF @ = c THEN "off" ELSE @,
                          !.buy = IF @ = c THEN Nil ELSE @]

\* An answer is lost or takes too long; the API may go on.
Lose(c) ==
    /\ call[c].step # "none"
    /\ page' = Failed(c)
    /\ call' = [call EXCEPT ![c] = NoCall]
    /\ UNCHANGED <<vars, latest>>

\* The clean-up of the effect gives its read up.  Only the request for the booking
\* is not aborted.
GiveUp(loop) ==
    /\ page.clicks < MaxClicks
    /\ call' = [c \in Calls |-> IF c = page.loop /\ call[c].step # "answered" THEN NoCall ELSE call[c]]
    /\ page' = [page EXCEPT !.loop = loop, !.clicks = @ + 1,
                            !.disabled = (loop = "off")]
    /\ UNCHANGED <<vars, latest>>

\* The refresh button.
Refresh == ~page.disabled /\ page.buy = Nil /\ GiveUp("due")

\* Another panel works on the booking.
Disable == ~page.disabled /\ page.buy = Nil /\ GiveUp("off")

Enable ==
    /\ page.disabled
    /\ page' = [page EXCEPT !.disabled = FALSE, !.loop = "due"]
    /\ UNCHANGED <<vars, call, latest>>

\* The page is left and visited again: nothing of it is kept.
Revisit ==
    /\ page.clicks < MaxClicks
    /\ page' = [Opened EXCEPT !.clicks = page.clicks + 1]
    /\ call' = [c \in Calls |-> NoCall]
    /\ UNCHANGED <<vars, latest>>

-----------------------------------------------------------------------------
(* The API *)

Unpaid == ~booking[Shown].paid /\ ~booking[Shown].pending

\* create
BeginCreate(c, t) ==
    /\ call[c].step = "asked"
    /\ IF Unpaid
       THEN /\ \E a \in Attempts : PayRead(t, Shown, a)
            /\ call' = [call EXCEPT ![c].step = "served", ![c].t = t]
       ELSE call' = [call EXCEPT ![c].step = "status"] /\ UNCHANGED vars
    /\ UNCHANGED <<page, latest>>

\* create of a booking that cannot be paid.
RefuseCreate(c) ==
    /\ call[c].step = "asked"
    /\ Unpaid /\ ~Payable(Shown)
    /\ page' = Failed(c)
    /\ call' = [call EXCEPT ![c] = NoCall]
    /\ UNCHANGED <<vars, latest>>

\* getStatus: the provider is asked about the latest attempt if that is open.
BeginStatus(c, t) ==
    /\ call[c].step = "status"
    /\ IF latest # Nil /\ Active(latest)
       THEN StatusRead(t, latest) /\ call' = [call EXCEPT ![c].step = "served", ![c].t = t]
       ELSE call' = [call EXCEPT ![c].step = "booking"] /\ UNCHANGED vars
    /\ UNCHANGED <<page, latest>>

\* The two reads of a response, and the answer to the page.
RespondBooking(c) ==
    /\ call[c].step = "booking"
    /\ call' = [call EXCEPT ![c].step = "attempt",
                            ![c].got = [Blank EXCEPT !.paid = booking[Shown].paid,
                                                     !.pending = booking[Shown].pending]]
    /\ UNCHANGED <<vars, page, latest>>

RespondAttempt(c) ==
    /\ call[c].step = "attempt"
    /\ call' = [call EXCEPT ![c].step = "answered",
                            ![c].got = [@ EXCEPT !.a = latest,
                                                 !.status = IF latest = Nil THEN "NONE"
                                                            ELSE attempt[latest].status]]
    /\ UNCHANGED <<vars, page, latest>>

\* The call that worker t serves, if the page still waits for it.
Serves(t, c) == call[c].step = "served" /\ call[c].t = t

\* The call goes on at step next once the job of t is done.
Then(t, next) ==
    /\ call' = [c \in Calls |->
                  IF Serves(t, c) /\ job'[t] = Idle
                  THEN [call[c] EXCEPT !.step = next, !.t = Nil] ELSE call[c]]
    /\ page' = page

Throw(t) ==
    /\ call' = [c \in Calls |-> IF Serves(t, c) THEN NoCall ELSE call[c]]
    /\ page' = IF \E c \in Calls : Serves(t, c)
               THEN Failed(CHOOSE c \in Calls : Serves(t, c)) ELSE page

\* A claim that comes too late is a read, or a conflict if there is nothing to read.
ClaimStep(t) ==
    /\ Claim(t)
    /\ latest' = IF attempt' # attempt /\ job[t].b = Shown THEN job[t].a ELSE latest
    /\ IF attempt' = attempt /\ Unpaid THEN Throw(t) ELSE Then(t, "status")

\* A result that cannot be booked is a conflict.
ApplyStep(t) ==
    /\ Apply(t)
    /\ IF /\ Active(job[t].a) /\ job[t].result # "PENDING"
          /\ ~Claimed(attempt[job[t].a].b)
       THEN Throw(t) ELSE Then(t, "booking")

Work(t) ==
    \/ ClaimStep(t)
    \/ /\ \/ ApplyStep(t)
          \/ (Post(t) \/ Lookup(t)) /\ Then(t, "booking")
          \/ (Rejected(t) \/ Abort(t)) /\ Throw(t)
       /\ UNCHANGED latest

\* Requests of others, the provider, and other handlers of the booking.
Rest ==
    /\ \/ \E t \in Workers, a \in Attempts :
            Webhook(t, a) \/ \E b \in Bookings : PayRead(t, b, a)
       \/ \E a \in Attempts : Provider(a)
       \/ \E b \in Bookings : Cancel(b) \/ Complete(b)
    /\ UNCHANGED <<page, call, latest>>

-----------------------------------------------------------------------------

PageNext ==
    \/ \E c \in Calls :
        \/ Ask(c) \/ Click(c) \/ Read(c) \/ Bought(c) \/ Lose(c)
        \/ RefuseCreate(c) \/ RespondBooking(c) \/ RespondAttempt(c)
        \/ \E t \in Workers : BeginCreate(c, t) \/ BeginStatus(c, t)
    \/ Refresh \/ Disable \/ Enable \/ Revisit
    \/ \E t \in Workers : Work(t)
    \/ Rest

PageSpec == PageInit /\ [][PageNext]_pageVars

\* Timers fire and answers that are sent arrive, the API goes on with a handler
\* or times out, and a request of the page is not kept waiting for ever.
PageFairness ==
    /\ WF_pageVars(\E c \in Calls : Ask(c))
    /\ \A c \in Calls :
        /\ WF_pageVars(Read(c) \/ Bought(c) \/ RespondBooking(c) \/ RespondAttempt(c))
        /\ SF_pageVars(\E t \in Workers : BeginCreate(c, t) \/ BeginStatus(c, t))
    /\ \A t \in Workers : WF_pageVars(Work(t))

PageFairSpec == PageSpec /\ PageFairness

-----------------------------------------------------------------------------
(* Properties *)

\* The status of an attempt may go from s to r.
Onward(s, r) ==
    /\ s \in Outcome => r = s
    /\ s = "PENDING" => r \in {"PENDING"} \cup Outcome

\* The page never takes back what it showed of an attempt, in whatever order the
\* answers to reads that were given up and to a create arrive.
NeverShowsThePast ==
    [][page'.view.a = page.view.a /\ page.view.a # Nil =>
         /\ Onward(page.view.status, page'.view.status)
         /\ page.view.paid => page'.view.paid]_pageVars

\* The page shows a payment as open and promises to follow it.
Follows ==
    /\ page.view.pending /\ page.view.status \in ActiveStatus
    /\ ~page.error /\ ~page.disabled

\* Whatever is lost, a page that follows a payment shows its outcome in the end, or
\* tells the student that it could not be read: it never waits in silence.
OutcomeShown ==
    []<>~(Follows /\ charge[page.view.a] \in Outcome)
=============================================================================

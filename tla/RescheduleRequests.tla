------------------------ MODULE RescheduleRequests -------------------------
(***************************************************************************)
(* RescheduleRequestsService: one participant of a confirmed booking asks  *)
(* to move it to another slot of the tutor and the other one decides.      *)
(* Every handler locks the booking before it reads the request.            *)
(***************************************************************************)
EXTENDS BookingStore

PendingRequest(b) == \E r \in Requests : request[r].b = b /\ request[r].status = "PENDING"

\* Mutation of GoodTarget: slots of another tutor are accepted.
GoodTargetAnyTutor(b, s) ==
    /\ slot[s] = "LIVE"
    /\ StartAt[s] > now
    /\ ~Overlap(s, booking[b].slot)
    /\ ~Reserved(s)

\* What both create and approve require of the target slot.
GoodTarget(b, s) ==
    /\ slot[s] = "LIVE"
    /\ SlotTutor[s] = booking[b].tutor
    /\ StartAt[s] > now
    /\ s # booking[b].slot
    /\ ~Overlap(s, booking[b].slot)
    /\ ~Reserved(s)

\* The booking's current class is at least the cutoff away.
BeforeCutoff(b) == StartAt[booking[b].slot] >= now + Cutoff

\* Mutation of RequestLock: the booking is read without FOR UPDATE.
RequestLockUnlocked(t, r, b, s, u) ==
    /\ FreshRequest(r)
    /\ Participant(b, u)
    /\ booking[b].status = "CONFIRMED"
    /\ BeforeCutoff(b)
    /\ ~PendingRequest(b)
    /\ GoodTarget(b, s)
    /\ Begin(t, [Idle EXCEPT !.op = "requestMove", !.b = b, !.s = s, !.r = r, !.who = u])
    /\ UNCHANGED <<now, slot, booking, request>>

\* create: SELECT FOR UPDATE on the booking, then the checks.
RequestLock(t, r, b, s, u) ==
    /\ FreshRequest(r)
    /\ BookingFree(b)
    /\ Participant(b, u)
    /\ booking[b].status = "CONFIRMED"
    /\ BeforeCutoff(b)
    /\ ~PendingRequest(b)
    /\ GoodTarget(b, s)
    /\ Begin(t, [Idle EXCEPT !.op = "requestMove", !.b = b, !.s = s,
                             !.r = r, !.who = u])
    /\ UNCHANGED <<now, slot, booking, request>>

\* The insert: its foreign keys wait for slots that are locked FOR UPDATE.  The
\* target is not locked and may be deleted or reserved by now.
RequestCommit(t) ==
    LET b == job[t].b IN
    /\ job[t].op = "requestMove"
    /\ SlotFree(booking[b].slot)
    /\ SlotFree(job[t].s)
    /\ request' = [request EXCEPT ![job[t].r] =
           [NoRequest EXCEPT !.status = "PENDING", !.b = b, !.from = booking[b].slot,
                             !.to = job[t].s, !.by = job[t].who]]
    /\ Finish(t)
    /\ UNCHANGED <<now, slot, booking>>

\* Mutation of Decider: requesters may decide on their own request.
DeciderAnyone(r, u) == request[r].status = "PENDING" /\ Participant(request[r].b, u)

\* A participant other than the requester, for a request that is pending.
Decider(r, u) == /\ request[r].status = "PENDING"
                 /\ Participant(request[r].b, u)
                 /\ u # request[r].by

\* approve: lock the booking, re-read the request and the booking.
ApproveLock(t, r, u) ==
    LET b == request[r].b IN
    /\ request[r].status # "NONE"
    /\ BookingFree(b)
    /\ Decider(r, u)
    /\ booking[b].status = "CONFIRMED"
    /\ booking[b].slot = request[r].from
    /\ Begin(t, [Idle EXCEPT !.op = "approve", !.b = b, !.s = request[r].to,
                             !.r = r, !.who = u])
    /\ UNCHANGED <<now, slot, booking, request>>

\* Mutation of ApproveTarget: the cutoff is only checked for the request.
ApproveTargetLate(t) ==
    /\ job[t].op = "approve"
    /\ SlotFree(job[t].s)
    /\ GoodTarget(job[t].b, job[t].s)
    /\ job' = [job EXCEPT ![t].op = "approving", ![t].at = now]
    /\ UNCHANGED <<now, slot, booking, request>>

\* Mutation of ApproveTarget: the target is read without FOR UPDATE.
ApproveTargetUnlocked(t) ==
    /\ job[t].op = "approve"
    /\ BeforeCutoff(job[t].b)
    /\ GoodTarget(job[t].b, job[t].s)
    /\ job' = [job EXCEPT ![t].op = "approving", ![t].at = now]
    /\ UNCHANGED <<now, slot, booking, request>>

\* SELECT FOR UPDATE on the target slot, then the checks that depend on it and
\* on the clock.
ApproveTarget(t) ==
    LET b == job[t].b IN
    /\ job[t].op = "approve"
    /\ SlotFree(job[t].s)
    /\ IF BeforeCutoff(b) /\ GoodTarget(b, job[t].s)
       THEN job' = [job EXCEPT ![t].op = "approving", ![t].at = now]
       ELSE Finish(t)
    /\ UNCHANGED <<now, slot, booking, request>>

\* The WHEREs of the two updates that close the request and move the booking.
StillApprovable(t) ==
    LET r == job[t].r IN
    /\ request[r].status = "PENDING"
    /\ booking[job[t].b].slot = request[r].from
    /\ booking[job[t].b].status = "CONFIRMED"

ApproveCommit(t) ==
    LET b == job[t].b
        r == job[t].r IN
    /\ job[t].op = "approving"
    /\ IF StillApprovable(t)
       THEN /\ request' = [request EXCEPT ![r].status = "APPROVED",
                                          ![r].reviewer = job[t].who,
                                          ![r].decidedAt = job[t].at]
            /\ booking' = [booking EXCEPT ![b].slot = request[r].to]
       ELSE UNCHANGED <<request, booking>>
    /\ Finish(t)
    /\ UNCHANGED <<now, slot>>

\* reject and withdraw: lock the booking, re-read, update and commit, with
\* nothing to wait for in between.
RejectRequest(r, u) ==
    /\ BookingFree(request[r].b)
    /\ Decider(r, u)
    /\ request' = [request EXCEPT ![r].status = "REJECTED", ![r].reviewer = u,
                                  ![r].decidedAt = now]
    /\ UNCHANGED <<now, slot, booking, job>>

WithdrawRequest(r, u) ==
    /\ BookingFree(request[r].b)
    /\ request[r].status = "PENDING"
    /\ u = request[r].by
    /\ request' = [request EXCEPT ![r].status = "WITHDRAWN", ![r].decidedAt = now]
    /\ UNCHANGED <<now, slot, booking, job>>
=============================================================================

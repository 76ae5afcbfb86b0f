------------------------- MODULE TutorAvailability --------------------------
(***************************************************************************)
(* TutorAvailabilityService: a tutor posts and deletes availability slots. *)
(* Neither handler opens a transaction: each reads first and writes in a   *)
(* second statement, and the schema settles what changed in between.       *)
(***************************************************************************)
EXTENDS BookingStore

\* Live slots of the tutor of s that overlap s.
Conflicts(s) ==
    {x \in Slots : /\ slot[x] = "LIVE"
                   /\ SlotTutor[x] = SlotTutor[s]
                   /\ Overlap(x, s)}

\* postAvailability: the future start the request must have, and the overlap
\* count, read without a lock.
PostRead(t, s) ==
    /\ slot[s] = "ABSENT"
    /\ StartAt[s] >= now
    /\ Conflicts(s) = {}
    /\ Begin(t, [Idle EXCEPT !.op = "post", !.s = s])
    /\ UNCHANGED <<now, slot, booking, request>>

\* Mutation of PostCommit: no exclusion constraint, the count is trusted.
PostCommitUnchecked(t) ==
    /\ job[t].op = "post"
    /\ slot' = [slot EXCEPT ![job[t].s] = "LIVE"]
    /\ Finish(t)
    /\ UNCHANGED <<now, booking, request>>

\* The insert, which AvailabilitySlot_no_overlap_excl refuses (409) when a slot
\* posted since the count overlaps.
PostCommit(t) ==
    LET s == job[t].s IN
    /\ job[t].op = "post"
    /\ slot' = IF slot[s] = "ABSENT" /\ Conflicts(s) = {}
               THEN [slot EXCEPT ![s] = "LIVE"] ELSE slot
    /\ Finish(t)
    /\ UNCHANGED <<now, booking, request>>

\* deleteAvailability: a live slot without an active booking, read without a lock.
DeleteRead(t, s) ==
    /\ slot[s] = "LIVE"
    /\ ~Reserved(s)
    /\ Begin(t, [Idle EXCEPT !.op = "delete", !.s = s])
    /\ UNCHANGED <<now, slot, booking, request>>

\* Mutation of DeleteCommit: no trigger, the first read is trusted.
DeleteCommitUnchecked(t) ==
    /\ job[t].op = "delete"
    /\ SlotFree(job[t].s)
    /\ slot' = [slot EXCEPT ![job[t].s] = "DELETED"]
    /\ Finish(t)
    /\ UNCHANGED <<now, booking, request>>

\* The update waits for the slot row; its trigger then looks for an active
\* booking again and refuses (409).
DeleteCommit(t) ==
    LET s == job[t].s IN
    /\ job[t].op = "delete"
    /\ SlotFree(s)
    /\ slot' = IF slot[s] = "LIVE" /\ ~Reserved(s)
               THEN [slot EXCEPT ![s] = "DELETED"] ELSE slot
    /\ Finish(t)
    /\ UNCHANGED <<now, booking, request>>
=============================================================================

------------------------------ MODULE Messaging -----------------------------
(***************************************************************************)
(* One conversation: the messages in the database, the peer who writes and *)
(* reads, and the thread one user has open in the browser, which keeps its *)
(* copy current by polling and by a socket that only says "look again".    *)
(*                                                                         *)
(* Messages are ordered by (sentAt, id).  sentAt is read from the clock    *)
(* when the insert begins, so messages may be committed in another order;  *)
(* a position in the order is drawn then, and the log is the order of the  *)
(* commits.  Texts are drafts: a new draft for each text the user writes.  *)
(* A key is the attempt it was made up for.  Failures, aborts, crashes and *)
(* hidden pages are faults and are counted, to bound them.                 *)
(***************************************************************************)
EXTENDS Naturals, Sequences, FiniteSetsExt

CONSTANTS
    MyPosts,     \* attempts of this user to send
    PeerPosts,   \* the peer's messages
    PageSize,    \* messages on a page of history
    MaxDrafts,   \* bound: texts this user writes
    MaxFaults,   \* bound: faults
    Nil

Posts == MyPosts \cup PeerPosts

ASSUME MessagingAssumption ==
    /\ MyPosts \cap PeerPosts = {} /\ Nil \notin Posts /\ IsFiniteSet(Posts)
    /\ PageSize \in Nat \ {0} /\ MaxDrafts \in Nat /\ MaxFaults \in Nat
    /\ \A p \in MyPosts, draft \in 1..MaxDrafts : Nil # <<p, draft>>

VARIABLES
    log,      \* Message rows, in the order they were committed
    read,     \* positions of the rows whose readAt is set
    post,     \* the requests to send a message
    clock,    \* the last position drawn
    tab,      \* the thread's memory: it survives closing the thread
    view,     \* what the open thread is in the middle of
    event,    \* an event is on its way to the socket
    faults

vars == <<log, read, post, clock, tab, view, event, faults>>
database == <<log, read, post, clock>>

Positions == 0..Cardinality(Posts)
NoSync == [step |-> "idle", after |-> 0, from |-> 0, low |-> 0,
           ids |-> {}, seen |-> {}, fresh |-> FALSE, aborted |-> FALSE]
NoPost == [step |-> "new", key |-> Nil, draft |-> 0, id |-> 0, read |-> FALSE]
Over == [NoPost EXCEPT !.step = "gone"]

TypeOK ==
    /\ log \in Seq([id : Positions, key : Posts, draft : 0..MaxDrafts])
    /\ read \subseteq Positions
    /\ post \in [Posts -> [step : {"new", "sent", "open", "stored", "answered", "gone"},
                           key : Posts \cup {Nil}, draft : 0..MaxDrafts,
                           id : Positions, read : BOOLEAN]]
    /\ clock \in Positions
    /\ tab \in [items : SUBSET Positions, seen : SUBSET Positions, cursor : Positions,
                oldest : Positions, readCursor : Positions, loaded : BOOLEAN,
                draft : 1..MaxDrafts + 1, pending : {Nil} \cup (MyPosts \X (1..MaxDrafts))]
    /\ view \in [sync : [step : {"idle", "ask", "got", "mark", "marked", "older"},
                         after : Positions, from : Positions, low : Positions,
                         ids : SUBSET Positions, seen : SUBSET Positions,
                         fresh : BOOLEAN, aborted : BOOLEAN],
                 sending : MyPosts \cup {Nil}, uncertain : BOOLEAN, queued : BOOLEAN,
                 poll : BOOLEAN, hidden : BOOLEAN, socket : {"off", "room", "on"}]
    /\ event \in BOOLEAN
    /\ faults \in 0..MaxFaults

Ids == {log[k].id : k \in DOMAIN log}
Mine == {log[k].id : k \in {l \in DOMAIN log : log[l].key \in MyPosts}}
Theirs == Ids \ Mine
RowOf(key) == CHOOSE k \in DOMAIN log : log[k].key = key
Stored(key) == \E k \in DOMAIN log : log[k].key = key

\* The page of a set of positions that comes first, or last.
FirstPage(S) == {i \in S : Cardinality({j \in S : j < i}) < PageSize}
LastPage(S) == {i \in S : Cardinality({j \in S : j > i}) < PageSize}
Latest(S) == IF S = {} THEN 0 ELSE Max(S)

Fault == faults < MaxFaults /\ faults' = faults + 1

-----------------------------------------------------------------------------
(* The thread's control: v is the view and t the memory it works with *)

\* The earliest loaded message of the user that is not known to be read.
ReceiptCursor(t) ==
    LET unread == {i \in (t.items \cap Mine) \ t.seen : i <= t.cursor}
    IN  IF t.cursor \in t.items /\ unread # {} THEN Min(unread) ELSE 0

StartSync(v, t) ==
    [v EXCEPT !.queued = FALSE,
              !.sync = [NoSync EXCEPT !.step = "ask", !.fresh = TRUE, !.after = t.cursor,
                                      !.from = IF t.loaded THEN ReceiptCursor(t) ELSE 0]]

\* requestRefresh: one request at a time, and none while a message is sent.
Refresh(v, t) ==
    IF v.hidden THEN v
    ELSE IF v.sync # NoSync \/ v.sending # Nil THEN [v EXCEPT !.queued = TRUE]
    ELSE StartSync(v, t)

Flush(v, t) == IF v.queued THEN Refresh(v, t) ELSE v

\* Mutation of AfterSync: a socket is reliable, even after a failed request.
AfterSyncTrusting(v, t, retry) ==
    LET ended == [v EXCEPT !.sync = NoSync, !.poll = ~v.hidden /\ v.socket # "on"]
    IN  IF v.sending = Nil THEN Flush(ended, t) ELSE ended

\* The end of synchronize: poll unless the socket is joined and this worked.
AfterSync(v, t, retry) ==
    LET ended == [v EXCEPT !.sync = NoSync,
                           !.poll = ~v.hidden /\ (v.socket # "on" \/ retry)]
    IN  IF v.sending = Nil THEN Flush(ended, t) ELSE ended

Unloaded(draft) ==
    [items |-> {}, seen |-> {}, cursor |-> 0, oldest |-> 0, readCursor |-> 0,
     loaded |-> FALSE, draft |-> draft, pending |-> Nil]

Opened(t) ==
    StartSync([sync |-> NoSync, sending |-> Nil, uncertain |-> FALSE, queued |-> FALSE,
               poll |-> TRUE, hidden |-> FALSE, socket |-> "off"], t)

Init ==
    /\ log = <<>> /\ read = {} /\ clock = 0
    /\ post = [p \in Posts |-> NoPost]
    /\ tab = Unloaded(1)
    /\ view = Opened(tab)
    /\ event = FALSE
    /\ faults = 0

-----------------------------------------------------------------------------
(* Sending *)

Send(p, key, draft) ==
    /\ post[p].step = "new"
    /\ post' = [post EXCEPT ![p] = [NoPost EXCEPT !.step = "sent", !.key = key, !.draft = draft]]

\* The peer's message, from the moment its insert begins.
PeerSend(p) ==
    /\ p \in PeerPosts /\ post[p].step = "new"
    /\ clock' = clock + 1
    /\ post' = [post EXCEPT ![p] = [NoPost EXCEPT !.step = "open", !.key = p, !.id = clock + 1]]
    /\ UNCHANGED <<log, read, tab, view, event, faults>>

CanSend == ~view.hidden /\ view.sending = Nil /\ ~view.uncertain
           /\ tab.loaded /\ tab.draft <= MaxDrafts

\* Mutation of SendBegin: a new key for every attempt.
SendBeginNewKey(p) ==
    /\ p \in MyPosts /\ CanSend
    /\ tab' = [tab EXCEPT !.pending = <<p, tab.draft>>]
    /\ Send(p, p, tab.draft)
    /\ view' = [view EXCEPT !.sending = p]
    /\ UNCHANGED <<log, read, clock, event, faults>>

\* The key of an attempt is kept until the text is sent, or another one is.
SendBegin(p) ==
    /\ p \in MyPosts /\ CanSend
    /\ LET retry == tab.pending # Nil /\ tab.pending[2] = tab.draft
           key == IF retry THEN tab.pending[1] ELSE p
       IN  /\ tab' = [tab EXCEPT !.pending = <<key, tab.draft>>]
           /\ Send(p, key, tab.draft)
    /\ view' = [view EXCEPT !.sending = p]
    /\ UNCHANGED <<log, read, clock, event, faults>>

\* Mutation of EditDraft: the text can be edited while it is sent.
EditDraftSending ==
    /\ ~view.hidden /\ tab.loaded /\ tab.draft <= MaxDrafts
    /\ tab' = [tab EXCEPT !.draft = @ + 1]
    /\ UNCHANGED <<database, view, event, faults>>

\* The user writes something else instead.
EditDraft ==
    /\ ~view.hidden /\ tab.loaded /\ view.sending = Nil /\ tab.draft <= MaxDrafts
    /\ tab' = [tab EXCEPT !.draft = @ + 1]
    /\ UNCHANGED <<database, view, event, faults>>

\* The insert begins: sentAt is drawn.
Receive(p) ==
    /\ post[p].step = "sent"
    /\ clock' = clock + 1
    /\ post' = [post EXCEPT ![p].step = "open", ![p].id = clock + 1]
    /\ UNCHANGED <<log, read, tab, view, event, faults>>

Store(p) ==
    /\ post[p].step = "open" /\ ~Stored(post[p].key)
    /\ log' = Append(log, [id |-> post[p].id, key |-> post[p].key, draft |-> post[p].draft])
    /\ post' = [post EXCEPT ![p].step = "stored"]
    /\ UNCHANGED <<read, clock, tab, view, event, faults>>

\* The key is taken: the answer is the message stored under it, and no event.
Replay(p) ==
    /\ post[p].step = "open" /\ Stored(post[p].key)
    /\ LET id == log[RowOf(post[p].key)].id
       IN  post' = [post EXCEPT ![p] =
                       IF view.sending = p
                       THEN [@ EXCEPT !.step = "answered", !.id = id, !.read = id \in read]
                       ELSE Over]
    /\ UNCHANGED <<log, read, clock, tab, view, event, faults>>

\* After the commit.  An event goes to a socket that is in the room.
Publish(p) ==
    /\ post[p].step = "stored"
    /\ post' = [post EXCEPT ![p] = IF view.sending = p THEN [@ EXCEPT !.step = "answered"] ELSE Over]
    /\ event' = (event \/ (p \in PeerPosts /\ view.socket # "off"))
    /\ UNCHANGED <<log, read, clock, tab, view, faults>>

\* Mutation of Shown: the answer replaces what the thread knows.
ShownReplacing(t, p) ==
    [t EXCEPT !.items = @ \cup {post[p].id},
              !.seen = IF post[p].read THEN @ \cup {post[p].id} ELSE @ \ {post[p].id}]

\* Mutation of Shown: the message sent becomes the cursor.
ShownAhead(t, p) ==
    [t EXCEPT !.items = @ \cup {post[p].id}, !.cursor = Max({@, post[p].id}),
              !.seen = IF post[p].read THEN @ \cup {post[p].id} ELSE @]

\* The thread with a message that was sent, as mergeMessages leaves it.  The
\* cursor stays: the message may be ahead of messages that are not loaded.
Shown(t, p) ==
    [t EXCEPT !.items = @ \cup {post[p].id},
              !.seen = IF post[p].read THEN @ \cup {post[p].id} ELSE @]

SendDone(p) ==
    /\ view.sending = p /\ post[p].step = "answered"
    /\ tab' = [Shown(tab, p) EXCEPT !.draft = @ + 1, !.pending = Nil]
    /\ view' = Flush([view EXCEPT !.sending = Nil], tab')
    /\ post' = [post EXCEPT ![p] = Over]
    /\ UNCHANGED <<log, read, clock, event, faults>>

\* No answer: the thread is reconciled before another attempt.
SendLost(p) ==
    /\ view.sending = p
    /\ IF post[p] = Over THEN UNCHANGED faults ELSE Fault
    /\ view' = Refresh([view EXCEPT !.sending = Nil, !.uncertain = TRUE, !.sync.fresh = FALSE], tab)
    /\ UNCHANGED <<database, tab, event>>

\* A 4xx: nothing was stored, and the draft is kept.
SendRefused(p) ==
    /\ view.sending = p /\ post[p].step = "sent" /\ Fault
    /\ post' = [post EXCEPT ![p] = Over]
    /\ view' = Flush([view EXCEPT !.sending = Nil], tab)
    /\ UNCHANGED <<log, read, clock, tab, event>>

\* The peer reads: the user's messages up to one of them get their readAt.
PeerRead ==
    /\ \E upTo \in Mine \ read : read' = read \cup {i \in Mine : i <= upTo}
    /\ event' = (event \/ view.socket # "off")
    /\ UNCHANGED <<log, post, clock, tab, view, faults>>

-----------------------------------------------------------------------------
(* Synchronizing *)

LatestPage ==
    /\ view.sync.step = "ask" /\ ~tab.loaded
    /\ LET page == LastPage(Ids)
       IN  view' = [view EXCEPT !.sync.step = "got", !.sync.after = Latest(page),
                                !.sync.low = IF page = Ids THEN 0 ELSE Min(page),
                                !.sync.ids = page, !.sync.seen = page \cap read]
    /\ UNCHANGED <<database, tab, event, faults>>

NewerThan(after, from) == {i \in Ids : IF from # 0 THEN i >= from ELSE i > after}

\* One page of the catch-up; the last one leaves nothing behind it.
NextPage ==
    /\ view.sync.step = "ask" /\ tab.loaded
    /\ LET rest == NewerThan(view.sync.after, view.sync.from)
           page == FirstPage(rest)
           next == IF page = {} THEN view.sync.after ELSE Max(page)
       IN  view' = [view EXCEPT !.sync.step = IF page = rest THEN "got" ELSE "ask",
                                !.sync.after = next, !.sync.from = 0,
                                !.sync.ids = @ \cup page, !.sync.seen = @ \cup (page \cap read)]
    /\ UNCHANGED <<database, tab, event, faults>>

Merged ==
    [tab EXCEPT !.items = @ \cup view.sync.ids, !.seen = @ \cup view.sync.seen,
                !.cursor = view.sync.after, !.loaded = TRUE,
                !.oldest = IF tab.loaded THEN @ ELSE view.sync.low]

Reconciled == [view EXCEPT !.uncertain = @ /\ ~view.sync.fresh]

\* The answer is shown.  The request ends here, unless something was received
\* since the last receipt and the user is looking at the end of the thread.
Merge ==
    /\ view.sync.step = "got" /\ ~view.sync.aborted
    /\ tab' = Merged
    /\ \/ view' = AfterSync(Reconciled, Merged, FALSE)
       \/ LET received == Merged.items \cap Theirs IN
          /\ received # {} /\ Max(received) # tab.readCursor
          /\ view' = [Reconciled EXCEPT !.sync = [NoSync EXCEPT !.step = "mark",
                                                   !.after = Max(received)]]
    /\ UNCHANGED <<database, event, faults>>

\* The statement of markMessagesRead; from is whether it changed a row.
ServerMark ==
    /\ view.sync.step = "mark"
    /\ LET unread == {i \in Theirs \ read : i <= view.sync.after}
       IN  /\ read' = read \cup unread
           /\ view' = [view EXCEPT !.sync.step = "marked",
                                   !.sync.from = IF unread = {} THEN 0 ELSE 1]
    /\ UNCHANGED <<log, post, clock, tab, event, faults>>

MarkDone ==
    /\ view.sync.step = "marked" /\ ~view.sync.aborted
    /\ LET known == {i \in tab.items \cap Theirs : i <= view.sync.after}
           next == [tab EXCEPT !.readCursor = view.sync.after,
                               !.seen = IF view.sync.from = 1 THEN @ \cup known ELSE @]
       IN  tab' = next /\ view' = AfterSync(view, next, FALSE)
    /\ UNCHANGED <<database, event, faults>>

\* An error, or an answer to a request that was given up.
SyncFailed ==
    /\ view.sync.step \notin {"idle", "older"}
    /\ IF view.sync.aborted THEN UNCHANGED faults ELSE Fault
    /\ view' = AfterSync(view, tab, TRUE)
    /\ UNCHANGED <<database, tab, event>>

LoadOlder ==
    /\ tab.oldest # 0 /\ view.sync = NoSync /\ view.sending = Nil /\ ~view.hidden
    /\ view' = [view EXCEPT !.sync.step = "older"]
    /\ UNCHANGED <<database, tab, event, faults>>

\* The read and its answer: only this request changes the first message shown.
OlderDone ==
    /\ view.sync.step = "older"
    /\ LET rest == {i \in Ids : i < tab.oldest}
           page == LastPage(rest)
           next == [tab EXCEPT !.items = @ \cup page, !.seen = @ \cup (page \cap read),
                               !.oldest = IF page = rest THEN 0 ELSE Min(page)]
       IN  /\ tab' = IF view.sync.aborted THEN tab ELSE next
           /\ view' = Flush([view EXCEPT !.sync = NoSync], tab')
    /\ UNCHANGED <<database, event, faults>>

OlderFailed ==
    /\ view.sync.step = "older" /\ Fault
    /\ view' = Flush([view EXCEPT !.sync = NoSync], tab)
    /\ UNCHANGED <<database, tab, event>>

PollTick ==
    /\ view.poll /\ view.sync = NoSync /\ view.sending = Nil
    /\ view' = StartSync(view, tab)
    /\ UNCHANGED <<database, tab, event, faults>>

-----------------------------------------------------------------------------
(* The socket and the page *)

JoinRoom ==
    /\ view.socket = "off" /\ ~view.hidden
    /\ view' = [view EXCEPT !.socket = "room"]
    /\ UNCHANGED <<database, tab, event, faults>>

\* The acknowledgement: polling stops, and what came before it is read.
Joined ==
    /\ view.socket = "room"
    /\ view' = Refresh([view EXCEPT !.socket = "on", !.poll = FALSE], tab)
    /\ UNCHANGED <<database, tab, event, faults>>

EventArrives ==
    /\ event /\ event' = FALSE
    /\ view' = IF view.socket = "on" THEN Refresh(view, tab) ELSE view
    /\ UNCHANGED <<database, tab, faults>>

Disconnected(v) == [v EXCEPT !.socket = "off", !.poll = ~v.hidden]

\* The connection ends, with the events on it; a new access token ends it too.
SocketLost ==
    /\ view.socket # "off" /\ Fault
    /\ view' = Disconnected(view) /\ event' = FALSE
    /\ UNCHANGED <<database, tab>>

\* The API process ends: its requests, and the sockets connected to it.
Crash ==
    /\ Fault
    /\ post' = [p \in Posts |-> IF post[p].step \in {"sent", "open", "stored"}
                                THEN Over ELSE post[p]]
    /\ view' = Disconnected(view) /\ event' = FALSE
    /\ UNCHANGED <<log, read, clock, tab>>

\* A hidden page closes its socket, stops its timer and aborts its request.
Hide ==
    /\ ~view.hidden /\ Fault
    /\ view' = [view EXCEPT !.hidden = TRUE, !.poll = FALSE, !.socket = "off",
                            !.sync.aborted = view.sync # NoSync]
    /\ event' = FALSE
    /\ UNCHANGED <<database, tab>>

Show ==
    /\ view.hidden
    /\ view' = [Refresh([view EXCEPT !.hidden = FALSE], tab) EXCEPT !.poll = TRUE]
    /\ UNCHANGED <<database, tab, event, faults>>

\* The thread is closed and opened again; requests it sent may still arrive.
Reopen ==
    /\ ~view.hidden /\ Fault
    /\ view' = Opened(tab) /\ event' = FALSE
    /\ UNCHANGED <<database, tab>>

\* The page is reloaded: the thread's memory is gone, with the draft in it.
Reload ==
    /\ tab.draft <= MaxDrafts
    /\ tab' = Unloaded(tab.draft + 1)
    /\ view' = Opened(tab') /\ event' = FALSE
    /\ UNCHANGED <<database, faults>>

-----------------------------------------------------------------------------
Answer(p) == Receive(p) \/ Store(p) \/ Replay(p) \/ Publish(p)
SendEnd(p) == SendDone(p) \/ SendLost(p)
Sync == LatestPage \/ NextPage \/ Merge \/ ServerMark \/ MarkDone \/ OlderDone
        \/ (view.sync.aborted /\ SyncFailed)

Next ==
    \/ \E p \in Posts : \/ PeerSend(p) \/ SendBegin(p) \/ Receive(p) \/ Store(p)
                        \/ Replay(p) \/ Publish(p) \/ SendDone(p) \/ SendLost(p)
                        \/ SendRefused(p)
    \/ EditDraft \/ PeerRead
    \/ LatestPage \/ NextPage \/ Merge \/ ServerMark \/ MarkDone \/ SyncFailed
    \/ LoadOlder \/ OlderDone \/ OlderFailed \/ PollTick
    \/ JoinRoom \/ Joined \/ EventArrives \/ SocketLost \/ Crash \/ Hide \/ Show
    \/ Reopen \/ Reload

Spec == Init /\ [][Next]_vars

\* Timers fire, requests end, a hidden page is shown again, and faults are
\* finite.  Nobody has to send, to read, or to load older messages.
Fairness ==
    /\ WF_vars(\E p \in Posts : Answer(p)) /\ WF_vars(\E p \in MyPosts : SendEnd(p))
    /\ WF_vars(Sync) /\ WF_vars(PollTick) /\ WF_vars(EventArrives) /\ WF_vars(Show)

FairSpec == Spec /\ Fairness

-----------------------------------------------------------------------------
(* Properties *)

\* A text the user meant to send once is stored once, however often the
\* request was retried, answered late, or sent again from a reopened thread
\* (sendMessage and the unique key; pendingSend in conversation-thread.tsx).
OneMessagePerDraft ==
    \A k, l \in DOMAIN log :
        (log[k].key \in MyPosts /\ log[l].key \in MyPosts /\ log[k].draft = log[l].draft) => k = l

\* A receipt shown is true, and is never taken back by an answer that is older
\* than it (mergeMessages and the receipt in synchronize).
ReceiptsAreTrue ==
    [][tab'.seen \subseteq read' /\ (tab.seen \subseteq tab'.seen \/ ~tab'.loaded)]_vars

Before(k) == {log[j].id : j \in 1..k - 1}
InOrder(k) == \A id \in Before(k) : id < log[k].id
\* Shown, or on a page of older messages that the user can ask for.
Loaded(id) == id \in tab.items \/ id < tab.oldest

\* Catch-up never steps over a message that was committed in the order of the
\* times: what is behind the cursor is shown (readConversationHistory and the
\* cursor in synchronize).
NothingSkipped ==
    \A k \in DOMAIN log : InOrder(k) /\ log[k].id <= tab.cursor => Loaded(log[k].id)

Arrived(key) == tab.loaded /\ Stored(key) /\ Loaded(log[RowOf(key)].id)

\* Whatever the peer sent is shown in the end, by the poll or after an event,
\* in spite of lost requests, lost connections, restarts and hidden pages
\* (synchronize, requestRefresh, poll and conversation-realtime.ts).
MessagesArrive ==
    []<>(\A p \in PeerPosts : Stored(p) /\ InOrder(RowOf(p)) => Arrived(p))

\* The same whatever the order of the commits: "an acknowledged send cannot
\* skip a concurrent incoming message" (apps/api/README.md:281).
NoMessageSkipped == []<>(\A p \in PeerPosts : Stored(p) => Arrived(p))
=============================================================================

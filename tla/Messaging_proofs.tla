-------------------------- MODULE Messaging_proofs --------------------------
(***************************************************************************)
(* One conversation, for any number of messages, pages of any size and any *)
(* bound on drafts and faults: a text is stored once, receipts are true,   *)
(* and the cursor steps over nothing that was committed in order.          *)
(***************************************************************************)
EXTENDS Messaging, FiniteSetTheorems, TLAPS

LEMMA NatMin ==
    ASSUME NEW S, S \subseteq Nat, S # {}
    PROVE  Min(S) \in S /\ \A y \in S : Min(S) <= y
<1> DEFINE Less == {ss \in Nat \X Nat : ss[1] < ss[2]}
<1>1. IsWellFoundedOn(Less, Nat)
    BY NatLessThanWellFounded DEF OpToRel
<1>2. PICK x \in S : \A y \in S : <<y, x>> \notin Less
    BY <1>1, WFMin
<1>3. ASSUME NEW y \in S, y < x
      PROVE  FALSE
    <2>1. <<y, x>> \in Nat \X Nat
        OBVIOUS
    <2>2. <<y, x>> \in Less
        BY <1>3, <2>1
    <2>3. QED
        BY <1>2, <2>2
<1>4. \A y \in S : x <= y
    BY <1>3
<1>5. QED
    BY <1>4 DEF Min

LEMMA NatMax ==
    ASSUME NEW S, S \subseteq Nat, S # {}, NEW n \in Nat, \A y \in S : y <= n
    PROVE  Max(S) \in S /\ \A y \in S : y <= Max(S)
<1> DEFINE D == {d \in 0..n : n - d \in S}
<1>1. D # {} /\ D \subseteq Nat
    <2>1. PICK y \in S : TRUE
        OBVIOUS
    <2>2. n - y \in D
        BY <2>1
    <2>3. QED
        BY <2>2
<1>2. PICK d \in D : \A e \in D : d <= e
    BY <1>1, NatMin
<1>3. \A y \in S : y <= n - d
    <2> SUFFICES ASSUME NEW y \in S PROVE y <= n - d
        OBVIOUS
    <2>1. n - y \in D /\ n - y \in 0..n /\ n - (n - y) = y
        OBVIOUS
    <2>2. d <= n - y /\ y \in Nat
        BY <1>2, <2>1
    <2>3. QED
        BY <2>2
<1>4. QED
    BY <1>2, <1>3 DEF Max

-----------------------------------------------------------------------------
(* Positions and pages *)

LEMMA PostsFinite == IsFiniteSet(Posts) /\ Cardinality(Posts) \in Nat
BY MessagingAssumption, FS_CardinalityType

LEMMA PositionsNat ==
    /\ Positions \subseteq Nat
    /\ 0 \in Positions
    /\ \A S \in SUBSET Positions : IsFiniteSet(S)
<1>1. IsFiniteSet(Positions)
    BY PostsFinite, FS_Interval DEF Positions
<1>2. Positions \subseteq Nat /\ 0 \in Positions
    BY PostsFinite DEF Positions
<1>3. \A S \in SUBSET Positions : IsFiniteSet(S)
    BY <1>1, FS_Subset
<1>4. QED
    BY <1>2, <1>3

LEMMA PositionsMin ==
    ASSUME NEW S \in SUBSET Positions, S # {}
    PROVE  /\ Min(S) \in S
           /\ \A i \in S : Min(S) <= i
BY NatMin, PositionsNat

LEMMA PositionsMax ==
    ASSUME NEW S \in SUBSET Positions, S # {}
    PROVE  /\ Max(S) \in S
           /\ \A i \in S : i <= Max(S)
<1>1. Cardinality(Posts) \in Nat /\ \A i \in S : i <= Cardinality(Posts)
    BY PostsFinite DEF Positions
<1>2. QED
    BY <1>1, NatMax, PositionsNat

\* What comes before a position of the first page is on it.
LEMMA FirstPagePrefix ==
    ASSUME NEW S \in SUBSET Positions, NEW i \in FirstPage(S), NEW j \in S, j <= i
    PROVE  j \in FirstPage(S)
<1> DEFINE below(x) == {k \in S : k < x}
<1>1. i \in S /\ i \in Nat /\ j \in Nat /\ S \subseteq Nat
    BY PositionsNat DEF FirstPage
<1>2. below(j) \in SUBSET below(i)
    <2>1. ASSUME NEW k \in S, k < j
          PROVE  k < i
        <3>1. k \in Nat
            BY <1>1
        <3>2. QED
            BY <1>1, <2>1, <3>1
    <2>2. QED
        BY <2>1
<1>f. IsFiniteSet(below(i)) /\ IsFiniteSet(below(j))
    <2>1. below(i) \in SUBSET Positions /\ below(j) \in SUBSET Positions
        OBVIOUS
    <2>2. QED
        BY <2>1, PositionsNat
<1>3. /\ Cardinality(below(j)) <= Cardinality(below(i))
      /\ Cardinality(below(j)) \in Nat /\ Cardinality(below(i)) \in Nat
    BY <1>2, <1>f, FS_Subset, FS_CardinalityType
<1>4. Cardinality(below(i)) < PageSize
    BY DEF FirstPage
<1> HIDE DEF below
<1>5. Cardinality(below(j)) < PageSize
    BY <1>3, <1>4, MessagingAssumption
<1>6. QED
    BY <1>5 DEF FirstPage, below

\* What comes after a position of the last page is on it.
LEMMA LastPageSuffix ==
    ASSUME NEW S \in SUBSET Positions, NEW i \in LastPage(S), NEW j \in S, i <= j
    PROVE  j \in LastPage(S)
<1> DEFINE above(x) == {k \in S : k > x}
<1>1. i \in S /\ i \in Nat /\ j \in Nat /\ S \subseteq Nat
    BY PositionsNat DEF LastPage
<1>2. above(j) \in SUBSET above(i)
    <2>1. ASSUME NEW k \in S, k > j
          PROVE  k > i
        <3>1. k \in Nat
            BY <1>1
        <3>2. QED
            BY <1>1, <2>1, <3>1
    <2>2. QED
        BY <2>1
<1>f. IsFiniteSet(above(i)) /\ IsFiniteSet(above(j))
    <2>1. above(i) \in SUBSET Positions /\ above(j) \in SUBSET Positions
        OBVIOUS
    <2>2. QED
        BY <2>1, PositionsNat
<1>3. /\ Cardinality(above(j)) <= Cardinality(above(i))
      /\ Cardinality(above(j)) \in Nat /\ Cardinality(above(i)) \in Nat
    BY <1>2, <1>f, FS_Subset, FS_CardinalityType
<1>4. Cardinality(above(i)) < PageSize
    BY DEF LastPage
<1> HIDE DEF above
<1>5. Cardinality(above(j)) < PageSize
    BY <1>3, <1>4, MessagingAssumption
<1>6. QED
    BY <1>5 DEF LastPage, above

\* A page of something is not empty.
LEMMA LastPageNonempty ==
    ASSUME NEW S \in SUBSET Positions, S # {}
    PROVE  LastPage(S) # {}
<1>1. Max(S) \in S /\ \A i \in S : i <= Max(S)
    BY PositionsMax
<1>2. {k \in S : k > Max(S)} = {}
    <2>1. S \subseteq Nat
        BY PositionsNat
    <2>2. ASSUME NEW k \in S, k > Max(S)
          PROVE  FALSE
        <3>1. k \in Nat /\ Max(S) \in Nat /\ k <= Max(S)
            BY <1>1, <2>1
        <3>2. QED
            BY <2>2, <3>1
    <2>3. QED
        BY <2>2
<1>3. Cardinality({k \in S : k > Max(S)}) < PageSize
    BY <1>2, FS_EmptySet, MessagingAssumption
<1>4. QED
    BY <1>1, <1>3 DEF LastPage

-----------------------------------------------------------------------------
(* Types *)

RowRecord == [id : Positions, key : Posts, draft : 0..MaxDrafts]
PostRecord == [step : {"new", "sent", "open", "stored", "answered", "gone"},
               key : Posts \cup {Nil}, draft : 0..MaxDrafts, id : Positions, read : BOOLEAN]
Sync0 == [step : {"idle", "ask", "got", "mark", "marked", "older"},
          after : Positions, from : Positions, low : Positions,
          ids : SUBSET Positions, seen : SUBSET Positions,
          fresh : BOOLEAN, aborted : BOOLEAN]
ViewRecord ==
    [sync : Sync0, sending : MyPosts \cup {Nil}, uncertain : BOOLEAN, queued : BOOLEAN,
     poll : BOOLEAN, hidden : BOOLEAN, socket : {"off", "room", "on"}]
TabRecord ==
    [items : SUBSET Positions, seen : SUBSET Positions, cursor : Positions,
     oldest : Positions, readCursor : Positions, loaded : BOOLEAN,
     draft : 1..MaxDrafts + 1, pending : {Nil} \cup (MyPosts \X (1..MaxDrafts))]

\* No request for the newest messages is under way.
Resting(s) == s.step \in {"idle", "older"} /\ s.ids = {} /\ s.seen = {}
\* A request that begins at the cursor, or at a receipt before it.
StartedFrom(s, t) ==
    /\ s.step = "ask" /\ s.ids = {} /\ s.seen = {} /\ s.after = t.cursor
    /\ s.from \in Nat /\ s.from <= t.cursor

LEMMA NoSyncType ==
    /\ NoSync \in Sync0
    /\ Resting(NoSync)
BY PositionsNat DEF NoSync, Sync0, Resting

LEMMA ReceiptCursorType ==
    ASSUME NEW t \in TabRecord
    PROVE  ReceiptCursor(t) \in Positions /\ ReceiptCursor(t) <= t.cursor
<1> DEFINE unread == {i \in (t.items \cap Mine) \ t.seen : i <= t.cursor}
<1>1. unread \in SUBSET Positions /\ t.cursor \in Positions /\ t.cursor \in Nat
    BY PositionsNat DEF TabRecord
<1>2. CASE unread # {}
    <2>1. Min(unread) \in unread
        BY <1>1, <1>2, PositionsMin
    <2>2. QED
        BY <1>1, <2>1, PositionsNat DEF ReceiptCursor
<1>3. CASE unread = {}
    BY <1>1, <1>3, PositionsNat DEF ReceiptCursor
<1>4. QED
    BY <1>2, <1>3

\* What the thread's control does to the view: a request starts at the cursor,
\* or ends, and the message being sent stays the same.
LEMMA StartSyncEffect ==
    ASSUME NEW v \in ViewRecord, NEW t \in TabRecord
    PROVE  /\ StartSync(v, t) \in ViewRecord
           /\ StartedFrom(StartSync(v, t).sync, t)
           /\ StartSync(v, t).sending = v.sending
<1> DEFINE from == IF t.loaded THEN ReceiptCursor(t) ELSE 0
           s == [NoSync EXCEPT !.step = "ask", !.fresh = TRUE, !.after = t.cursor,
                               !.from = from]
<1>1. /\ t.cursor \in Positions /\ t.cursor \in Nat /\ from \in Positions
      /\ from \in Nat /\ from <= t.cursor
    <2>1. t.cursor \in Positions /\ t.cursor \in Nat
        BY PositionsNat DEF TabRecord
    <2>2. ReceiptCursor(t) \in Positions /\ ReceiptCursor(t) <= t.cursor
        BY ReceiptCursorType
    <2>3. from \in {0, ReceiptCursor(t)}
        OBVIOUS
    <2> HIDE DEF from, s
    <2>4. QED
        BY <2>1, <2>2, <2>3, PositionsNat
<1>2. StartSync(v, t) = [v EXCEPT !.queued = FALSE, !.sync = s]
    BY DEF StartSync
<1> HIDE DEF from
<1>3. s \in Sync0
    BY <1>1, NoSyncType DEF Sync0
<1>4. StartedFrom(s, t)
    BY <1>1 DEF StartedFrom, NoSync
<1> HIDE DEF s
<1>5. QED
    BY <1>2, <1>3, <1>4 DEF ViewRecord

LEMMA RefreshEffect ==
    ASSUME NEW v \in ViewRecord, NEW t \in TabRecord
    PROVE  /\ Refresh(v, t) \in ViewRecord
           /\ Refresh(v, t).sync = v.sync \/ StartedFrom(Refresh(v, t).sync, t)
           /\ Refresh(v, t).sending = v.sending
<1> DEFINE q == [v EXCEPT !.queued = TRUE]
<1>1. q \in ViewRecord /\ q.sync = v.sync /\ q.sending = v.sending
    BY DEF ViewRecord
<1>2. Refresh(v, t) \in {v, q, StartSync(v, t)}
    BY DEF Refresh
<1> HIDE DEF q
<1>3. QED
    BY <1>1, <1>2, StartSyncEffect

LEMMA FlushEffect ==
    ASSUME NEW v \in ViewRecord, NEW t \in TabRecord
    PROVE  /\ Flush(v, t) \in ViewRecord
           /\ Flush(v, t).sync = v.sync \/ StartedFrom(Flush(v, t).sync, t)
           /\ Flush(v, t).sending = v.sending
<1>1. Flush(v, t) \in {v, Refresh(v, t)}
    BY DEF Flush
<1>2. QED
    BY <1>1, RefreshEffect

LEMMA AfterSyncEffect ==
    ASSUME NEW v \in ViewRecord, NEW t \in TabRecord, NEW retry \in BOOLEAN
    PROVE  /\ AfterSync(v, t, retry) \in ViewRecord
           /\ \/ Resting(AfterSync(v, t, retry).sync)
              \/ StartedFrom(AfterSync(v, t, retry).sync, t)
           /\ AfterSync(v, t, retry).sending = v.sending
<1> DEFINE ended == [v EXCEPT !.sync = NoSync,
                              !.poll = ~v.hidden /\ (v.socket # "on" \/ retry)]
<1>1. (~v.hidden /\ (v.socket # "on" \/ retry)) \in BOOLEAN
    OBVIOUS
<1>2. ended \in ViewRecord /\ ended.sync = NoSync /\ ended.sending = v.sending
    BY <1>1, NoSyncType DEF ViewRecord
<1>3. AfterSync(v, t, retry) \in {ended, Flush(ended, t)}
    BY DEF AfterSync
<1> HIDE DEF ended
<1>4. QED
    BY <1>2, <1>3, FlushEffect, NoSyncType

LEMMA OpenedEffect ==
    ASSUME NEW t \in TabRecord
    PROVE  /\ Opened(t) \in ViewRecord
           /\ StartedFrom(Opened(t).sync, t)
           /\ Opened(t).sending = Nil
<1> DEFINE v == [sync |-> NoSync, sending |-> Nil, uncertain |-> FALSE, queued |-> FALSE,
                 poll |-> TRUE, hidden |-> FALSE, socket |-> "off"]
<1>1. v \in ViewRecord /\ v.sending = Nil
    BY NoSyncType DEF ViewRecord
<1>2. Opened(t) = StartSync(v, t)
    BY DEF Opened
<1> HIDE DEF v
<1>3. QED
    BY <1>1, <1>2, StartSyncEffect

LEMMA UnloadedType ==
    ASSUME NEW d \in 1..MaxDrafts + 1
    PROVE  Unloaded(d) \in TabRecord
BY PositionsNat DEF Unloaded, TabRecord

-----------------------------------------------------------------------------
(* The type invariant: a position is left for each request that still has  *)
(* to draw one, and a message is sent only while a draft is left.          *)

Drawn == clock <= Cardinality({p \in Posts : post[p].step \notin {"new", "sent"}})
SendingDraft == view.sending # Nil => tab.draft <= MaxDrafts
TypeInv == TypeOK /\ Drawn /\ SendingDraft

LEMMA TypeParts ==
    TypeOK <=> /\ log \in Seq(RowRecord) /\ read \subseteq Positions
               /\ post \in [Posts -> PostRecord] /\ clock \in Positions
               /\ tab \in TabRecord /\ view \in ViewRecord
               /\ event \in BOOLEAN /\ faults \in 0..MaxFaults
BY DEF TypeOK, RowRecord, PostRecord, TabRecord, ViewRecord, Sync0

LEMMA TypePartsNext ==
    TypeOK' <=> /\ log' \in Seq(RowRecord) /\ read' \subseteq Positions
                /\ post' \in [Posts -> PostRecord] /\ clock' \in Positions
                /\ tab' \in TabRecord /\ view' \in ViewRecord
                /\ event' \in BOOLEAN /\ faults' \in 0..MaxFaults
BY DEF TypeOK, RowRecord, PostRecord, TabRecord, ViewRecord, Sync0

LEMMA IdsType ==
    ASSUME TypeOK
    PROVE  /\ Ids \in SUBSET Positions /\ Mine \subseteq Ids /\ Theirs \subseteq Ids
           /\ \A k \in DOMAIN log : log[k] \in RowRecord /\ log[k].id \in Ids
<1>1. \A k \in DOMAIN log : log[k] \in RowRecord
    BY TypeParts
<1>2. \A k \in DOMAIN log : log[k].id \in Positions
    BY <1>1 DEF RowRecord
<1>3. Ids \in SUBSET Positions
    BY <1>2 DEF Ids
<1>4. Mine \subseteq Ids /\ Theirs \subseteq Ids
    BY DEF Ids, Mine, Theirs
<1>5. QED
    BY <1>1, <1>3, <1>4 DEF Ids

LEMMA RowOfStored ==
    ASSUME NEW key, Stored(key)
    PROVE  RowOf(key) \in DOMAIN log /\ log[RowOf(key)].key = key
BY DEF Stored, RowOf

\* A request that has not drawn its position can draw one.
LEMMA ClockFits ==
    ASSUME TypeOK, Drawn, NEW p \in Posts, post[p].step \in {"new", "sent"}
    PROVE  clock + 1 \in Positions
<1> DEFINE B == {q \in Posts : post[q].step \notin {"new", "sent"}}
<1>1. B \in SUBSET (Posts \ {p}) /\ IsFiniteSet(Posts)
    BY PostsFinite
<1>2. /\ IsFiniteSet(Posts \ {p}) /\ Cardinality(Posts \ {p}) = Cardinality(Posts) - 1
    BY PostsFinite, FS_RemoveElement
<1>3. IsFiniteSet(B) /\ Cardinality(B) <= Cardinality(Posts \ {p})
    BY <1>1, <1>2, FS_Subset
<1>4. Cardinality(B) \in Nat /\ clock <= Cardinality(B)
    BY <1>3, FS_CardinalityType DEF Drawn
<1> HIDE DEF B
<1>5. clock \in 0..Cardinality(Posts)
    BY TypeParts DEF Positions
<1>6. clock + 1 <= Cardinality(Posts)
    BY <1>2, <1>3, <1>4, <1>5, PostsFinite
<1>7. QED
    BY <1>5, <1>6, PostsFinite DEF Positions

-----------------------------------------------------------------------------
(* What a step does to the database *)

Changes(p, r) == r \in PostRecord /\ post' = [post EXCEPT ![p] = r]

Draws(p) ==
    /\ post[p].step \in {"new", "sent"}
    /\ clock' = clock + 1 /\ UNCHANGED <<log, read>>
    /\ \E r \in PostRecord :
        /\ Changes(p, r) /\ r.step = "open" /\ r.id = clock + 1 /\ (r.read => post[p].read)
        /\ IF post[p].step = "new" THEN p \in PeerPosts /\ r.key = p
           ELSE r.key = post[p].key /\ r.draft = post[p].draft

Key(p) == IF tab.pending # Nil /\ tab.pending[2] = tab.draft THEN tab.pending[1] ELSE p

Sends(p) ==
    /\ p \in MyPosts /\ post[p].step = "new" /\ UNCHANGED <<log, read, clock>>
    /\ tab.draft \in 1..MaxDrafts /\ Key(p) \in MyPosts
    /\ tab'.pending = <<Key(p), tab.draft>> /\ tab'.draft = tab.draft
    /\ \E r \in PostRecord :
        Changes(p, r) /\ r.step = "sent" /\ r.key = Key(p) /\ r.draft = tab.draft /\ ~r.read

Stores(p) ==
    /\ post[p].step = "open" /\ ~Stored(post[p].key) /\ UNCHANGED <<read, clock>>
    /\ log' = Append(log, [id |-> post[p].id, key |-> post[p].key, draft |-> post[p].draft])
    /\ \E r \in PostRecord :
        /\ Changes(p, r) /\ r.step = "stored" /\ r.key = post[p].key
        /\ r.draft = post[p].draft /\ r.id = post[p].id /\ r.read = post[p].read

Answers(p) ==
    /\ UNCHANGED <<log, read, clock>>
    /\ \E r \in PostRecord :
        /\ Changes(p, r) /\ r.step = "answered" /\ r.key = post[p].key /\ r.draft = post[p].draft
        /\ \/ /\ post[p].step = "stored"
              /\ r.id = post[p].id /\ r.read = post[p].read
           \/ /\ post[p].step = "open" /\ Stored(post[p].key)
              /\ r.id = log[RowOf(post[p].key)].id /\ (r.read => r.id \in read)

\* Requests end, and none that has not begun.
Closes ==
    /\ UNCHANGED <<log, read, clock>>
    /\ \E S \in SUBSET {q \in Posts : post[q].step # "new"} :
        post' = [q \in Posts |-> IF q \in S THEN Over ELSE post[q]]

Reads ==
    /\ UNCHANGED <<log, post, clock>>
    /\ read \subseteq read' /\ read' \subseteq read \cup Ids

DatabaseStep ==
    \/ UNCHANGED database
    \/ \E p \in Posts : Draws(p) \/ Sends(p) \/ Stores(p) \/ Answers(p)
    \/ Closes \/ Reads

\* What it does to the draft: a new one has no attempt yet.
DraftStep ==
    \/ \E p \in Posts : Sends(p)
    \/ tab'.draft = tab.draft /\ tab'.pending = tab.pending
    \/ tab.draft <= MaxDrafts /\ tab'.draft = tab.draft + 1

-----------------------------------------------------------------------------
(* What a step does to the thread *)

SameMemory ==
    /\ tab'.items = tab.items /\ tab'.seen = tab.seen /\ tab'.cursor = tab.cursor
    /\ tab'.oldest = tab.oldest /\ tab'.loaded = tab.loaded

SameRequest ==
    /\ view'.sync.step = view.sync.step /\ view'.sync.after = view.sync.after
    /\ view'.sync.from = view.sync.from /\ view'.sync.low = view.sync.low
    /\ view'.sync.ids = view.sync.ids /\ view'.sync.seen = view.sync.seen

Ends == Resting(view'.sync) \/ StartedFrom(view'.sync, tab')
GoesOn == SameRequest \/ Ends

Idles ==
    /\ SameMemory /\ GoesOn
    /\ log' = log \/ \E p \in Posts : Stores(p)

ShowsSent(p) ==
    /\ UNCHANGED <<log, read>>
    /\ p \in MyPosts /\ post[p].step = "answered"
    /\ tab'.items = tab.items \cup {post[p].id}
    /\ tab'.seen = IF post[p].read THEN tab.seen \cup {post[p].id} ELSE tab.seen
    /\ tab'.cursor = tab.cursor /\ tab'.oldest = tab.oldest /\ tab'.loaded = tab.loaded
    /\ GoesOn

GetsLatest ==
    /\ UNCHANGED <<log, read, tab>> /\ ~tab.loaded
    /\ view'.sync.step = "got" /\ view'.sync.after = Latest(LastPage(Ids))
    /\ view'.sync.low = IF LastPage(Ids) = Ids THEN 0 ELSE Min(LastPage(Ids))
    /\ view'.sync.ids = LastPage(Ids) /\ view'.sync.seen = LastPage(Ids) \cap read

GetsNext ==
    /\ UNCHANGED <<log, read, tab>> /\ tab.loaded
    /\ view.sync.step = "ask" /\ view'.sync.step \in {"ask", "got"}
    /\ LET page == FirstPage(NewerThan(view.sync.after, view.sync.from))
       IN  /\ view'.sync.after = IF page = {} THEN view.sync.after ELSE Max(page)
           /\ view'.sync.ids = view.sync.ids \cup page
           /\ view'.sync.seen = view.sync.seen \cup (page \cap read)
    /\ view'.sync.from = 0

Merges ==
    /\ UNCHANGED <<log, read>>
    /\ view.sync.step = "got"
    /\ tab'.items = tab.items \cup view.sync.ids /\ tab'.seen = tab.seen \cup view.sync.seen
    /\ tab'.cursor = view.sync.after /\ tab'.loaded = TRUE
    /\ tab'.oldest = IF tab.loaded THEN tab.oldest ELSE view.sync.low
    /\ \/ Ends
       \/ view'.sync.step = "mark" /\ view'.sync.ids = {} /\ view'.sync.seen = {}

Marks ==
    /\ UNCHANGED <<log, tab>>
    /\ read' = read \cup {i \in Theirs \ read : i <= view.sync.after}
    /\ view'.sync.step = "marked" /\ view'.sync.after = view.sync.after
    /\ view'.sync.ids = view.sync.ids /\ view'.sync.seen = view.sync.seen

SeesMark ==
    /\ UNCHANGED <<log, read>>
    /\ view.sync.step = "marked"
    /\ tab'.seen = IF view.sync.from = 1
                   THEN tab.seen \cup {i \in tab.items \cap Theirs : i <= view.sync.after}
                   ELSE tab.seen
    /\ tab'.items = tab.items /\ tab'.cursor = tab.cursor
    /\ tab'.oldest = tab.oldest /\ tab'.loaded = tab.loaded
    /\ Ends

GetsOlder ==
    /\ UNCHANGED <<log, read>>
    /\ LET rest == {i \in Ids : i < tab.oldest}
           page == LastPage(rest)
       IN  /\ tab'.items = tab.items \cup page /\ tab'.seen = tab.seen \cup (page \cap read)
           /\ tab'.oldest = IF page = rest THEN 0 ELSE Min(page)
    /\ tab'.cursor = tab.cursor /\ tab'.loaded = tab.loaded
    /\ Ends

Reloads ==
    /\ UNCHANGED <<log, read>>
    /\ tab'.items = {} /\ tab'.seen = {} /\ tab'.cursor = 0 /\ ~tab'.loaded
    /\ StartedFrom(view'.sync, tab')

ThreadStep ==
    \/ Idles \/ \E p \in Posts : ShowsSent(p)
    \/ GetsLatest \/ GetsNext \/ Merges \/ Marks \/ SeesMark \/ GetsOlder \/ Reloads

Effects ==
    /\ tab' \in TabRecord /\ view' \in ViewRecord
    /\ event' \in BOOLEAN /\ faults' \in 0..MaxFaults
    /\ DatabaseStep /\ DraftStep /\ ThreadStep /\ SendingDraft'

LEMMA PostTypes ==
    /\ NoPost \in PostRecord /\ NoPost.step = "new" /\ ~NoPost.read
    /\ Over \in PostRecord /\ Over.step = "gone" /\ ~Over.read
<1>1. 0 \in 0..MaxDrafts
    BY MessagingAssumption
<1>2. NoPost \in PostRecord /\ NoPost.step = "new" /\ ~NoPost.read
    BY <1>1, PositionsNat DEF NoPost, PostRecord
<1>3. QED
    BY <1>2 DEF Over, PostRecord

\* A step that leaves the messages, the requests and the draft alone.
LEMMA QuietStep ==
    ASSUME TypeInv, view' \in ViewRecord, tab' = tab, SameRequest \/ Ends,
           view'.sending \in {view.sending, Nil},
           UNCHANGED database \/ Closes,
           event' \in BOOLEAN, faults' \in 0..MaxFaults
    PROVE  Effects
<1>1. tab' \in TabRecord /\ SameMemory /\ tab'.draft = tab.draft /\ tab'.pending = tab.pending
    BY TypeParts DEF TypeInv, SameMemory
<1>2. SendingDraft'
    BY <1>1 DEF TypeInv, SendingDraft
<1>3. log' = log
    BY DEF database, Closes
<1>4. DatabaseStep /\ DraftStep
    BY <1>1 DEF DatabaseStep, DraftStep
<1>5. ThreadStep
    BY <1>1, <1>3 DEF ThreadStep, Idles, GoesOn
<1>6. QED
    BY <1>1, <1>2, <1>4, <1>5 DEF Effects

LEMMA FaultType ==
    ASSUME TypeInv, Fault
    PROVE  faults' \in 0..MaxFaults
BY MessagingAssumption, TypeParts DEF Fault, TypeInv

-----------------------------------------------------------------------------
(* Every step is one of these *)

LEMMA SendingEffects ==
    ASSUME TypeInv, NEW p \in Posts,
           PeerSend(p) \/ SendBegin(p) \/ Receive(p) \/ Store(p) \/ Replay(p) \/ Publish(p)
    PROVE  Effects
<1> USE DEF TypeInv
<1>0. /\ tab \in TabRecord /\ view \in ViewRecord /\ event \in BOOLEAN
      /\ faults \in 0..MaxFaults /\ post \in [Posts -> PostRecord] /\ post[p] \in PostRecord
    BY TypeParts
<1>q. ASSUME UNCHANGED <<tab, view, faults>>, event' \in BOOLEAN, DatabaseStep,
             log' = log \/ \E q \in Posts : Stores(q)
      PROVE  Effects
    <2>1. SendingDraft' /\ SameMemory /\ SameRequest /\ DraftStep
        BY <1>q DEF SendingDraft, SameMemory, SameRequest, DraftStep
    <2>2. QED
        BY <1>0, <1>q, <2>1 DEF Effects, ThreadStep, Idles, GoesOn
<1>1. CASE PeerSend(p)
    <2> DEFINE r == [NoPost EXCEPT !.step = "open", !.key = p, !.id = clock + 1]
    <2>1. clock + 1 \in Positions
        BY <1>1, ClockFits DEF PeerSend
    <2>2. r \in PostRecord /\ r.step = "open" /\ r.key = p /\ r.id = clock + 1 /\ ~r.read
        BY <2>1, PostTypes DEF PostRecord
    <2>3. post' = [post EXCEPT ![p] = r]
        BY <1>1 DEF PeerSend
    <2> HIDE DEF r
    <2>4. Draws(p)
        BY <1>1, <2>2, <2>3 DEF PeerSend, Draws, Changes
    <2>5. QED
        BY <1>0, <1>1, <1>q, <2>4 DEF PeerSend, DatabaseStep
<1>2. CASE SendBegin(p)
    <2> DEFINE r == [NoPost EXCEPT !.step = "sent", !.key = Key(p), !.draft = tab.draft]
    <2>1. tab.draft \in 1..MaxDrafts + 1 /\ tab.draft <= MaxDrafts
        BY <1>0, <1>2 DEF SendBegin, CanSend, TabRecord
    <2>2. tab.draft \in 1..MaxDrafts /\ tab.draft \in 0..MaxDrafts
        BY <2>1, MessagingAssumption
    <2>3. Key(p) \in MyPosts
        <3>1. tab.pending # Nil => tab.pending \in MyPosts \X (1..MaxDrafts)
            BY <1>0 DEF TabRecord
        <3>2. tab.pending # Nil => tab.pending[1] \in MyPosts
            BY <3>1
        <3>3. QED
            BY <1>2, <3>2 DEF Key, SendBegin
    <2>4. r \in PostRecord /\ r.step = "sent" /\ r.key = Key(p) /\ r.draft = tab.draft /\ ~r.read
        BY <2>2, <2>3, PostTypes DEF PostRecord, Posts
    <2>5. /\ post' = [post EXCEPT ![p] = r]
          /\ tab' = [tab EXCEPT !.pending = <<Key(p), tab.draft>>]
          /\ view' = [view EXCEPT !.sending = p]
        BY <1>2 DEF SendBegin, Send, Key
    <2> HIDE DEF r
    <2>6. /\ tab' \in TabRecord /\ tab'.pending = <<Key(p), tab.draft>>
          /\ tab'.draft = tab.draft /\ SameMemory
        BY <1>0, <2>2, <2>3, <2>5 DEF TabRecord, SameMemory
    <2>7. view' \in ViewRecord /\ SameRequest
        BY <1>0, <1>2, <2>5 DEF ViewRecord, SameRequest, SendBegin
    <2>8. Sends(p)
        BY <1>2, <2>2, <2>3, <2>4, <2>5, <2>6 DEF SendBegin, Send, Sends, Changes
    <2>9. SendingDraft'
        BY <2>1, <2>6 DEF SendingDraft
    <2>10. log' = log /\ event' = event /\ faults' = faults
        BY <1>2 DEF SendBegin
    <2>11. QED
        BY <1>0, <2>6, <2>7, <2>8, <2>9, <2>10
        DEF Effects, DatabaseStep, DraftStep, ThreadStep, Idles, GoesOn
<1>3. CASE Receive(p)
    <2> DEFINE r == [post[p] EXCEPT !.step = "open", !.id = clock + 1]
    <2>1. clock + 1 \in Positions
        BY <1>3, ClockFits DEF Receive
    <2>2. /\ r \in PostRecord /\ r.step = "open" /\ r.id = clock + 1
          /\ r.read = post[p].read /\ r.key = post[p].key /\ r.draft = post[p].draft
        BY <1>0, <2>1 DEF PostRecord
    <2>3. post' = [post EXCEPT ![p] = r]
        BY <1>0, <1>3 DEF Receive
    <2> HIDE DEF r
    <2>4. Draws(p)
        BY <1>3, <2>2, <2>3 DEF Receive, Draws, Changes
    <2>5. QED
        BY <1>0, <1>3, <1>q, <2>4 DEF Receive, DatabaseStep
<1>4. CASE Store(p)
    <2> DEFINE r == [post[p] EXCEPT !.step = "stored"]
    <2>1. /\ r \in PostRecord /\ r.step = "stored" /\ r.id = post[p].id
          /\ r.read = post[p].read /\ r.key = post[p].key /\ r.draft = post[p].draft
        BY <1>0 DEF PostRecord
    <2>2. post' = [post EXCEPT ![p] = r]
        BY <1>0, <1>4 DEF Store
    <2> HIDE DEF r
    <2>3. Stores(p)
        BY <1>4, <2>1, <2>2 DEF Store, Stores, Changes
    <2>4. QED
        BY <1>0, <1>4, <1>q, <2>3 DEF Store, DatabaseStep
<1>c. ASSUME post' = [post EXCEPT ![p] = Over], post[p].step # "new",
             UNCHANGED <<log, read, clock>>
      PROVE  DatabaseStep
    <2>1. post' = [q \in Posts |-> IF q \in {p} THEN Over ELSE post[q]]
        BY <1>0, <1>c
    <2>2. QED
        BY <1>c, <2>1 DEF DatabaseStep, Closes
<1>5. CASE Replay(p)
    <2>1. CASE view.sending = p
        <3> DEFINE id == log[RowOf(post[p].key)].id
                   r == [post[p] EXCEPT !.step = "answered", !.id = id, !.read = id \in read]
        <3>1. id \in Positions
            BY <1>5, IdsType, RowOfStored DEF Replay
        <3>2. (id \in read) \in BOOLEAN
            OBVIOUS
        <3>3. post' = [post EXCEPT ![p] = r]
            BY <1>0, <1>5, <2>1 DEF Replay
        <3> HIDE DEF id
        <3>4. /\ r \in PostRecord /\ r.step = "answered" /\ r.id = id
              /\ r.read = (id \in read) /\ r.key = post[p].key /\ r.draft = post[p].draft
            BY <1>0, <3>1, <3>2 DEF PostRecord
        <3> HIDE DEF r
        <3>5. Answers(p)
            BY <1>5, <3>3, <3>4 DEF Replay, Answers, Changes, id
        <3>6. QED
            BY <1>0, <1>5, <1>q, <3>5 DEF Replay, DatabaseStep
    <2>2. CASE view.sending # p
        <3>1. post' = [post EXCEPT ![p] = Over]
            BY <1>5, <2>2 DEF Replay
        <3>2. QED
            BY <1>0, <1>5, <1>c, <1>q, <3>1 DEF Replay
    <2>3. QED
        BY <2>1, <2>2
<1>6. CASE Publish(p)
    <2>0. event' \in BOOLEAN
        BY <1>0, <1>6 DEF Publish
    <2>1. CASE view.sending = p
        <3> DEFINE r == [post[p] EXCEPT !.step = "answered"]
        <3>1. post' = [post EXCEPT ![p] = r]
            BY <1>0, <1>6, <2>1 DEF Publish
        <3>2. /\ r \in PostRecord /\ r.step = "answered" /\ r.id = post[p].id
              /\ r.read = post[p].read /\ r.key = post[p].key /\ r.draft = post[p].draft
            BY <1>0 DEF PostRecord
        <3> HIDE DEF r
        <3>3. Answers(p)
            BY <1>6, <3>1, <3>2 DEF Publish, Answers, Changes
        <3>4. QED
            BY <1>6, <1>q, <2>0, <3>3 DEF Publish, DatabaseStep
    <2>2. CASE view.sending # p
        <3>1. post' = [post EXCEPT ![p] = Over]
            BY <1>6, <2>2 DEF Publish
        <3>2. QED
            BY <1>6, <1>c, <1>q, <2>0, <3>1 DEF Publish
    <2>3. QED
        BY <2>1, <2>2
<1>7. QED
    BY <1>1, <1>2, <1>3, <1>4, <1>5, <1>6

LEMMA SentEffects ==
    ASSUME TypeInv, NEW p \in Posts, SendDone(p) \/ SendLost(p) \/ SendRefused(p)
    PROVE  Effects
<1> USE DEF TypeInv
<1>0. /\ tab \in TabRecord /\ view \in ViewRecord /\ event \in BOOLEAN
      /\ faults \in 0..MaxFaults /\ post \in [Posts -> PostRecord] /\ post[p] \in PostRecord
    BY TypeParts
<1>c. ASSUME post' = [post EXCEPT ![p] = Over], post[p].step # "new",
             UNCHANGED <<log, read, clock>>
      PROVE  Closes
    <2>1. post' = [q \in Posts |-> IF q \in {p} THEN Over ELSE post[q]]
        BY <1>0, <1>c
    <2>2. QED
        BY <1>c, <2>1 DEF Closes
<1>1. CASE SendDone(p)
    <2> DEFINE v == [view EXCEPT !.sending = Nil]
    <2>1. p \in MyPosts
        BY <1>0, <1>1, MessagingAssumption DEF SendDone, ViewRecord, Posts
    <2>2. post[p].id \in Positions
        BY <1>0 DEF PostRecord
    <2>3. tab.draft \in 1..MaxDrafts + 1 /\ tab.draft <= MaxDrafts
        BY <1>0, <1>1, <2>1, MessagingAssumption DEF SendDone, SendingDraft, TabRecord, Posts
    <2>4. tab.draft + 1 \in 1..MaxDrafts + 1
        BY <2>3, MessagingAssumption
    <2>5. /\ Shown(tab, p) \in TabRecord /\ Shown(tab, p).draft = tab.draft
          /\ Shown(tab, p).items = tab.items \cup {post[p].id}
          /\ Shown(tab, p).seen = IF post[p].read THEN tab.seen \cup {post[p].id} ELSE tab.seen
          /\ Shown(tab, p).cursor = tab.cursor /\ Shown(tab, p).oldest = tab.oldest
          /\ Shown(tab, p).loaded = tab.loaded
        BY <1>0, <2>2 DEF TabRecord, Shown
    <2>6. tab' = [Shown(tab, p) EXCEPT !.draft = tab.draft + 1, !.pending = Nil]
        BY <1>1, <2>5 DEF SendDone
    <2>7. /\ tab' \in TabRecord /\ tab'.draft = tab.draft + 1
          /\ tab'.items = Shown(tab, p).items /\ tab'.seen = Shown(tab, p).seen
          /\ tab'.cursor = tab.cursor /\ tab'.oldest = tab.oldest /\ tab'.loaded = tab.loaded
        BY <2>4, <2>5, <2>6 DEF TabRecord
    <2>8. v \in ViewRecord /\ v.sending = Nil /\ v.sync = view.sync
        BY <1>0 DEF ViewRecord
    <2>9. view' = Flush(v, tab')
        BY <1>1 DEF SendDone
    <2> HIDE DEF v
    <2>10. view' \in ViewRecord /\ view'.sending = Nil /\ GoesOn
        BY <2>7, <2>8, <2>9, FlushEffect DEF GoesOn, SameRequest, Ends
    <2>11. ShowsSent(p)
        BY <1>1, <2>1, <2>5, <2>7, <2>10 DEF SendDone, ShowsSent
    <2>12. Closes
        BY <1>1, <1>c DEF SendDone
    <2>13. SendingDraft'
        BY <2>10 DEF SendingDraft
    <2>14. event' = event /\ faults' = faults
        BY <1>1 DEF SendDone
    <2>15. QED
        BY <1>0, <2>3, <2>7, <2>10, <2>11, <2>12, <2>13, <2>14
        DEF Effects, DatabaseStep, DraftStep, ThreadStep
<1>2. CASE SendLost(p)
    <2> DEFINE s == [view.sync EXCEPT !.fresh = FALSE]
               v == [view EXCEPT !.sending = Nil, !.uncertain = TRUE, !.sync = s]
    <2>1. /\ s \in Sync0 /\ s.step = view.sync.step /\ s.after = view.sync.after
          /\ s.from = view.sync.from /\ s.low = view.sync.low
          /\ s.ids = view.sync.ids /\ s.seen = view.sync.seen
        BY <1>0 DEF ViewRecord, Sync0
    <2>2. view' = Refresh(v, tab)
        BY <1>2 DEF SendLost
    <2> HIDE DEF s
    <2>3. v \in ViewRecord /\ v.sending = Nil /\ v.sync = s
        BY <1>0, <2>1 DEF ViewRecord
    <2> HIDE DEF v
    <2>4. /\ view' \in ViewRecord /\ view'.sending = Nil
          /\ view'.sync = s \/ StartedFrom(view'.sync, tab)
        BY <1>0, <2>2, <2>3, RefreshEffect
    <2>5. tab' = tab /\ UNCHANGED database /\ event' = event /\ faults' \in 0..MaxFaults
        BY <1>0, <1>2, FaultType DEF SendLost
    <2>6. SameRequest \/ Ends
        BY <2>1, <2>4, <2>5 DEF SameRequest, Ends
    <2>7. QED
        BY <1>0, <2>4, <2>5, <2>6, QuietStep
<1>3. CASE SendRefused(p)
    <2> DEFINE v == [view EXCEPT !.sending = Nil]
    <2>1. v \in ViewRecord /\ v.sending = Nil /\ v.sync = view.sync
        BY <1>0 DEF ViewRecord
    <2>2. view' = Flush(v, tab)
        BY <1>3 DEF SendRefused
    <2> HIDE DEF v
    <2>3. /\ view' \in ViewRecord /\ view'.sending = Nil
          /\ view'.sync = view.sync \/ StartedFrom(view'.sync, tab)
        BY <1>0, <2>1, <2>2, FlushEffect
    <2>4. tab' = tab /\ Closes /\ event' = event /\ faults' \in 0..MaxFaults
        BY <1>c, <1>3, FaultType DEF SendRefused
    <2>5. SameRequest \/ Ends
        BY <2>3, <2>4 DEF SameRequest, Ends
    <2>6. QED
        BY <1>0, <2>3, <2>4, <2>5, QuietStep
<1>4. QED
    BY <1>1, <1>2, <1>3

LEMMA UserEffects ==
    ASSUME TypeInv, EditDraft \/ PeerRead
    PROVE  Effects
<1> USE DEF TypeInv
<1>0. /\ tab \in TabRecord /\ view \in ViewRecord /\ event \in BOOLEAN
      /\ faults \in 0..MaxFaults
    BY TypeParts
<1>1. CASE EditDraft
    <2>1. tab.draft \in 1..MaxDrafts + 1 /\ tab.draft <= MaxDrafts
        BY <1>0, <1>1 DEF EditDraft, TabRecord
    <2>2. tab.draft + 1 \in 1..MaxDrafts + 1
        BY <2>1, MessagingAssumption
    <2>3. tab' = [tab EXCEPT !.draft = tab.draft + 1]
        BY <1>1 DEF EditDraft
    <2>4. tab' \in TabRecord /\ tab'.draft = tab.draft + 1 /\ SameMemory
        BY <1>0, <2>2, <2>3 DEF TabRecord, SameMemory
    <2>5. view' = view /\ UNCHANGED database /\ event' = event /\ faults' = faults
        BY <1>1 DEF EditDraft
    <2>6. SendingDraft'
        BY <1>1, <2>5 DEF EditDraft, SendingDraft
    <2>7. SameRequest
        BY <2>5 DEF SameRequest
    <2>8. QED
        BY <1>0, <2>1, <2>4, <2>5, <2>6, <2>7
        DEF Effects, DatabaseStep, DraftStep, ThreadStep, Idles, GoesOn, database
<1>2. CASE PeerRead
    <2>1. read \subseteq read' /\ read' \subseteq read \cup Ids
        BY <1>2, IdsType DEF PeerRead
    <2>2. event' \in BOOLEAN /\ faults' = faults /\ tab' = tab /\ view' = view
        BY <1>0, <1>2 DEF PeerRead
    <2>3. Reads
        BY <1>2, <2>1 DEF PeerRead, Reads
    <2>4. SameRequest /\ SameMemory /\ SendingDraft' /\ DraftStep /\ log' = log
        BY <1>2, <2>2 DEF SameRequest, SameMemory, SendingDraft, DraftStep, PeerRead
    <2>5. QED
        BY <1>0, <2>2, <2>3, <2>4 DEF Effects, DatabaseStep, ThreadStep, Idles, GoesOn
<1>3. QED
    BY <1>1, <1>2

LEMMA SyncEffects ==
    ASSUME TypeInv, LatestPage \/ NextPage \/ Merge \/ ServerMark \/ MarkDone \/ SyncFailed
    PROVE  Effects
<1> USE DEF TypeInv
<1>0. /\ tab \in TabRecord /\ view \in ViewRecord /\ event \in BOOLEAN
      /\ faults \in 0..MaxFaults /\ read \subseteq Positions
      /\ Ids \in SUBSET Positions /\ Theirs \in SUBSET Positions
    BY TypeParts, IdsType
<1>s. view.sync \in Sync0 /\ view.sync.ids \in SUBSET Positions
      /\ view.sync.seen \in SUBSET Positions /\ view.sync.after \in Positions
      /\ view.sync.low \in Positions
    BY <1>0 DEF ViewRecord, Sync0
<1>q. ASSUME tab' = tab, view'.sending = view.sending, UNCHANGED database \/ Reads
      PROVE  SendingDraft' /\ DatabaseStep /\ DraftStep
    BY <1>q DEF SendingDraft, DatabaseStep, DraftStep
<1>1. CASE LatestPage
    <2> DEFINE page == LastPage(Ids)
               low == IF page = Ids THEN 0 ELSE Min(page)
               s == [view.sync EXCEPT !.step = "got", !.after = Latest(page), !.low = low,
                                      !.ids = page, !.seen = page \cap read]
    <2>1. page \in SUBSET Positions /\ page \in SUBSET Ids
        BY <1>0 DEF LastPage
    <2>2. Latest(page) \in Positions
        BY <2>1, PositionsMax, PositionsNat DEF Latest
    <2>3. low \in Positions
        <3>1. CASE page = Ids
            BY <3>1, PositionsNat
        <3>2. CASE page # Ids
            <4>1. page # {}
                BY <1>0, <2>1, <3>2, LastPageNonempty
            <4>2. Min(page) \in Positions
                BY <2>1, <4>1, PositionsMin
            <4>3. QED
                BY <3>2, <4>2
        <3>3. QED
            BY <3>1, <3>2
    <2>4. view' = [view EXCEPT !.sync = s]
        BY <1>0, <1>1 DEF LatestPage
    <2>5. low = IF LastPage(Ids) = Ids THEN 0 ELSE Min(LastPage(Ids))
        OBVIOUS
    <2> HIDE DEF low
    <2>6. /\ s \in Sync0 /\ s.step = "got" /\ s.after = Latest(page) /\ s.low = low
          /\ s.ids = page /\ s.seen = page \cap read
        BY <1>s, <2>1, <2>2, <2>3 DEF Sync0
    <2> HIDE DEF s
    <2>7. view' \in ViewRecord /\ view'.sync = s /\ view'.sending = view.sending
        BY <1>0, <2>4, <2>6 DEF ViewRecord
    <2>8. UNCHANGED database /\ tab' = tab /\ event' = event /\ faults' = faults
        BY <1>1 DEF LatestPage
    <2>9. GetsLatest
        BY <1>1, <2>5, <2>6, <2>7, <2>8 DEF GetsLatest, LatestPage, database
    <2>10. QED
        BY <1>0, <1>q, <2>7, <2>8, <2>9 DEF Effects, ThreadStep
<1>2. CASE NextPage
    <2> DEFINE rest == NewerThan(view.sync.after, view.sync.from)
               page == FirstPage(rest)
               next == IF page = {} THEN view.sync.after ELSE Max(page)
               step == IF page = rest THEN "got" ELSE "ask"
               s == [view.sync EXCEPT !.step = step, !.after = next, !.from = 0,
                                      !.ids = view.sync.ids \cup page,
                                      !.seen = view.sync.seen \cup (page \cap read)]
    <2>1. page \in SUBSET Positions
        BY <1>0 DEF FirstPage, NewerThan
    <2>2. next \in Positions
        BY <1>s, <2>1, PositionsMax
    <2>3. view' = [view EXCEPT !.sync = s]
        BY <1>0, <1>2 DEF NextPage
    <2>4. step \in {"ask", "got"}
        OBVIOUS
    <2> HIDE DEF step, next, page
    <2>5. /\ s \in Sync0 /\ s.step = step /\ s.after = next /\ s.from = 0
          /\ s.ids = view.sync.ids \cup page
          /\ s.seen = view.sync.seen \cup (page \cap read)
        BY <1>s, <2>1, <2>2, <2>4, PositionsNat DEF Sync0
    <2> HIDE DEF s
    <2>6. view' \in ViewRecord /\ view'.sync = s /\ view'.sending = view.sending
        BY <1>0, <2>3, <2>5 DEF ViewRecord
    <2>7. UNCHANGED database /\ tab' = tab /\ event' = event /\ faults' = faults
        BY <1>2 DEF NextPage
    <2>8. GetsNext
        BY <1>2, <2>4, <2>5, <2>6, <2>7 DEF GetsNext, NextPage, database, next, page
    <2>9. QED
        BY <1>0, <1>q, <2>6, <2>7, <2>8 DEF Effects, ThreadStep
<1>3. CASE Merge
    <2>1. /\ Merged \in TabRecord /\ Merged.draft = tab.draft /\ Merged.pending = tab.pending
          /\ Merged.items = tab.items \cup view.sync.ids
          /\ Merged.seen = tab.seen \cup view.sync.seen
          /\ Merged.cursor = view.sync.after /\ Merged.loaded = TRUE
          /\ Merged.oldest = IF tab.loaded THEN tab.oldest ELSE view.sync.low
        BY <1>0, <1>s DEF Merged, TabRecord
    <2>2. /\ Reconciled \in ViewRecord /\ Reconciled.sending = view.sending
          /\ Reconciled.sync = view.sync
        BY <1>0 DEF Reconciled, ViewRecord
    <2>3. tab' = Merged /\ view.sync.step = "got"
        BY <1>3 DEF Merge
    <2>4. /\ view' \in ViewRecord /\ view'.sending = view.sending
          /\ Ends \/ (view'.sync.step = "mark" /\ view'.sync.ids = {} /\ view'.sync.seen = {})
        <3>1. CASE view' = AfterSync(Reconciled, Merged, FALSE)
            BY <2>1, <2>2, <2>3, <3>1, AfterSyncEffect DEF Ends
        <3>2. CASE view' # AfterSync(Reconciled, Merged, FALSE)
            <4> DEFINE received == Merged.items \cap Theirs
                       s == [NoSync EXCEPT !.step = "mark", !.after = Max(received)]
            <4>1. received # {} /\ view' = [Reconciled EXCEPT !.sync = s]
                BY <1>3, <3>2 DEF Merge
            <4>2. received \in SUBSET Positions
                BY <1>0
            <4>3. Max(received) \in Positions
                BY <4>1, <4>2, PositionsMax
            <4> HIDE DEF received
            <4>4. s \in Sync0 /\ s.step = "mark" /\ s.ids = {} /\ s.seen = {}
                BY <4>3, NoSyncType DEF Sync0, Resting
            <4> HIDE DEF s
            <4>5. QED
                BY <2>2, <4>1, <4>4 DEF ViewRecord
        <3>3. QED
            BY <3>1, <3>2
    <2>5. UNCHANGED database /\ event' = event /\ faults' = faults
        BY <1>3 DEF Merge
    <2>6. Merges
        BY <2>1, <2>3, <2>4, <2>5 DEF Merges, database
    <2>7. tab' \in TabRecord /\ DatabaseStep /\ DraftStep /\ SendingDraft'
        BY <2>1, <2>3, <2>4, <2>5 DEF DatabaseStep, DraftStep, SendingDraft
    <2>8. QED
        BY <1>0, <2>4, <2>5, <2>6, <2>7 DEF Effects, ThreadStep
<1>4. CASE ServerMark
    <2> DEFINE unread == {i \in Theirs \ read : i <= view.sync.after}
               from == IF unread = {} THEN 0 ELSE 1
               s == [view.sync EXCEPT !.step = "marked", !.from = from]
    <2>1. from \in Positions
        <3>1. CASE unread = {}
            BY <3>1, PositionsNat
        <3>2. CASE unread # {}
            <4>1. PICK i \in Theirs : TRUE
                BY <3>2
            <4>2. PICK k \in DOMAIN log : log[k].key \in Posts
                BY <4>1, IdsType DEF Ids, RowRecord
            <4>3. Posts # {}
                BY <4>2
            <4>4. Cardinality(Posts) # 0
                BY <4>3, PostsFinite, FS_EmptySet
            <4>5. 1 \in 0..Cardinality(Posts)
                BY <4>4, PostsFinite
            <4>6. QED
                BY <3>2, <4>5 DEF Positions
        <3>3. QED
            BY <3>1, <3>2
    <2>2. read' = read \cup unread /\ view' = [view EXCEPT !.sync = s]
        BY <1>0, <1>4 DEF ServerMark
    <2>3. unread \subseteq Ids
        BY IdsType
    <2> HIDE DEF from
    <2>4. /\ s \in Sync0 /\ s.step = "marked" /\ s.after = view.sync.after
          /\ s.ids = view.sync.ids /\ s.seen = view.sync.seen
        BY <1>s, <2>1 DEF Sync0
    <2> HIDE DEF s
    <2>5. view' \in ViewRecord /\ view'.sync = s /\ view'.sending = view.sending
        BY <1>0, <2>2, <2>4 DEF ViewRecord
    <2>6. tab' = tab /\ event' = event /\ faults' = faults /\ UNCHANGED <<log, post, clock>>
        BY <1>4 DEF ServerMark
    <2>7. Marks
        BY <2>2, <2>4, <2>5, <2>6 DEF Marks
    <2>8. Reads
        BY <2>2, <2>3, <2>6 DEF Reads
    <2>9. QED
        BY <1>0, <1>q, <2>5, <2>6, <2>7, <2>8 DEF Effects, ThreadStep
<1>5. CASE MarkDone
    <2> DEFINE known == {i \in tab.items \cap Theirs : i <= view.sync.after}
               seen == IF view.sync.from = 1 THEN tab.seen \cup known ELSE tab.seen
               next == [tab EXCEPT !.readCursor = view.sync.after, !.seen = seen]
    <2>1. seen \in SUBSET Positions
        BY <1>0 DEF TabRecord
    <2>2. tab' = next /\ view' = AfterSync(view, next, FALSE) /\ view.sync.step = "marked"
        BY <1>5 DEF MarkDone
    <2>3. seen = IF view.sync.from = 1
                 THEN tab.seen \cup {i \in tab.items \cap Theirs : i <= view.sync.after}
                 ELSE tab.seen
        OBVIOUS
    <2> HIDE DEF seen
    <2>4. /\ next \in TabRecord /\ next.draft = tab.draft /\ next.pending = tab.pending
          /\ next.items = tab.items /\ next.seen = seen /\ next.cursor = tab.cursor
          /\ next.oldest = tab.oldest /\ next.loaded = tab.loaded
        BY <1>0, <1>s, <2>1 DEF TabRecord
    <2> HIDE DEF next
    <2>5. view' \in ViewRecord /\ view'.sending = view.sending /\ Ends
        BY <1>0, <2>2, <2>4, AfterSyncEffect DEF Ends
    <2>6. UNCHANGED database /\ event' = event /\ faults' = faults
        BY <1>5 DEF MarkDone
    <2>7. SeesMark
        BY <2>2, <2>3, <2>4, <2>5, <2>6 DEF SeesMark, database
    <2>8. tab' \in TabRecord /\ DatabaseStep /\ DraftStep /\ SendingDraft'
        BY <2>2, <2>4, <2>5, <2>6 DEF DatabaseStep, DraftStep, SendingDraft
    <2>9. QED
        BY <1>0, <2>5, <2>6, <2>7, <2>8 DEF Effects, ThreadStep
<1>6. CASE SyncFailed
    <2>1. view' = AfterSync(view, tab, TRUE) /\ tab' = tab
        BY <1>6 DEF SyncFailed
    <2>2. view' \in ViewRecord /\ view'.sending = view.sending /\ Ends
        BY <1>0, <2>1, AfterSyncEffect DEF Ends
    <2>3. UNCHANGED database /\ event' = event /\ faults' \in 0..MaxFaults
        BY <1>0, <1>6, FaultType DEF SyncFailed
    <2>4. QED
        BY <1>0, <2>1, <2>2, <2>3, QuietStep
<1>7. QED
    BY <1>1, <1>2, <1>3, <1>4, <1>5, <1>6

LEMMA OlderEffects ==
    ASSUME TypeInv, LoadOlder \/ OlderDone \/ OlderFailed \/ PollTick
    PROVE  Effects
<1> USE DEF TypeInv
<1>0. /\ tab \in TabRecord /\ view \in ViewRecord /\ event \in BOOLEAN
      /\ faults \in 0..MaxFaults /\ read \subseteq Positions /\ Ids \in SUBSET Positions
    BY TypeParts, IdsType
<1>1. CASE LoadOlder
    <2> DEFINE s == [NoSync EXCEPT !.step = "older"]
    <2>1. view' = [view EXCEPT !.sync = s]
        BY <1>0, <1>1 DEF LoadOlder
    <2>2. s \in Sync0 /\ Resting(s)
        BY NoSyncType DEF Sync0, Resting
    <2> HIDE DEF s
    <2>3. view' \in ViewRecord /\ view'.sending = view.sending /\ Ends
        BY <1>0, <2>1, <2>2 DEF ViewRecord, Ends
    <2>4. tab' = tab /\ UNCHANGED database /\ event' = event /\ faults' = faults
        BY <1>1 DEF LoadOlder
    <2>5. QED
        BY <1>0, <2>3, <2>4, QuietStep
<1> DEFINE v == [view EXCEPT !.sync = NoSync]
<1>v. v \in ViewRecord /\ Resting(v.sync) /\ v.sending = view.sending
    BY <1>0, NoSyncType DEF ViewRecord
<1>2. CASE OlderDone
    <2> DEFINE rest == {i \in Ids : i < tab.oldest}
               page == LastPage(rest)
               oldest == IF page = rest THEN 0 ELSE Min(page)
               next == [tab EXCEPT !.items = tab.items \cup page,
                                   !.seen = tab.seen \cup (page \cap read), !.oldest = oldest]
    <2>1. page \in SUBSET Positions /\ rest \in SUBSET Positions
        BY <1>0 DEF LastPage
    <2>2. oldest \in Positions
        <3>1. CASE page = rest
            BY <3>1, PositionsNat
        <3>2. CASE page # rest
            <4>1. rest # {}
                BY <3>2 DEF LastPage
            <4>2. page # {}
                BY <2>1, <4>1, LastPageNonempty
            <4>3. Min(page) \in Positions
                BY <2>1, <4>2, PositionsMin
            <4>4. QED
                BY <3>2, <4>3
        <3>3. QED
            BY <3>1, <3>2
    <2>3. /\ tab' = IF view.sync.aborted THEN tab ELSE next
          /\ view' = Flush(v, tab')
        BY <1>2 DEF OlderDone
    <2>4. oldest = IF page = rest THEN 0 ELSE Min(page)
        OBVIOUS
    <2> HIDE DEF oldest
    <2>5. /\ next \in TabRecord /\ next.draft = tab.draft /\ next.pending = tab.pending
          /\ next.items = tab.items \cup page /\ next.seen = tab.seen \cup (page \cap read)
          /\ next.cursor = tab.cursor /\ next.oldest = oldest /\ next.loaded = tab.loaded
        BY <1>0, <2>1, <2>2 DEF TabRecord
    <2> HIDE DEF next, v
    <2>6. /\ tab' \in TabRecord /\ tab'.draft = tab.draft /\ tab'.pending = tab.pending
        BY <1>0, <2>3, <2>5
    <2>7. view' \in ViewRecord /\ view'.sending = view.sending /\ Ends
        BY <1>v, <2>3, <2>6, FlushEffect DEF Ends
    <2>8. UNCHANGED database /\ event' = event /\ faults' = faults
        BY <1>2 DEF OlderDone
    <2>9. ThreadStep
        <3>1. CASE view.sync.aborted
            BY <2>3, <2>7, <2>8, <3>1 DEF ThreadStep, Idles, SameMemory, GoesOn, database
        <3>2. CASE ~view.sync.aborted
            <4>1. GetsOlder
                BY <2>3, <2>4, <2>5, <2>7, <2>8, <3>2 DEF GetsOlder, database
            <4>2. QED
                BY <4>1 DEF ThreadStep
        <3>3. QED
            BY <3>1, <3>2
    <2>10. DatabaseStep /\ DraftStep /\ SendingDraft'
        BY <2>6, <2>7, <2>8 DEF DatabaseStep, DraftStep, SendingDraft
    <2>11. QED
        BY <1>0, <2>6, <2>7, <2>8, <2>9, <2>10 DEF Effects
<1>3. CASE OlderFailed
    <2>1. view' = Flush(v, tab) /\ tab' = tab
        BY <1>3 DEF OlderFailed
    <2> HIDE DEF v
    <2>2. view' \in ViewRecord /\ view'.sending = view.sending /\ Ends
        BY <1>0, <1>v, <2>1, FlushEffect DEF Ends
    <2>3. UNCHANGED database /\ event' = event /\ faults' \in 0..MaxFaults
        BY <1>3, FaultType DEF OlderFailed
    <2>4. QED
        BY <1>0, <2>1, <2>2, <2>3, QuietStep
<1>4. CASE PollTick
    <2>1. view' = StartSync(view, tab) /\ tab' = tab
        BY <1>4 DEF PollTick
    <2>2. view' \in ViewRecord /\ view'.sending = view.sending /\ Ends
        BY <1>0, <2>1, StartSyncEffect DEF Ends
    <2>3. UNCHANGED database /\ event' = event /\ faults' = faults
        BY <1>4 DEF PollTick
    <2>4. QED
        BY <1>0, <2>1, <2>2, <2>3, QuietStep
<1>5. QED
    BY <1>1, <1>2, <1>3, <1>4

LEMMA DisconnectedType ==
    ASSUME NEW v \in ViewRecord
    PROVE  /\ Disconnected(v) \in ViewRecord /\ Disconnected(v).sync = v.sync
           /\ Disconnected(v).sending = v.sending
BY DEF Disconnected, ViewRecord

LEMMA SocketEffects ==
    ASSUME TypeInv, JoinRoom \/ Joined \/ EventArrives \/ SocketLost \/ Crash
    PROVE  Effects
<1> USE DEF TypeInv
<1>0. /\ tab \in TabRecord /\ view \in ViewRecord /\ event \in BOOLEAN
      /\ faults \in 0..MaxFaults /\ post \in [Posts -> PostRecord]
    BY TypeParts
<1>1. CASE JoinRoom
    <2>1. /\ view' \in ViewRecord /\ view'.sending = view.sending /\ SameRequest
        BY <1>0, <1>1 DEF JoinRoom, ViewRecord, SameRequest
    <2>2. tab' = tab /\ UNCHANGED database /\ event' = event /\ faults' = faults
        BY <1>1 DEF JoinRoom
    <2>3. QED
        BY <1>0, <2>1, <2>2, QuietStep
<1>2. CASE Joined
    <2> DEFINE v == [view EXCEPT !.socket = "on", !.poll = FALSE]
    <2>1. v \in ViewRecord /\ v.sync = view.sync /\ v.sending = view.sending
        BY <1>0 DEF ViewRecord
    <2>2. view' = Refresh(v, tab) /\ tab' = tab
        BY <1>2 DEF Joined
    <2> HIDE DEF v
    <2>3. /\ view' \in ViewRecord /\ view'.sending = view.sending
          /\ SameRequest \/ Ends
        BY <1>0, <2>1, <2>2, RefreshEffect DEF SameRequest, Ends
    <2>4. UNCHANGED database /\ event' = event /\ faults' = faults
        BY <1>2 DEF Joined
    <2>5. QED
        BY <1>0, <2>2, <2>3, <2>4, QuietStep
<1>3. CASE EventArrives
    <2>1. view' \in {view, Refresh(view, tab)} /\ tab' = tab
        BY <1>3 DEF EventArrives
    <2>2. /\ view' \in ViewRecord /\ view'.sending = view.sending
          /\ SameRequest \/ Ends
        BY <1>0, <2>1, RefreshEffect DEF SameRequest, Ends
    <2>3. UNCHANGED database /\ event' \in BOOLEAN /\ faults' = faults
        BY <1>3 DEF EventArrives
    <2>4. QED
        BY <1>0, <2>1, <2>2, <2>3, QuietStep
<1>4. CASE SocketLost
    <2>1. view' = Disconnected(view) /\ tab' = tab
        BY <1>4 DEF SocketLost
    <2>2. view' \in ViewRecord /\ view'.sending = view.sending /\ SameRequest
        BY <1>0, <2>1, DisconnectedType DEF SameRequest
    <2>3. UNCHANGED database /\ event' \in BOOLEAN /\ faults' \in 0..MaxFaults
        BY <1>4, FaultType DEF SocketLost
    <2>4. QED
        BY <1>0, <2>1, <2>2, <2>3, QuietStep
<1>5. CASE Crash
    <2> DEFINE S == {q \in Posts : post[q].step \in {"sent", "open", "stored"}}
    <2>1. view' = Disconnected(view) /\ tab' = tab
        BY <1>5 DEF Crash
    <2>2. view' \in ViewRecord /\ view'.sending = view.sending /\ SameRequest
        BY <1>0, <2>1, DisconnectedType DEF SameRequest
    <2>3. S \in SUBSET {q \in Posts : post[q].step # "new"}
        OBVIOUS
    <2>4. post' = [q \in Posts |-> IF q \in S THEN Over ELSE post[q]]
        BY <1>5 DEF Crash
    <2> HIDE DEF S
    <2>5. Closes /\ event' \in BOOLEAN /\ faults' \in 0..MaxFaults
        BY <1>5, <2>3, <2>4, FaultType DEF Crash, Closes
    <2>6. QED
        BY <1>0, <2>1, <2>2, <2>5, QuietStep
<1>6. QED
    BY <1>1, <1>2, <1>3, <1>4, <1>5

LEMMA PageEffects ==
    ASSUME TypeInv, Hide \/ Show \/ Reopen \/ Reload
    PROVE  Effects
<1> USE DEF TypeInv
<1>0. /\ tab \in TabRecord /\ view \in ViewRecord /\ event \in BOOLEAN
      /\ faults \in 0..MaxFaults
    BY TypeParts
<1>1. CASE Hide
    <2> DEFINE a == view.sync # NoSync
               s == [view.sync EXCEPT !.aborted = a]
    <2>1. a \in BOOLEAN /\ view.sync \in Sync0
        BY <1>0 DEF ViewRecord
    <2>2. view' = [view EXCEPT !.hidden = TRUE, !.poll = FALSE, !.socket = "off", !.sync = s]
        BY <1>0, <1>1 DEF Hide
    <2> HIDE DEF a
    <2>3. /\ s \in Sync0 /\ s.step = view.sync.step /\ s.after = view.sync.after
          /\ s.from = view.sync.from /\ s.low = view.sync.low
          /\ s.ids = view.sync.ids /\ s.seen = view.sync.seen
        BY <2>1 DEF Sync0
    <2> HIDE DEF s
    <2>4. view' \in ViewRecord /\ view'.sending = view.sending /\ view'.sync = s
        BY <1>0, <2>2, <2>3 DEF ViewRecord
    <2>5. SameRequest
        BY <2>3, <2>4 DEF SameRequest
    <2>6. tab' = tab /\ UNCHANGED database /\ event' \in BOOLEAN /\ faults' \in 0..MaxFaults
        BY <1>1, FaultType DEF Hide
    <2>7. QED
        BY <1>0, <2>4, <2>5, <2>6, QuietStep
<1>2. CASE Show
    <2> DEFINE v == [view EXCEPT !.hidden = FALSE]
               w == Refresh(v, tab)
    <2>1. v \in ViewRecord /\ v.sync = view.sync /\ v.sending = view.sending
        BY <1>0 DEF ViewRecord
    <2>2. view' = [w EXCEPT !.poll = TRUE]
        BY <1>2 DEF Show
    <2> HIDE DEF v
    <2>3. /\ w \in ViewRecord /\ w.sending = view.sending
          /\ w.sync = view.sync \/ StartedFrom(w.sync, tab)
        BY <1>0, <2>1, RefreshEffect
    <2> HIDE DEF w
    <2>4. view' \in ViewRecord /\ view'.sending = w.sending /\ view'.sync = w.sync
        BY <2>2, <2>3 DEF ViewRecord
    <2>5. tab' = tab /\ UNCHANGED database /\ event' = event /\ faults' = faults
        BY <1>2 DEF Show
    <2>6. SameRequest \/ Ends
        BY <2>3, <2>4, <2>5 DEF SameRequest, Ends
    <2>7. QED
        BY <1>0, <2>3, <2>4, <2>5, <2>6, QuietStep
<1>3. CASE Reopen
    <2>1. view' = Opened(tab) /\ tab' = tab
        BY <1>3 DEF Reopen
    <2>2. view' \in ViewRecord /\ view'.sending = Nil /\ Ends
        BY <1>0, <2>1, OpenedEffect DEF Ends
    <2>3. UNCHANGED database /\ event' \in BOOLEAN /\ faults' \in 0..MaxFaults
        BY <1>3, FaultType DEF Reopen
    <2>4. QED
        BY <1>0, <2>1, <2>2, <2>3, QuietStep
<1>4. CASE Reload
    <2>1. tab.draft \in 1..MaxDrafts + 1 /\ tab.draft <= MaxDrafts
        BY <1>0, <1>4 DEF Reload, TabRecord
    <2>2. tab.draft + 1 \in 1..MaxDrafts + 1
        BY <2>1, MessagingAssumption
    <2>3. tab' = Unloaded(tab.draft + 1) /\ view' = Opened(tab')
        BY <1>4 DEF Reload
    <2>4. /\ tab' \in TabRecord /\ tab'.items = {} /\ tab'.seen = {} /\ tab'.cursor = 0
          /\ ~tab'.loaded /\ tab'.draft = tab.draft + 1
        BY <2>2, <2>3, UnloadedType DEF Unloaded
    <2>5. view' \in ViewRecord /\ view'.sending = Nil /\ StartedFrom(view'.sync, tab')
        BY <2>3, <2>4, OpenedEffect
    <2>6. UNCHANGED database /\ event' \in BOOLEAN /\ faults' = faults
        BY <1>4 DEF Reload
    <2>7. Reloads /\ SendingDraft'
        BY <2>4, <2>5, <2>6 DEF Reloads, SendingDraft, database
    <2>8. QED
        BY <1>0, <2>1, <2>4, <2>5, <2>6, <2>7
        DEF Effects, DatabaseStep, DraftStep, ThreadStep
<1>5. QED
    BY <1>1, <1>2, <1>3, <1>4

LEMMA StepEffects ==
    ASSUME TypeInv, [Next]_vars
    PROVE  Effects
<1>1. CASE UNCHANGED vars
    <2>1. /\ tab' = tab /\ view' = view /\ event' = event /\ faults' = faults
          /\ UNCHANGED database
        BY <1>1 DEF vars, database
    <2>2. view' \in ViewRecord /\ event' \in BOOLEAN /\ faults' \in 0..MaxFaults
        BY <2>1, TypeParts DEF TypeInv
    <2>3. QED
        BY <2>1, <2>2, QuietStep DEF SameRequest
<1>2. CASE Next
    BY <1>2, SendingEffects, SentEffects, UserEffects, SyncEffects, OlderEffects,
       SocketEffects, PageEffects DEF Next
<1>3. QED
    BY <1>1, <1>2

-----------------------------------------------------------------------------
(* Requests and rows.  A row's position was drawn by one request only, a   *)
(* key has one row, and an answer names a row of the user.                 *)

InFlight(p) == post[p].step \notin {"new", "gone"}

RequestFine(p) ==
    /\ InFlight(p) => IF p \in MyPosts
                      THEN post[p].key \in MyPosts /\ post[p].draft \in 1..MaxDrafts
                      ELSE post[p].key = p
    /\ post[p].step = "open" => post[p].id \in 1..clock /\ post[p].id \notin Ids
    /\ post[p].step \in {"stored", "answered"} /\ p \in MyPosts => post[p].id \in Mine
    /\ post[p].read => post[p].step = "answered" /\ post[p].id \in read

OpenDistinct ==
    \A p, q \in Posts :
        post[p].step = "open" /\ post[q].step = "open" /\ post[p].id = post[q].id => p = q

RowsFine ==
    /\ Ids \subseteq 1..clock
    /\ \A k, l \in DOMAIN log : log[k].key = log[l].key => k = l
    /\ \A k \in DOMAIN log : log[k].key \in MyPosts => log[k].draft \in 1..MaxDrafts

RequestsInv == (\A p \in Posts : RequestFine(p)) /\ OpenDistinct /\ RowsFine

LEMMA RowsType ==
    ASSUME TypeOK
    PROVE  /\ log \in Seq(RowRecord) /\ DOMAIN log = 1..Len(log) /\ Len(log) \in Nat
           /\ \A k \in DOMAIN log : log[k] \in RowRecord
BY TypeParts

\* The rows after a message was stored.
LEMMA StoredRows ==
    ASSUME TypeOK, NEW p \in Posts, RequestFine(p), Stores(p)
    PROVE  /\ log' \in Seq(RowRecord)
           /\ DOMAIN log' = DOMAIN log \cup {Len(log) + 1} /\ Len(log) + 1 \notin DOMAIN log
           /\ \A k \in DOMAIN log : log'[k] = log[k]
           /\ log'[Len(log) + 1] = [id |-> post[p].id, key |-> post[p].key,
                                    draft |-> post[p].draft]
<1> DEFINE row == [id |-> post[p].id, key |-> post[p].key, draft |-> post[p].draft]
<1>1. post[p] \in PostRecord /\ post[p].step = "open"
    BY TypeParts DEF Stores
<1>2. post[p].key \in Posts
    BY <1>1 DEF RequestFine, InFlight, Posts
<1>3. row \in RowRecord
    BY <1>1, <1>2 DEF PostRecord, RowRecord
<1>4. log' = Append(log, row)
    BY DEF Stores
<1> HIDE DEF row
<1>5. /\ log' \in Seq(RowRecord) /\ Len(log') = Len(log) + 1
      /\ \A k \in 1..Len(log) : log'[k] = log[k]
      /\ log'[Len(log) + 1] = row
    BY <1>3, <1>4, RowsType
<1>6. DOMAIN log' = 1..Len(log) + 1
    BY <1>5, RowsType
<1>7. DOMAIN log' = DOMAIN log \cup {Len(log) + 1} /\ Len(log) + 1 \notin DOMAIN log
    BY <1>6, RowsType
<1>8. QED
    BY <1>5, <1>7, RowsType DEF row

LEMMA StoredIds ==
    ASSUME TypeOK, NEW p \in Posts, RequestFine(p), Stores(p)
    PROVE  /\ Ids' = Ids \cup {post[p].id}
           /\ Mine' = Mine \cup (IF post[p].key \in MyPosts THEN {post[p].id} ELSE {})
<1> DEFINE n == Len(log) + 1
<1>0. /\ DOMAIN log' = DOMAIN log \cup {n}
      /\ \A k \in DOMAIN log : log'[k] = log[k]
      /\ log'[n] = [id |-> post[p].id, key |-> post[p].key, draft |-> post[p].draft]
    BY StoredRows
<1>1. /\ DOMAIN log' = DOMAIN log \cup {n}
      /\ \A k \in DOMAIN log : log'[k] = log[k]
      /\ log'[n].id = post[p].id /\ log'[n].key = post[p].key
    BY <1>0
<1>2. Ids' = {log'[k].id : k \in DOMAIN log'}
    BY DEF Ids
<1>3. Mine' = {log'[k].id : k \in {l \in DOMAIN log' : log'[l].key \in MyPosts}}
    BY DEF Mine
<1> HIDE DEF n
<1>4. Ids' = Ids \cup {post[p].id}
    BY <1>1, <1>2 DEF Ids
<1>5. Mine' = Mine \cup (IF post[p].key \in MyPosts THEN {post[p].id} ELSE {})
    BY <1>1, <1>3 DEF Mine
<1>6. QED
    BY <1>4, <1>5

\* What a request that the step leaves alone needs to stay as it should be.
LEMMA RequestKept ==
    ASSUME NEW q \in Posts, RequestFine(q), post'[q] = post[q],
           clock \in Nat, clock' \in Nat, clock <= clock',
           post[q].step = "open" => post[q].id \notin Ids',
           Mine \subseteq Mine', read \subseteq read'
    PROVE  RequestFine(q)'
BY DEF RequestFine, InFlight

LEMMA SameRows ==
    ASSUME log' = log
    PROVE  Ids' = Ids /\ Mine' = Mine /\ Theirs' = Theirs
BY DEF Ids, Mine, Theirs

LEMMA ChangedPost ==
    ASSUME TypeOK, NEW p \in Posts, NEW r, Changes(p, r)
    PROVE  /\ post' \in [Posts -> PostRecord] /\ post'[p] = r
           /\ \A q \in Posts \ {p} : post'[q] = post[q]
BY TypeParts DEF Changes

\* Once a request has drawn its position, it has.
LEMMA DrawnKept ==
    ASSUME Drawn, clock' = clock, clock \in Nat,
           \A q \in Posts : post[q].step \notin {"new", "sent"}
                            => post'[q].step \notin {"new", "sent"}
    PROVE  Drawn'
<1> DEFINE B == {q \in Posts : post[q].step \notin {"new", "sent"}}
           C == {q \in Posts : post'[q].step \notin {"new", "sent"}}
<1>1. B \in SUBSET C /\ C \in SUBSET Posts
    OBVIOUS
<1>2. IsFiniteSet(C) /\ IsFiniteSet(B)
    BY <1>1, PostsFinite, FS_Subset
<1>3. /\ Cardinality(B) <= Cardinality(C)
      /\ Cardinality(B) \in Nat /\ Cardinality(C) \in Nat
    BY <1>1, <1>2, FS_Subset, FS_CardinalityType
<1>4. clock <= Cardinality(B)
    BY DEF Drawn
<1>5. Drawn' <=> clock' <= Cardinality(C)
    BY DEF Drawn
<1> HIDE DEF B, C
<1>6. QED
    BY <1>3, <1>4, <1>5

LEMMA DrawnOne ==
    ASSUME TypeOK, Drawn, NEW p \in Posts, Draws(p)
    PROVE  Drawn'
<1> DEFINE B == {q \in Posts : post[q].step \notin {"new", "sent"}}
           C == {q \in Posts : post'[q].step \notin {"new", "sent"}}
<1>1. PICK r \in PostRecord : Changes(p, r) /\ r.step = "open"
    BY DEF Draws
<1>2. post'[p] = r /\ \A q \in Posts \ {p} : post'[q] = post[q]
    BY <1>1, ChangedPost
<1>3. C = B \cup {p} /\ p \notin B /\ B \in SUBSET Posts
    BY <1>1, <1>2 DEF Draws
<1>4. IsFiniteSet(B)
    BY <1>3, PostsFinite, FS_Subset
<1>5. Cardinality(C) = Cardinality(B) + 1 /\ Cardinality(B) \in Nat
    BY <1>3, <1>4, FS_AddElement, FS_CardinalityType
<1>6. clock \in Nat /\ clock <= Cardinality(B) /\ clock' = clock + 1
    BY TypeParts, PositionsNat DEF Drawn, Draws
<1>7. Drawn' <=> clock' <= Cardinality(C)
    BY DEF Drawn
<1> HIDE DEF B, C
<1>8. QED
    BY <1>5, <1>6, <1>7

BaseInv == TypeInv /\ RequestsInv

LEMMA BaseStep ==
    ASSUME BaseInv, Effects
    PROVE  BaseInv'
<1> USE DEF BaseInv, TypeInv, RequestsInv
<1>0. /\ log \in Seq(RowRecord) /\ read \subseteq Positions /\ post \in [Posts -> PostRecord]
      /\ clock \in Positions /\ clock \in Nat
    BY TypeParts, PositionsNat
<1>i. Ids \in SUBSET Positions /\ Mine \subseteq Ids
    BY IdsType
<1> DEFINE Goal == /\ log' \in Seq(RowRecord) /\ read' \subseteq Positions
                   /\ post' \in [Posts -> PostRecord] /\ clock' \in Positions
                   /\ Drawn' /\ RequestsInv'
<1> SUFFICES Goal
    BY TypePartsNext DEF Effects
<1>1. ASSUME UNCHANGED <<log, post, clock>>, read \subseteq read', read' \subseteq Positions
      PROVE  Goal
    <2>1. log' = log /\ post' = post /\ clock' = clock
        BY <1>1
    <2>2. Ids' = Ids /\ Mine' = Mine
        BY <2>1, SameRows
    <2>3. Drawn' /\ OpenDistinct' /\ RowsFine'
        BY <2>1, <2>2 DEF Drawn, OpenDistinct, RowsFine
    <2>4. ASSUME NEW q \in Posts
          PROVE  RequestFine(q)'
        BY <1>0, <1>1, <2>1, <2>2, RequestKept DEF RequestFine
    <2>5. QED
        BY <1>0, <1>1, <2>1, <2>3, <2>4
<1>2. ASSUME NEW p \in Posts, Draws(p)
      PROVE  Goal
    <2>1. PICK r \in PostRecord :
            /\ Changes(p, r) /\ r.step = "open" /\ r.id = clock + 1 /\ (r.read => post[p].read)
            /\ IF post[p].step = "new" THEN p \in PeerPosts /\ r.key = p
               ELSE r.key = post[p].key /\ r.draft = post[p].draft
        BY <1>2 DEF Draws
    <2>2. /\ post' \in [Posts -> PostRecord] /\ post'[p] = r
          /\ \A q \in Posts \ {p} : post'[q] = post[q]
        BY <2>1, ChangedPost
    <2>3. /\ log' = log /\ read' = read /\ clock' = clock + 1
          /\ post[p].step \in {"new", "sent"}
        BY <1>2 DEF Draws
    <2>4. clock' \in Positions /\ clock' \in Nat /\ clock <= clock'
        BY <1>0, <2>3, ClockFits, PositionsNat
    <2>5. Ids' = Ids /\ Mine' = Mine
        BY <2>3, SameRows
    <2>6. Ids \subseteq 1..clock
        BY DEF RowsFine
    <2>7. RequestFine(p)'
        <3>1. ~r.read
            BY <2>1, <2>3 DEF RequestFine
        <3>2. r.id \in 1..clock' /\ r.id \notin Ids
            BY <1>0, <2>1, <2>3, <2>6
        <3>3. IF p \in MyPosts THEN r.key \in MyPosts /\ r.draft \in 1..MaxDrafts
              ELSE r.key = p
            BY <2>1, <2>3, MessagingAssumption DEF RequestFine, InFlight
        <3>4. QED
            BY <2>1, <2>2, <2>5, <3>1, <3>2, <3>3 DEF RequestFine, InFlight
    <2>8. ASSUME NEW q \in Posts, q # p
          PROVE  RequestFine(q)'
        BY <1>0, <2>2, <2>3, <2>4, <2>5, <2>8, RequestKept DEF RequestFine
    <2>9. OpenDistinct'
        <3>1. ASSUME NEW q \in Posts, q # p, post'[q].step = "open"
              PROVE  post'[q].id # r.id
            BY <1>0, <2>1, <2>2, <3>1 DEF RequestFine
        <3>2. QED
            BY <2>2, <3>1 DEF OpenDistinct
    <2>10. RowsFine'
        BY <1>0, <2>3, <2>4, <2>5 DEF RowsFine
    <2>11. Drawn'
        BY <1>2, DrawnOne
    <2>12. QED
        BY <1>0, <2>2, <2>3, <2>4, <2>7, <2>8, <2>9, <2>10, <2>11
<1>3. ASSUME NEW p \in Posts, Sends(p)
      PROVE  Goal
    <2>1. PICK r \in PostRecord :
            Changes(p, r) /\ r.step = "sent" /\ r.key = Key(p) /\ r.draft = tab.draft /\ ~r.read
        BY <1>3 DEF Sends
    <2>2. /\ post' \in [Posts -> PostRecord] /\ post'[p] = r
          /\ \A q \in Posts \ {p} : post'[q] = post[q]
        BY <2>1, ChangedPost
    <2>3. /\ log' = log /\ read' = read /\ clock' = clock /\ post[p].step = "new"
          /\ p \in MyPosts /\ Key(p) \in MyPosts /\ tab.draft \in 1..MaxDrafts
        BY <1>3 DEF Sends
    <2>4. Ids' = Ids /\ Mine' = Mine
        BY <2>3, SameRows
    <2>5. RequestFine(p)'
        BY <2>1, <2>2, <2>3 DEF RequestFine, InFlight
    <2>6. ASSUME NEW q \in Posts, q # p
          PROVE  RequestFine(q)'
        BY <1>0, <2>2, <2>3, <2>4, <2>6, RequestKept DEF RequestFine
    <2>7. OpenDistinct' /\ RowsFine'
        BY <2>1, <2>2, <2>3, <2>4 DEF OpenDistinct, RowsFine
    <2>8. Drawn'
        BY <1>0, <2>2, <2>3, DrawnKept
    <2>9. QED
        BY <1>0, <2>2, <2>3, <2>5, <2>6, <2>7, <2>8
<1>4. ASSUME NEW p \in Posts, Stores(p)
      PROVE  Goal
    <2>1. PICK r \in PostRecord :
            /\ Changes(p, r) /\ r.step = "stored" /\ r.key = post[p].key
            /\ r.draft = post[p].draft /\ r.id = post[p].id /\ r.read = post[p].read
        BY <1>4 DEF Stores
    <2>2. /\ post' \in [Posts -> PostRecord] /\ post'[p] = r
          /\ \A q \in Posts \ {p} : post'[q] = post[q]
        BY <2>1, ChangedPost
    <2>3. read' = read /\ clock' = clock /\ post[p].step = "open" /\ ~Stored(post[p].key)
        BY <1>4 DEF Stores
    <2>4. /\ Ids' = Ids \cup {post[p].id}
          /\ Mine' = Mine \cup (IF post[p].key \in MyPosts THEN {post[p].id} ELSE {})
        BY <1>4, StoredIds
    <2>5. post[p].id \in 1..clock
        BY <2>3 DEF RequestFine
    <2>6. RequestFine(p)'
        BY <2>1, <2>2, <2>3, <2>4 DEF RequestFine, InFlight
    <2>7. ASSUME NEW q \in Posts, q # p
          PROVE  RequestFine(q)'
        <3>1. post[q].step = "open" => post[q].id \notin Ids'
            BY <2>3, <2>4, <2>7 DEF RequestFine, OpenDistinct
        <3>2. QED
            BY <1>0, <2>2, <2>3, <2>4, <2>7, <3>1, RequestKept
    <2>8. OpenDistinct'
        BY <2>1, <2>2 DEF OpenDistinct
    <2>9. RowsFine'
        <3> DEFINE n == Len(log) + 1
        <3>0. /\ DOMAIN log' = DOMAIN log \cup {n}
              /\ \A k \in DOMAIN log : log'[k] = log[k]
              /\ log'[n] = [id |-> post[p].id, key |-> post[p].key, draft |-> post[p].draft]
            BY <1>4, StoredRows
        <3>1. /\ DOMAIN log' = DOMAIN log \cup {n}
              /\ \A k \in DOMAIN log : log'[k] = log[k]
              /\ log'[n].key = post[p].key /\ log'[n].draft = post[p].draft
            BY <3>0
        <3> HIDE DEF n
        <3>2. Ids' \subseteq 1..clock'
            BY <2>3, <2>4, <2>5 DEF RowsFine
        <3>3. \A k, l \in DOMAIN log' : log'[k].key = log'[l].key => k = l
            BY <2>3, <3>1 DEF RowsFine, Stored
        <3>4. post[p].key \in MyPosts => post[p].draft \in 1..MaxDrafts
            BY <2>3, MessagingAssumption DEF RequestFine, InFlight, Posts
        <3>5. \A k \in DOMAIN log' : log'[k].key \in MyPosts => log'[k].draft \in 1..MaxDrafts
            BY <3>1, <3>4 DEF RowsFine
        <3>6. QED
            BY <3>2, <3>3, <3>5 DEF RowsFine
    <2>10. Drawn'
        BY <1>0, <2>1, <2>2, <2>3, DrawnKept
    <2>11. log' \in Seq(RowRecord)
        BY <1>4, StoredRows
    <2>12. QED
        BY <1>0, <2>2, <2>3, <2>6, <2>7, <2>8, <2>9, <2>10, <2>11
<1>5. ASSUME NEW p \in Posts, Answers(p)
      PROVE  Goal
    <2>1. PICK r \in PostRecord :
            /\ Changes(p, r) /\ r.step = "answered"
            /\ r.key = post[p].key /\ r.draft = post[p].draft
            /\ \/ /\ post[p].step = "stored"
                  /\ r.id = post[p].id /\ r.read = post[p].read
               \/ /\ post[p].step = "open" /\ Stored(post[p].key)
                  /\ r.id = log[RowOf(post[p].key)].id /\ (r.read => r.id \in read)
        BY <1>5 DEF Answers
    <2>2. /\ post' \in [Posts -> PostRecord] /\ post'[p] = r
          /\ \A q \in Posts \ {p} : post'[q] = post[q]
        BY <2>1, ChangedPost
    <2>3. log' = log /\ read' = read /\ clock' = clock
        BY <1>5 DEF Answers
    <2>4. Ids' = Ids /\ Mine' = Mine
        BY <2>3, SameRows
    <2>5. RequestFine(p)'
        <3>1. p \in MyPosts => r.id \in Mine
            <4>1. CASE post[p].step = "stored"
                BY <2>1, <4>1 DEF RequestFine
            <4>2. CASE post[p].step = "open" /\ p \in MyPosts
                <5>1. post[p].key \in MyPosts
                    BY <4>2 DEF RequestFine, InFlight
                <5>2. /\ RowOf(post[p].key) \in DOMAIN log
                      /\ log[RowOf(post[p].key)].key = post[p].key
                    BY <2>1, <4>2, RowOfStored
                <5>3. QED
                    BY <2>1, <4>2, <5>1, <5>2 DEF Mine
            <4>3. QED
                BY <2>1, <4>1, <4>2
        <3>2. r.read => r.id \in read
            BY <2>1 DEF RequestFine
        <3>3. IF p \in MyPosts THEN r.key \in MyPosts /\ r.draft \in 1..MaxDrafts
              ELSE r.key = p
            BY <2>1 DEF RequestFine, InFlight
        <3>4. QED
            BY <2>1, <2>2, <2>3, <2>4, <3>1, <3>2, <3>3 DEF RequestFine, InFlight
    <2>6. ASSUME NEW q \in Posts, q # p
          PROVE  RequestFine(q)'
        BY <1>0, <2>2, <2>3, <2>4, <2>6, RequestKept DEF RequestFine
    <2>7. OpenDistinct' /\ RowsFine'
        BY <2>1, <2>2, <2>3, <2>4 DEF OpenDistinct, RowsFine
    <2>8. Drawn'
        BY <1>0, <2>1, <2>2, <2>3, DrawnKept
    <2>9. QED
        BY <1>0, <2>2, <2>3, <2>5, <2>6, <2>7, <2>8
<1>6. ASSUME Closes
      PROVE  Goal
    <2>1. PICK S \in SUBSET {q \in Posts : post[q].step # "new"} :
            post' = [q \in Posts |-> IF q \in S THEN Over ELSE post[q]]
        BY <1>6 DEF Closes
    <2>2. log' = log /\ read' = read /\ clock' = clock
        BY <1>6 DEF Closes
    <2>3. Ids' = Ids /\ Mine' = Mine
        BY <2>2, SameRows
    <2>4. post' \in [Posts -> PostRecord]
        BY <1>0, <2>1, PostTypes
    <2>5. \A q \in Posts : post'[q] = post[q] \/ (post'[q].step = "gone" /\ ~post'[q].read)
        BY <2>1, PostTypes
    <2>6. ASSUME NEW q \in Posts
          PROVE  RequestFine(q)'
        <3>1. CASE post'[q] = post[q]
            BY <1>0, <2>2, <2>3, <3>1, RequestKept DEF RequestFine
        <3>2. CASE post'[q].step = "gone" /\ ~post'[q].read
            BY <3>2 DEF RequestFine, InFlight
        <3>3. QED
            BY <2>5, <3>1, <3>2
    <2>7. OpenDistinct' /\ RowsFine'
        BY <2>2, <2>3, <2>5 DEF OpenDistinct, RowsFine
    <2>8. \A q \in Posts : post[q].step \notin {"new", "sent"}
                           => post'[q].step \notin {"new", "sent"}
        BY <2>5
    <2>9. Drawn'
        BY <1>0, <2>2, <2>8, DrawnKept
    <2>10. QED
        BY <1>0, <2>2, <2>4, <2>6, <2>7, <2>9
<1>7. CASE Reads
    BY <1>0, <1>1, <1>7, <1>i DEF Reads
<1>8. CASE UNCHANGED database
    BY <1>0, <1>1, <1>8 DEF database
<1>9. QED
    BY <1>2, <1>3, <1>4, <1>5, <1>6, <1>7, <1>8 DEF Effects, DatabaseStep

-----------------------------------------------------------------------------
(* Drafts.  A draft is written under one key, and the current one under    *)
(* the key the thread keeps for it.                                        *)

Writes(a, d) ==
    \/ \E k \in DOMAIN log : log[k].key = a /\ log[k].draft = d
    \/ \E p \in MyPosts : InFlight(p) /\ post[p].key = a /\ post[p].draft = d

OneKey ==
    \A a, b \in MyPosts, d \in 1..MaxDrafts : Writes(a, d) /\ Writes(b, d) => a = b

KeyIsKept ==
    \A a \in MyPosts, d \in 1..MaxDrafts :
        Writes(a, d) => d <= tab.draft /\ (d = tab.draft => tab.pending = <<a, d>>)

DraftsInv == OneKey /\ KeyIsKept

\* Only a new request writes what nothing wrote before.
LEMMA WritesStep ==
    ASSUME BaseInv, Effects, NEW a \in MyPosts, NEW d \in 1..MaxDrafts, Writes(a, d)'
    PROVE  \/ Writes(a, d)
           \/ \E p \in Posts : Sends(p) /\ a = Key(p) /\ d = tab.draft
<1> USE DEF BaseInv, TypeInv, RequestsInv
<1> DEFINE Goal == \/ Writes(a, d)
                   \/ \E p \in Posts : Sends(p) /\ a = Key(p) /\ d = tab.draft
<1>0. post \in [Posts -> PostRecord] /\ MyPosts \subseteq Posts /\ a \in Posts
    BY TypeParts DEF Posts
<1>1. ASSUME log' = log,
             \A q \in MyPosts : InFlight(q)' =>
                 InFlight(q) /\ post'[q].key = post[q].key /\ post'[q].draft = post[q].draft
      PROVE  Writes(a, d)
    BY <1>1 DEF Writes
<1>c. ASSUME NEW p \in Posts, NEW r, post' = [post EXCEPT ![p] = r], log' = log,
             p \in MyPosts => InFlight(p) /\ r.key = post[p].key /\ r.draft = post[p].draft
      PROVE  Writes(a, d)
    <2>1. \A q \in MyPosts : InFlight(q)' =>
              InFlight(q) /\ post'[q].key = post[q].key /\ post'[q].draft = post[q].draft
        BY <1>0, <1>c DEF InFlight
    <2>2. QED
        BY <1>1, <1>c, <2>1
<1>2. CASE UNCHANGED database \/ Reads
    BY <1>1, <1>2 DEF database, Reads, InFlight
<1>3. ASSUME NEW p \in Posts, Draws(p)
      PROVE  Goal
    <2>1. PICK r \in PostRecord :
            /\ Changes(p, r)
            /\ IF post[p].step = "new" THEN p \in PeerPosts /\ r.key = p
               ELSE r.key = post[p].key /\ r.draft = post[p].draft
        BY <1>3 DEF Draws
    <2>2. p \in MyPosts => post[p].step = "sent"
        BY <1>3, <2>1, MessagingAssumption DEF Draws
    <2>3. QED
        BY <1>3, <1>c, <2>1, <2>2 DEF Draws, Changes, InFlight
<1>4. ASSUME NEW p \in Posts, Sends(p)
      PROVE  Goal
    <2>1. PICK r \in PostRecord :
            Changes(p, r) /\ r.step = "sent" /\ r.key = Key(p) /\ r.draft = tab.draft
        BY <1>4 DEF Sends
    <2>2. post'[p] = r /\ \A q \in Posts \ {p} : post'[q] = post[q]
        BY <2>1, ChangedPost
    <2>3. log' = log
        BY <1>4 DEF Sends
    <2>4. QED
        BY <1>0, <1>4, <2>1, <2>2, <2>3 DEF Writes, InFlight
<1>5. ASSUME NEW p \in Posts, Stores(p)
      PROVE  Goal
    <2>1. PICK r \in PostRecord :
            Changes(p, r) /\ r.key = post[p].key /\ r.draft = post[p].draft
        BY <1>5 DEF Stores
    <2>2. post'[p] = r /\ \A q \in Posts \ {p} : post'[q] = post[q]
        BY <2>1, ChangedPost
    <2>3. post[p].step = "open" /\ InFlight(p)
        BY <1>5 DEF Stores, InFlight
    <2>4. post[p].key \in MyPosts => p \in MyPosts
        BY <2>3 DEF RequestFine
    <2> DEFINE n == Len(log) + 1
    <2>5. /\ DOMAIN log' = DOMAIN log \cup {n}
          /\ \A k \in DOMAIN log : log'[k] = log[k]
          /\ log'[n] = [id |-> post[p].id, key |-> post[p].key, draft |-> post[p].draft]
        BY <1>5, StoredRows
    <2>6. /\ DOMAIN log' = DOMAIN log \cup {n}
          /\ \A k \in DOMAIN log : log'[k] = log[k]
          /\ log'[n].key = post[p].key /\ log'[n].draft = post[p].draft
        BY <2>5
    <2> HIDE DEF n
    <2>7. CASE \E k \in DOMAIN log' : log'[k].key = a /\ log'[k].draft = d
        BY <2>3, <2>4, <2>6, <2>7 DEF Writes
    <2>8. CASE \E q \in MyPosts : InFlight(q)' /\ post'[q].key = a /\ post'[q].draft = d
        BY <1>0, <2>1, <2>2, <2>3, <2>8 DEF Writes, InFlight
    <2>9. QED
        BY <2>7, <2>8 DEF Writes
<1>6. ASSUME NEW p \in Posts, Answers(p)
      PROVE  Goal
    <2>1. PICK r \in PostRecord :
            /\ Changes(p, r) /\ r.key = post[p].key /\ r.draft = post[p].draft
            /\ post[p].step \in {"open", "stored"}
        BY <1>6 DEF Answers
    <2>2. QED
        BY <1>6, <1>c, <2>1 DEF Answers, Changes, InFlight
<1>7. CASE Closes
    <2>1. PICK S \in SUBSET {q \in Posts : post[q].step # "new"} :
            post' = [q \in Posts |-> IF q \in S THEN Over ELSE post[q]]
        BY <1>7 DEF Closes
    <2>2. \A q \in Posts : post'[q] = post[q] \/ post'[q].step = "gone"
        BY <2>1, PostTypes
    <2>3. \A q \in MyPosts : InFlight(q)' =>
              InFlight(q) /\ post'[q].key = post[q].key /\ post'[q].draft = post[q].draft
        BY <1>0, <2>2 DEF InFlight
    <2>4. QED
        BY <1>1, <1>7, <2>3 DEF Closes
<1>8. QED
    BY <1>2, <1>3, <1>4, <1>5, <1>6, <1>7 DEF Effects, DatabaseStep

LEMMA DraftsStep ==
    ASSUME BaseInv, DraftsInv, Effects
    PROVE  DraftsInv'
<1> USE DEF DraftsInv
<1>0. tab.draft \in Nat
    BY TypeParts, MessagingAssumption DEF BaseInv, TypeInv, TabRecord
<1>1. ASSUME NEW p \in Posts, Sends(p)
      PROVE  DraftsInv'
    <2>1. /\ tab'.pending = <<Key(p), tab.draft>> /\ tab'.draft = tab.draft
          /\ Key(p) \in MyPosts /\ tab.draft \in 1..MaxDrafts
        BY <1>1 DEF Sends
    <2>2. ASSUME NEW b \in MyPosts, Writes(b, tab.draft)
          PROVE  b = Key(p)
        <3>1. tab.pending = <<b, tab.draft>>
            BY <2>1, <2>2 DEF KeyIsKept
        <3>2. tab.pending # Nil /\ tab.pending[1] = b /\ tab.pending[2] = tab.draft
            BY <2>1, <3>1, MessagingAssumption
        <3>3. QED
            BY <3>2 DEF Key
    <2>3. \A q \in Posts : Sends(q) => Key(q) = Key(p)
        BY <2>1 DEF Sends
    <2>4. ASSUME NEW a \in MyPosts, NEW d \in 1..MaxDrafts, Writes(a, d)'
          PROVE  Writes(a, d) \/ (a = Key(p) /\ d = tab.draft)
        BY <2>3, <2>4, WritesStep
    <2>5. OneKey'
        <3> SUFFICES ASSUME NEW a \in MyPosts, NEW b \in MyPosts, NEW d \in 1..MaxDrafts,
                            Writes(a, d)', Writes(b, d)'
                     PROVE  a = b
            BY DEF OneKey
        <3>1. QED
            BY <2>2, <2>4 DEF OneKey
    <2>6. KeyIsKept'
        <3> SUFFICES ASSUME NEW a \in MyPosts, NEW d \in 1..MaxDrafts, Writes(a, d)'
                     PROVE  d <= tab'.draft /\ (d = tab'.draft => tab'.pending = <<a, d>>)
            BY DEF KeyIsKept
        <3>1. QED
            BY <1>0, <2>1, <2>2, <2>4 DEF KeyIsKept
    <2>7. QED
        BY <2>5, <2>6
<1>2. CASE ~\E p \in Posts : Sends(p)
    <2>1. ASSUME NEW a \in MyPosts, NEW d \in 1..MaxDrafts, Writes(a, d)'
          PROVE  Writes(a, d)
        BY <1>2, <2>1, WritesStep
    <2>2. OneKey'
        BY <2>1 DEF OneKey
    <2>3. \/ tab'.draft = tab.draft /\ tab'.pending = tab.pending
          \/ tab'.draft = tab.draft + 1
        BY <1>2 DEF Effects, DraftStep
    <2>4. ASSUME NEW a \in MyPosts, NEW d \in 1..MaxDrafts, Writes(a, d)'
          PROVE  d <= tab'.draft /\ (d = tab'.draft => tab'.pending = <<a, d>>)
        <3>1. d <= tab.draft /\ (d = tab.draft => tab.pending = <<a, d>>)
            BY <2>1, <2>4 DEF KeyIsKept
        <3>2. d \in Nat
            BY MessagingAssumption
        <3>3. QED
            BY <1>0, <2>3, <3>1, <3>2
    <2>5. KeyIsKept'
        BY <2>4 DEF KeyIsKept
    <2>6. QED
        BY <2>2, <2>5
<1>3. QED
    BY <1>1, <1>2

-----------------------------------------------------------------------------
(* The thread.  A cursor is the position of a message that was stored, and *)
(* a message committed in order later lies beyond every such cursor.       *)

InOrderIds == {log[k].id : k \in {l \in DOMAIN log : InOrder(l)}}

MemoryInv ==
    /\ tab.items \subseteq Ids /\ tab.cursor \in Ids \cup {0} /\ tab.seen \subseteq read
    /\ ~tab.loaded => tab.cursor = 0
    /\ \A i \in InOrderIds : i <= tab.cursor => Loaded(i)

Asking == view.sync.step \in {"ask", "got"}

RequestInv ==
    /\ Asking => view.sync.after \in Ids \cup {0}
    /\ view.sync.ids \subseteq Ids /\ view.sync.seen \subseteq read
    /\ Asking /\ tab.loaded =>
        /\ view.sync.from <= tab.cursor
        /\ \A i \in InOrderIds : i <= view.sync.after => Loaded(i) \/ i \in view.sync.ids
    /\ view.sync.step = "got" /\ ~tab.loaded =>
        \A i \in InOrderIds : i <= view.sync.after => i \in view.sync.ids \/ i < view.sync.low
    /\ view.sync.step = "marked" /\ view.sync.from = 1 =>
        \A i \in tab.items \cap Theirs : i <= view.sync.after => i \in read

ThreadInv == MemoryInv /\ RequestInv

LEMMA InOrderType ==
    ASSUME BaseInv
    PROVE  /\ InOrderIds \subseteq Ids /\ Ids \subseteq Nat /\ 0 \notin Ids
           /\ Ids \in SUBSET Positions /\ Mine \subseteq Ids /\ Theirs = Ids \ Mine
<1>1. Ids \subseteq 1..clock /\ clock \in Nat
    BY TypeParts, PositionsNat DEF BaseInv, RequestsInv, RowsFine, TypeInv
<1>2. Ids \subseteq Nat /\ 0 \notin Ids
    BY <1>1
<1>3. InOrderIds \subseteq Ids
    BY DEF InOrderIds, Ids
<1>4. QED
    BY <1>2, <1>3, IdsType DEF BaseInv, TypeInv, Theirs

\* A row that is committed in order comes after every row there was.
LEMMA LogGrows ==
    ASSUME BaseInv, log' = log \/ \E p \in Posts : Stores(p)
    PROVE  /\ Ids \subseteq Ids' /\ \A i \in Ids : i \in Theirs' <=> i \in Theirs
           /\ \A i \in InOrderIds' : i \in InOrderIds \/ (i \in Nat \ {0} /\ \A j \in Ids : j < i)
<1>1. CASE log' = log
    <2>1. Ids' = Ids /\ Theirs' = Theirs
        BY <1>1, SameRows
    <2>2. InOrderIds' = InOrderIds
        BY <1>1 DEF InOrderIds, InOrder, Before
    <2>3. QED
        BY <2>1, <2>2
<1>2. ASSUME NEW p \in Posts, Stores(p)
      PROVE  /\ Ids \subseteq Ids' /\ \A i \in Ids : i \in Theirs' <=> i \in Theirs
             /\ \A i \in InOrderIds' : i \in InOrderIds \/ (i \in Nat \ {0} /\ \A j \in Ids : j < i)
    <2>n. PICK n : n = Len(log) + 1
        OBVIOUS
    <2>0. RequestFine(p) /\ post[p].step = "open" /\ TypeOK
        BY <1>2 DEF BaseInv, RequestsInv, TypeInv, Stores
    <2>1. /\ Ids' = Ids \cup {post[p].id}
          /\ Mine' = Mine \cup (IF post[p].key \in MyPosts THEN {post[p].id} ELSE {})
        BY <1>2, <2>0, StoredIds
    <2>2. post[p].id \notin Ids /\ post[p].id \in Nat \ {0}
        BY <2>0, TypeParts, PositionsNat DEF RequestFine
    <2>3. \A i \in Ids : i \in Theirs' <=> i \in Theirs
        BY <2>1, <2>2 DEF Theirs
    <2>4. /\ DOMAIN log = 1..Len(log) /\ Len(log) \in Nat
          /\ DOMAIN log' = DOMAIN log \cup {n}
          /\ \A k \in DOMAIN log : log'[k] = log[k]
          /\ log'[n] = [id |-> post[p].id, key |-> post[p].key, draft |-> post[p].draft]
        BY <1>2, <2>0, <2>n, StoredRows, RowsType
    <2>5. log'[n].id = post[p].id
        BY <2>4
    <2>6. ASSUME NEW k \in DOMAIN log
          PROVE  Before(k)' = Before(k) /\ (InOrder(k)' <=> InOrder(k)) /\ log'[k].id = log[k].id
        <3>1. \A j \in 1..k - 1 : j \in DOMAIN log
            BY <2>4
        <3>2. \A j \in 1..k - 1 : log'[j].id = log[j].id
            BY <2>4, <3>1
        <3>3. Before(k)' = Before(k)
            BY <3>2 DEF Before
        <3>4. QED
            BY <2>4, <3>3 DEF InOrder
    <2>7. Before(n)' = Ids
        <3>1. 1..n - 1 = DOMAIN log
            BY <2>4, <2>n
        <3>2. Before(n)' = {log'[j].id : j \in 1..n - 1}
            BY DEF Before
        <3>3. QED
            BY <2>4, <3>1, <3>2 DEF Ids
    <2>8. InOrder(n)' => \A j \in Ids : j < log'[n].id
        BY <2>7 DEF InOrder
    <2>9. InOrderIds' = {log'[k].id : k \in {l \in DOMAIN log' : InOrder(l)'}}
        BY DEF InOrderIds
    <2>10. ASSUME NEW i \in InOrderIds'
           PROVE  i \in InOrderIds \/ (i \in Nat \ {0} /\ \A j \in Ids : j < i)
        <3>1. PICK k \in DOMAIN log' : InOrder(k)' /\ i = log'[k].id
            BY <2>9, <2>10
        <3>2. CASE k \in DOMAIN log
            BY <2>6, <3>1, <3>2 DEF InOrderIds
        <3>3. CASE k = n
            BY <2>2, <2>5, <2>8, <3>1, <3>3
        <3>4. QED
            BY <2>4, <3>1, <3>2, <3>3
    <2>11. QED
        BY <2>1, <2>3, <2>10
<1>3. QED
    BY <1>1, <1>2

\* What was not committed yet is not behind a cursor.
LEMMA CursorStays ==
    ASSUME BaseInv, log' = log \/ \E p \in Posts : Stores(p),
           NEW c \in Ids \cup {0}, NEW i \in InOrderIds', i <= c
    PROVE  i \in InOrderIds
<1>1. i \in InOrderIds \/ (i \in Nat \ {0} /\ \A j \in Ids : j < i)
    BY LogGrows
<1>2. Ids \subseteq Nat
    BY InOrderType
<1>3. ASSUME i \in Nat \ {0}, \A j \in Ids : j < i
      PROVE  FALSE
    <2>1. CASE c = 0
        BY <1>3, <2>1
    <2>2. CASE c \in Ids
        <3>1. c < i /\ c \in Nat
            BY <1>2, <1>3, <2>2
        <3>2. QED
            BY <1>3, <3>1
    <2>3. QED
        BY <2>1, <2>2
<1>4. QED
    BY <1>1, <1>3

LEMMA ReadGrows ==
    ASSUME Effects
    PROVE  read \subseteq read'
BY DEF Effects, DatabaseStep, database, Reads, Closes, Draws, Sends, Stores, Answers

\* A request that ends, or starts over, keeps no promise but the cursor's.
LEMMA EndsFine ==
    ASSUME MemoryInv', Ends
    PROVE  RequestInv'
<1>1. CASE Resting(view'.sync)
    BY <1>1 DEF Resting, RequestInv, Asking
<1>2. CASE StartedFrom(view'.sync, tab')
    BY <1>2 DEF StartedFrom, RequestInv, Asking, MemoryInv
<1>3. QED
    BY <1>1, <1>2 DEF Ends

\* The request goes on while the memory keeps what it showed and its cursor.
LEMMA RequestGoesOn ==
    ASSUME BaseInv, ThreadInv, Effects, MemoryInv', GoesOn,
           log' = log \/ \E p \in Posts : Stores(p),
           tab'.cursor = tab.cursor, tab'.oldest = tab.oldest, tab'.loaded = tab.loaded,
           tab.items \subseteq tab'.items, tab'.items \ tab.items \subseteq Mine
    PROVE  RequestInv'
<1>1. CASE Ends
    BY <1>1, EndsFine
<1>2. CASE SameRequest
    <2> USE DEF SameRequest
    <2>1. /\ Ids \subseteq Ids' /\ \A i \in Ids : i \in Theirs' <=> i \in Theirs
          /\ read \subseteq read'
        BY LogGrows, ReadGrows
    <2>2. \A i : Loaded(i) => Loaded(i)'
        BY DEF Loaded
    <2>3. ASSUME Asking', NEW i \in InOrderIds', i <= view'.sync.after
          PROVE  i \in InOrderIds /\ i <= view.sync.after
        <3>1. view.sync.after \in Ids \cup {0}
            BY <1>2, <2>3 DEF ThreadInv, RequestInv, Asking
        <3>2. QED
            BY <1>2, <2>3, <3>1, CursorStays
    <2>4. /\ Asking' => view'.sync.after \in Ids' \cup {0}
          /\ view'.sync.ids \subseteq Ids' /\ view'.sync.seen \subseteq read'
        BY <1>2, <2>1 DEF ThreadInv, RequestInv, Asking
    <2>5. Asking' /\ tab'.loaded =>
            /\ view'.sync.from <= tab'.cursor
            /\ \A i \in InOrderIds' : i <= view'.sync.after => Loaded(i)' \/ i \in view'.sync.ids
        <3> SUFFICES ASSUME Asking', tab'.loaded
                     PROVE  /\ view'.sync.from <= tab'.cursor
                            /\ \A i \in InOrderIds' :
                                i <= view'.sync.after => Loaded(i)' \/ i \in view'.sync.ids
            OBVIOUS
        <3>1. Asking /\ tab.loaded
            BY <1>2 DEF Asking
        <3>2. view'.sync.from <= tab'.cursor
            BY <1>2, <3>1 DEF ThreadInv, RequestInv
        <3>3. ASSUME NEW i \in InOrderIds', i <= view'.sync.after
              PROVE  Loaded(i)' \/ i \in view'.sync.ids
            <4>1. i \in InOrderIds /\ i <= view.sync.after
                BY <2>3, <3>3
            <4>2. Loaded(i) \/ i \in view.sync.ids
                BY <3>1, <4>1 DEF ThreadInv, RequestInv
            <4>3. QED
                BY <1>2, <2>2, <4>2
        <3>4. QED
            BY <3>2, <3>3
    <2>6. view'.sync.step = "got" /\ ~tab'.loaded =>
            \A i \in InOrderIds' :
                i <= view'.sync.after => i \in view'.sync.ids \/ i < view'.sync.low
        BY <1>2, <2>3 DEF ThreadInv, RequestInv, Asking
    <2>7. view'.sync.step = "marked" /\ view'.sync.from = 1 =>
            \A i \in tab'.items \cap Theirs' : i <= view'.sync.after => i \in read'
        <3> SUFFICES ASSUME view'.sync.step = "marked", view'.sync.from = 1,
                            NEW i \in tab'.items \cap Theirs', i <= view'.sync.after
                     PROVE  i \in read'
            OBVIOUS
        <3>1. i \in Ids
            BY InOrderType DEF ThreadInv, MemoryInv
        <3>2. i \in tab.items \cap Theirs
            BY <2>1, <3>1, InOrderType
        <3>3. i \in read
            BY <1>2, <3>2 DEF ThreadInv, RequestInv
        <3>4. QED
            BY <2>1, <3>3
    <2>8. QED
        BY <2>4, <2>5, <2>6, <2>7 DEF RequestInv
<1>3. QED
    BY <1>1, <1>2 DEF GoesOn

LEMMA ThreadInvStep ==
    ASSUME BaseInv, ThreadInv, Effects
    PROVE  ThreadInv'
<1> USE DEF ThreadInv
<1>0. /\ Ids \subseteq Nat /\ Ids \in SUBSET Positions /\ InOrderIds \subseteq Ids
      /\ 0 \notin Ids /\ Mine \subseteq Ids /\ Theirs = Ids \ Mine
    BY InOrderType
<1>r. read \subseteq read'
    BY ReadGrows
<1>t. /\ tab.oldest \in Nat /\ tab.cursor \in Nat /\ view.sync.after \in Nat
      /\ view.sync.from \in Nat /\ view.sync.low \in Nat
    <2>1. tab \in TabRecord /\ view \in ViewRecord
        BY TypeParts DEF BaseInv, TypeInv
    <2>2. view.sync \in Sync0
        BY <2>1 DEF ViewRecord
    <2>3. QED
        BY <2>1, <2>2, PositionsNat DEF TabRecord, Sync0
<1>s. ASSUME log' = log
      PROVE  Ids' = Ids /\ Mine' = Mine /\ Theirs' = Theirs /\ InOrderIds' = InOrderIds
    BY <1>s, SameRows DEF InOrderIds, InOrder, Before
<1>1. CASE Idles
    <2> USE DEF SameMemory
    <2>1. log' = log \/ \E p \in Posts : Stores(p)
        BY <1>1 DEF Idles
    <2>2. Ids \subseteq Ids'
        BY <2>1, LogGrows
    <2>3. ASSUME NEW i \in InOrderIds', i <= tab'.cursor
          PROVE  Loaded(i)'
        <3>1. i \in InOrderIds
            BY <1>1, <2>1, <2>3, CursorStays DEF Idles, MemoryInv
        <3>2. QED
            BY <1>1, <2>3, <3>1 DEF Idles, MemoryInv, Loaded
    <2>4. MemoryInv'
        BY <1>1, <1>r, <2>2, <2>3 DEF Idles, MemoryInv
    <2>5. QED
        BY <1>1, <2>1, <2>4, RequestGoesOn DEF Idles
<1>2. ASSUME NEW p \in Posts, ShowsSent(p)
      PROVE  ThreadInv'
    <2>1. post[p].id \in Mine /\ (post[p].read => post[p].id \in read)
        BY <1>2 DEF BaseInv, RequestsInv, RequestFine, ShowsSent
    <2>2. log' = log /\ read' = read
        BY <1>2 DEF ShowsSent
    <2>3. Ids' = Ids /\ Mine' = Mine /\ InOrderIds' = InOrderIds
        BY <1>s, <2>2
    <2>4. MemoryInv'
        BY <1>0, <1>2, <2>1, <2>2, <2>3 DEF ShowsSent, MemoryInv, Loaded
    <2>5. QED
        BY <1>2, <2>1, <2>2, <2>4, RequestGoesOn DEF ShowsSent
<1>3. CASE GetsLatest
    <2>1. /\ Ids' = Ids /\ Mine' = Mine /\ InOrderIds' = InOrderIds
          /\ log' = log /\ read' = read /\ tab' = tab /\ ~tab.loaded
        BY <1>3, <1>s DEF GetsLatest
    <2>2. MemoryInv'
        BY <2>1 DEF MemoryInv, Loaded
    <2> DEFINE page == LastPage(Ids)
    <2>3. page \subseteq Ids /\ page \in SUBSET Positions
        BY <1>0 DEF LastPage
    <2>4. Latest(page) \in Ids \cup {0}
        BY <2>3, PositionsMax DEF Latest
    <2>5. ASSUME NEW i \in InOrderIds
          PROVE  i \in page \/ i < (IF page = Ids THEN 0 ELSE Min(page))
        <3>1. CASE i \in page
            BY <3>1
        <3>2. CASE i \notin page
            <4>1. i \in Ids /\ page # Ids /\ page # {}
                BY <1>0, <3>2, LastPageNonempty
            <4>2. Min(page) \in page
                BY <2>3, <4>1, PositionsMin
            <4>3. ~(Min(page) <= i)
                BY <1>0, <3>2, <4>1, <4>2, LastPageSuffix
            <4>4. i \in Nat /\ Min(page) \in Nat
                BY <1>0, <2>3, <4>1, <4>2
            <4>5. i < Min(page)
                BY <4>3, <4>4
            <4>6. QED
                BY <4>1, <4>5
        <3>3. QED
            BY <3>1, <3>2
    <2>6. /\ view'.sync.step = "got" /\ view'.sync.after = Latest(page)
          /\ view'.sync.low = IF page = Ids THEN 0 ELSE Min(page)
          /\ view'.sync.ids = page /\ view'.sync.seen = page \cap read
        BY <1>3 DEF GetsLatest
    <2> HIDE DEF page
    <2>7. RequestInv'
        BY <2>1, <2>3, <2>4, <2>5, <2>6 DEF RequestInv, Asking
    <2>8. QED
        BY <2>2, <2>7
<1>4. CASE GetsNext
    <2> DEFINE rest == NewerThan(view.sync.after, view.sync.from)
               page == FirstPage(rest)
    <2>1. /\ Ids' = Ids /\ Mine' = Mine /\ Theirs' = Theirs /\ InOrderIds' = InOrderIds
          /\ log' = log /\ read' = read /\ tab' = tab /\ tab.loaded
        BY <1>4, <1>s DEF GetsNext
    <2>2. MemoryInv'
        BY <2>1 DEF MemoryInv, Loaded
    <2>3. /\ view'.sync.after = IF page = {} THEN view.sync.after ELSE Max(page)
          /\ view'.sync.ids = view.sync.ids \cup page
          /\ view'.sync.seen = view.sync.seen \cup (page \cap read)
          /\ view'.sync.from = 0 /\ view'.sync.step \in {"ask", "got"} /\ Asking
        BY <1>4 DEF GetsNext, Asking
    <2>4. page \subseteq Ids /\ page \in SUBSET Positions /\ rest \in SUBSET Positions
        BY <1>0 DEF FirstPage, NewerThan
    <2>5. page # {} => Max(page) \in page
        BY <2>4, PositionsMax
    <2>6. view'.sync.after \in Ids \cup {0}
        BY <2>3, <2>4, <2>5 DEF RequestInv
    <2>7. ASSUME NEW i \in InOrderIds, i <= view'.sync.after
          PROVE  Loaded(i) \/ i \in view'.sync.ids
        <3>1. i \in Ids /\ i \in Nat
            BY <1>0
        <3>2. CASE i <= view.sync.after
            BY <2>1, <2>3, <3>2 DEF RequestInv
        <3>3. CASE view.sync.after < i /\ view.sync.from # 0 /\ i < view.sync.from
            <4>1. view.sync.from <= tab.cursor
                BY <2>1, <2>3 DEF RequestInv
            <4>2. i <= tab.cursor
                BY <1>t, <3>1, <3>3, <4>1
            <4>3. QED
                BY <4>2 DEF MemoryInv
        <3>4. CASE view.sync.after < i /\ (view.sync.from = 0 \/ view.sync.from <= i)
            <4>1. i \in rest
                BY <1>t, <3>1, <3>4 DEF NewerThan
            <4>2. page # {}
                BY <1>t, <2>3, <2>7, <3>1, <3>4
            <4>3. Max(page) \in page /\ i <= Max(page)
                BY <2>3, <2>5, <2>7, <4>2
            <4>4. i \in page
                BY <2>4, <4>1, <4>3, FirstPagePrefix
            <4>5. QED
                BY <2>3, <4>4
        <3>5. QED
            BY <1>t, <3>1, <3>2, <3>3, <3>4
    <2> HIDE DEF rest, page
    <2>8. view'.sync.from <= tab'.cursor
        BY <1>t, <2>1, <2>3
    <2>9. \A i : Loaded(i)' <=> Loaded(i)
        BY <2>1 DEF Loaded
    <2>10. RequestInv'
        BY <2>1, <2>3, <2>4, <2>6, <2>7, <2>8, <2>9 DEF RequestInv, Asking
    <2>11. QED
        BY <2>2, <2>10
<1>5. CASE Merges
    <2>1. /\ Ids' = Ids /\ Mine' = Mine /\ InOrderIds' = InOrderIds
          /\ log' = log /\ read' = read /\ view.sync.step = "got" /\ Asking
        BY <1>5, <1>s DEF Merges, Asking
    <2>2. /\ tab'.items = tab.items \cup view.sync.ids /\ tab'.seen = tab.seen \cup view.sync.seen
          /\ tab'.cursor = view.sync.after /\ tab'.loaded = TRUE
          /\ tab'.oldest = IF tab.loaded THEN tab.oldest ELSE view.sync.low
        BY <1>5 DEF Merges
    <2>3. ASSUME NEW i \in InOrderIds, i <= view.sync.after
          PROVE  Loaded(i)'
        <3>1. CASE tab.loaded
            BY <2>1, <2>2, <2>3, <3>1 DEF RequestInv, Loaded
        <3>2. CASE ~tab.loaded
            BY <2>1, <2>2, <2>3, <3>2 DEF RequestInv, Loaded
        <3>3. QED
            BY <3>1, <3>2
    <2>4. MemoryInv'
        BY <2>1, <2>2, <2>3 DEF MemoryInv, RequestInv
    <2>5. RequestInv'
        <3>1. CASE Ends
            BY <2>4, <3>1, EndsFine
        <3>2. CASE view'.sync.step = "mark" /\ view'.sync.ids = {} /\ view'.sync.seen = {}
            BY <3>2 DEF RequestInv, Asking
        <3>3. QED
            BY <1>5, <3>1, <3>2 DEF Merges
    <2>6. QED
        BY <2>4, <2>5
<1>6. CASE Marks
    <2>1. /\ Ids' = Ids /\ Mine' = Mine /\ Theirs' = Theirs /\ InOrderIds' = InOrderIds
          /\ log' = log /\ tab' = tab
        BY <1>6, <1>s DEF Marks
    <2>2. MemoryInv'
        BY <1>r, <2>1 DEF MemoryInv, Loaded
    <2>3. /\ view'.sync.step = "marked" /\ view'.sync.after = view.sync.after
          /\ view'.sync.ids = view.sync.ids /\ view'.sync.seen = view.sync.seen
          /\ read' = read \cup {i \in Theirs \ read : i <= view.sync.after}
        BY <1>6 DEF Marks
    <2>4. \A i \in tab'.items \cap Theirs' : i <= view'.sync.after => i \in read'
        BY <2>1, <2>3
    <2>5. RequestInv'
        BY <1>r, <2>1, <2>3, <2>4 DEF RequestInv, Asking
    <2>6. QED
        BY <2>2, <2>5
<1>7. CASE SeesMark
    <2>1. /\ Ids' = Ids /\ Mine' = Mine /\ InOrderIds' = InOrderIds
          /\ log' = log /\ read' = read
        BY <1>7, <1>s DEF SeesMark
    <2>2. tab'.seen \subseteq read'
        BY <1>7, <2>1 DEF SeesMark, MemoryInv, RequestInv
    <2>3. MemoryInv'
        BY <1>7, <2>1, <2>2 DEF SeesMark, MemoryInv, Loaded
    <2>4. QED
        BY <1>7, <2>3, EndsFine DEF SeesMark
<1>8. CASE GetsOlder
    <2> DEFINE rest == {i \in Ids : i < tab.oldest}
               page == LastPage(rest)
    <2>1. /\ Ids' = Ids /\ Mine' = Mine /\ InOrderIds' = InOrderIds
          /\ log' = log /\ read' = read
        BY <1>8, <1>s DEF GetsOlder
    <2>2. /\ tab'.items = tab.items \cup page /\ tab'.seen = tab.seen \cup (page \cap read)
          /\ tab'.oldest = IF page = rest THEN 0 ELSE Min(page)
          /\ tab'.cursor = tab.cursor /\ tab'.loaded = tab.loaded /\ Ends
        BY <1>8 DEF GetsOlder
    <2>3. /\ page \subseteq rest /\ page \in SUBSET Positions /\ rest \in SUBSET Positions
          /\ page \subseteq Ids
        BY <1>0 DEF LastPage
    <2>4. ASSUME NEW i \in InOrderIds, Loaded(i)
          PROVE  Loaded(i)'
        <3>1. CASE i \in tab.items \/ i \in page
            BY <2>2, <3>1 DEF Loaded
        <3>2. CASE i \notin tab.items /\ i \notin page
            <4>1. i \in rest /\ page # rest /\ page # {}
                BY <1>0, <2>3, <2>4, <3>2, LastPageNonempty DEF Loaded
            <4>2. Min(page) \in page
                BY <2>3, <4>1, PositionsMin
            <4>3. ~(Min(page) <= i)
                BY <2>3, <3>2, <4>1, <4>2, LastPageSuffix
            <4>4. i \in Nat /\ Min(page) \in Nat
                BY <1>0, <2>3, <4>1, <4>2
            <4>5. i < Min(page)
                BY <4>3, <4>4
            <4>6. QED
                BY <2>2, <4>1, <4>5 DEF Loaded
        <3>3. QED
            BY <3>1, <3>2
    <2> HIDE DEF rest, page
    <2>5. MemoryInv'
        BY <2>1, <2>2, <2>3, <2>4 DEF MemoryInv
    <2>6. QED
        BY <2>2, <2>5, EndsFine
<1>9. CASE Reloads
    <2>1. /\ Ids' = Ids /\ InOrderIds' = InOrderIds /\ read' = read
          /\ tab'.items = {} /\ tab'.seen = {} /\ tab'.cursor = 0 /\ ~tab'.loaded
        BY <1>9, <1>s DEF Reloads
    <2>2. \A i \in InOrderIds : ~(i <= 0)
        BY <1>0
    <2>3. MemoryInv'
        BY <2>1, <2>2 DEF MemoryInv
    <2>4. QED
        BY <1>9, <2>3, EndsFine DEF Reloads, Ends
<1>10. QED
    BY <1>1, <1>2, <1>3, <1>4, <1>5, <1>6, <1>7, <1>8, <1>9 DEF Effects, ThreadStep

-----------------------------------------------------------------------------
(* The invariant and what follows from it *)

MessagingInv == BaseInv /\ DraftsInv /\ ThreadInv

LEMMA InitInv ==
    ASSUME Init
    PROVE  MessagingInv
<1> USE DEF Init
<1>1. /\ log = <<>> /\ read = {} /\ clock = 0 /\ faults = 0 /\ event = FALSE
      /\ post = [p \in Posts |-> NoPost] /\ tab = Unloaded(1) /\ view = Opened(tab)
    OBVIOUS
<1>2. 1 \in 1..MaxDrafts + 1
    BY MessagingAssumption
<1>3. /\ tab \in TabRecord /\ tab.items = {} /\ tab.seen = {} /\ tab.cursor = 0
      /\ ~tab.loaded /\ tab.draft = 1
    BY <1>1, <1>2, UnloadedType DEF Unloaded
<1>4. view \in ViewRecord /\ view.sending = Nil /\ StartedFrom(view.sync, tab)
    BY <1>1, <1>3, OpenedEffect
<1>5. \A p \in Posts : post[p] = NoPost
    BY <1>1
<1>6. log \in Seq(RowRecord) /\ DOMAIN log = {}
    BY <1>1
<1>7. Ids = {} /\ Mine = {} /\ InOrderIds = {}
    BY <1>6 DEF Ids, Mine, InOrderIds
<1>8. TypeOK
    <2>1. 0 \in 0..MaxFaults
        BY MessagingAssumption
    <2>2. post \in [Posts -> PostRecord]
        BY <1>1, PostTypes
    <2>3. QED
        BY <1>1, <1>3, <1>4, <1>6, <2>1, <2>2, PositionsNat, TypeParts
<1>9. Drawn
    <2> DEFINE B == {p \in Posts : post[p].step \notin {"new", "sent"}}
    <2>1. B \in SUBSET Posts
        OBVIOUS
    <2>2. Cardinality(B) \in Nat
        BY <2>1, PostsFinite, FS_Subset, FS_CardinalityType
    <2>3. Drawn <=> clock <= Cardinality(B)
        BY DEF Drawn
    <2> HIDE DEF B
    <2>4. QED
        BY <1>1, <2>2, <2>3
<1>10. SendingDraft
    BY <1>4 DEF SendingDraft
<1>11. RequestsInv
    <2>1. \A p \in Posts : RequestFine(p)
        BY <1>5, PostTypes DEF RequestFine, InFlight
    <2>2. OpenDistinct
        BY <1>5, PostTypes DEF OpenDistinct
    <2>3. RowsFine
        BY <1>6, <1>7 DEF RowsFine
    <2>4. QED
        BY <2>1, <2>2, <2>3 DEF RequestsInv
<1>12. DraftsInv
    <2>1. \A a, d : ~Writes(a, d)
        BY <1>5, <1>6, PostTypes DEF Writes, InFlight, Posts
    <2>2. QED
        BY <2>1 DEF DraftsInv, OneKey, KeyIsKept
<1>13. MemoryInv
    BY <1>3, <1>7 DEF MemoryInv
<1>14. RequestInv
    BY <1>3, <1>4 DEF RequestInv, Asking, StartedFrom
<1>15. QED
    BY <1>8, <1>9, <1>10, <1>11, <1>12, <1>13, <1>14
    DEF MessagingInv, BaseInv, TypeInv, ThreadInv

LEMMA InvStep ==
    ASSUME MessagingInv, [Next]_vars
    PROVE  MessagingInv'
<1>1. Effects
    BY StepEffects DEF MessagingInv, BaseInv
<1>2. QED
    BY <1>1, BaseStep, DraftsStep, ThreadInvStep DEF MessagingInv

\* One invariant carries the rest: the state is typed, requests and rows
\* agree, a draft has one key, and the thread's cursor is a message stored.
THEOREM MessagingInvariant == Spec => []MessagingInv
<1>1. Init => MessagingInv
    BY InitInv
<1>2. MessagingInv /\ [Next]_vars => MessagingInv'
    BY InvStep
<1>3. QED
    BY <1>1, <1>2, PTL DEF Spec

\* Rows, requests, memory and view have their types whatever is sent, lost,
\* aborted or restarted; a position is left for every request that draws one.
THEOREM TypeInvariant == Spec => []TypeOK
<1>1. MessagingInv => TypeOK
    BY DEF MessagingInv, BaseInv, TypeInv
<1>2. QED
    BY <1>1, MessagingInvariant, PTL

\* A text is stored once (the unique key of sendMessage and pendingSend of the
\* thread), for any number of attempts, losses, crashes and reopenings.
THEOREM TextsAreStoredOnce == Spec => []OneMessagePerDraft
<1>1. ASSUME MessagingInv
      PROVE  OneMessagePerDraft
    <2> SUFFICES ASSUME NEW k \in DOMAIN log, NEW l \in DOMAIN log,
                        log[k].key \in MyPosts, log[l].key \in MyPosts,
                        log[k].draft = log[l].draft
                 PROVE  k = l
        BY DEF OneMessagePerDraft
    <2>1. RowsFine /\ OneKey
        BY <1>1 DEF MessagingInv, BaseInv, RequestsInv, DraftsInv
    <2>2. log[k].draft \in 1..MaxDrafts
        BY <2>1 DEF RowsFine
    <2>3. Writes(log[k].key, log[k].draft) /\ Writes(log[l].key, log[k].draft)
        BY DEF Writes
    <2>4. log[k].key = log[l].key
        BY <2>1, <2>2, <2>3 DEF OneKey
    <2>5. QED
        BY <2>1, <2>4 DEF RowsFine
<1>2. QED
    BY <1>1, MessagingInvariant, PTL

\* The cursor of synchronize never steps over a message committed in order,
\* for pages of any size and messages committed between any two of them.
THEOREM CursorSkipsNothing == Spec => []NothingSkipped
<1>1. ASSUME MessagingInv
      PROVE  NothingSkipped
    <2> SUFFICES ASSUME NEW k \in DOMAIN log, InOrder(k), log[k].id <= tab.cursor
                 PROVE  Loaded(log[k].id)
        BY DEF NothingSkipped
    <2>1. log[k].id \in InOrderIds
        BY DEF InOrderIds
    <2>2. QED
        BY <1>1, <2>1 DEF MessagingInv, ThreadInv, MemoryInv
<1>2. QED
    BY <1>1, MessagingInvariant, PTL

\* A receipt that is shown is true and stays shown, whatever answer arrives
\* after it (mergeMessages, and the receipt in synchronize).
THEOREM ReceiptsStayTrue == Spec => ReceiptsAreTrue
<1> DEFINE A == tab'.seen \subseteq read' /\ (tab.seen \subseteq tab'.seen \/ ~tab'.loaded)
<1>1. ASSUME MessagingInv, [Next]_vars
      PROVE  A
    <2>1. tab'.seen \subseteq read'
        BY <1>1, InvStep DEF MessagingInv, ThreadInv, MemoryInv
    <2>2. ThreadStep
        BY <1>1, StepEffects DEF MessagingInv, BaseInv, Effects
    <2>3. tab.seen \subseteq tab'.seen \/ ~tab'.loaded
        BY <2>2 DEF ThreadStep, Idles, SameMemory, ShowsSent, GetsLatest, GetsNext,
           Merges, Marks, SeesMark, GetsOlder, Reloads
    <2>4. QED
        BY <2>1, <2>3
<1>2. Spec => [][A]_vars
    BY <1>1, MessagingInvariant, PTL DEF Spec
<1>3. QED
    BY <1>2 DEF ReceiptsAreTrue
=============================================================================

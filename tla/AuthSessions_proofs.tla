------------------------ MODULE AuthSessions_proofs -------------------------
(***************************************************************************)
(* Theorems of AuthSessions, for any number of links, sessions, refreshes, *)
(* requests and sockets.                                                   *)
(***************************************************************************)
EXTENDS AuthSessions, TLAPS

\* A cookie that createSession or rotateSession made.
Issued(k) == k.s \in Sessions /\ k.g \in Generation /\ ~Fresh(k.s)

\* What a request may rely on between its steps.  A verification that was read
\* before a reset has lost its link; a notice is about sessions that ended.
JobFine(j) ==
    /\ j.op = "verify" => /\ j.token \in Links
                          /\ link[j.token] # "NONE"
                          /\ link[j.token] = "LIVE" => j.password = account.password
    /\ j.op = "reset" => j.token \in Resets /\ link[j.token] # "NONE"
    /\ j.op \in {"refresh", "reuse", "rotate", "logout"} => Issued(j.cookie)
    /\ j.op \in {"refresh", "reuse", "rotate"} => j.cookie.g < MaxRefresh
    /\ j.op = "answer" => j.cookie = NoCookie \/ Issued(j.cookie)
    /\ j.op = "notify" => \A s \in j.scope : session[s].status = "ENDED"

JobsFine == \A w \in Workers : JobFine(job[w])

CookieFine == browser.cookie = NoCookie \/ Issued(browser.cookie)

\* A link is redeemed only when it becomes USED.
LinksFine == \A k \in Links \cup Resets :
                spent[k] <= 1 /\ (link[k] # "USED" => spent[k] = 0)

\* The refresh tokens that were redeemed are those before the current one.
TokensFine ==
    /\ \A s \in Sessions : Fresh(s) => session[s].hash = 0
    /\ \A s \in Sessions, g \in Generation :
          spent[<<s, g>>] <= 1 /\ (session[s].hash <= g => spent[<<s, g>>] = 0)

\* A socket passes its authorization only while the gateway was not told of the
\* end of its session, and it was told of none that did not end.
SocketFine(c) ==
    /\ socket[c].state # "none" => socket[c].s \in Sessions /\ ~Fresh(socket[c].s)
    /\ socket[c].state = "none" => socket[c].s = Nil
    /\ socket[c].checked => socket[c].state = "open" /\ ~socket[c].told
    /\ socket[c].told => socket[c].state # "none" /\ session[socket[c].s].status = "ENDED"
    /\ ~socket[c].late

SocketsFine == \A c \in Sockets : SocketFine(c)

AuthInv ==
    /\ TypeOK /\ JobsFine /\ CookieFine /\ LinksFine /\ TokensFine
    /\ SocketsFine /\ NothingOutlivesReset

LEMMA TokenKinds ==
    /\ \A k \in Links \cup Resets : k \in Token
    /\ \A s \in Sessions, g \in Generation : <<s, g>> \in Token
    /\ \A k \in Links \cup Resets, s \in Sessions, g \in Generation : k # <<s, g>>
  BY AuthAssumption DEF Token, Sessions, Generation

\* Sessions only go from fresh to live to ended, and a password that changes
\* takes every live link with it.
Onward ==
    /\ \A s \in Sessions : /\ ~Fresh(s) => ~Fresh(s)'
                           /\ session[s].status = "ENDED" => session'[s].status = "ENDED"
    /\ \A k \in Links \cup Resets : link[k] # "NONE" => link'[k] # "NONE"
    /\ \A k \in Links \cup Resets :
          link'[k] = "LIVE" => link[k] = "NONE" \/ account'.password = account.password
    /\ \A k \in Links \cup Resets : link[k] = "USED" => link'[k] = "USED"

LEMMA JobKeeps ==
    ASSUME TypeOK, NEW j \in Job, JobFine(j), Onward
    PROVE  JobFine(j)'
<1>1. Issued(j.cookie) => Issued(j.cookie)'
  BY DEF Issued, Onward
<1>2. j.op = "verify" => /\ link'[j.token] # "NONE"
                         /\ link'[j.token] = "LIVE" => j.password = account'.password
  <2> SUFFICES ASSUME j.op = "verify"
               PROVE  /\ link'[j.token] # "NONE"
                      /\ link'[j.token] = "LIVE" => j.password = account'.password
    OBVIOUS
  <2>1. j.token \in Links /\ link[j.token] \in {"LIVE", "USED"}
    BY DEF JobFine, TypeOK
  <2>2. link[j.token] = "LIVE" => j.password = account.password
    BY DEF JobFine
  <2> QED
    BY <2>1, <2>2 DEF Onward
<1>3. j.op = "reset" => link'[j.token] # "NONE"
  BY DEF JobFine, Onward
<1>4. j.op = "notify" => \A s \in j.scope : session'[s].status = "ENDED"
  BY DEF JobFine, Onward, Job
<1> QED
  BY <1>1, <1>2, <1>3, <1>4 DEF JobFine

\* The sockets stay fine when only sessions and jobs move on.
LEMMA SocketsKeep ==
    ASSUME SocketsFine, Onward, UNCHANGED socket
    PROVE  SocketsFine'
  BY DEF SocketsFine, SocketFine, Onward

LEMMA CookieKeeps ==
    ASSUME CookieFine, Onward, UNCHANGED browser.cookie
    PROVE  CookieFine'
  BY DEF CookieFine, Issued, Onward

LEMMA JobsKeep ==
    ASSUME TypeOK, JobsFine, Onward, NEW w \in Workers, NEW j \in Job, JobFine(j)',
           job' = [job EXCEPT ![w] = j]
    PROVE  JobsFine'
<1> SUFFICES ASSUME NEW u \in Workers PROVE JobFine(job[u])'
  BY DEF JobsFine
<1>1. job \in [Workers -> Job]
  BY DEF TypeOK
<1>2. CASE u = w
  <2>1. job'[u] = j
    BY <1>1, <1>2
  <2> QED
    BY <2>1 DEF JobFine, Issued, Fresh
<1>3. CASE u # w
  <2>1. PICK i \in Job : i = job[u]
    BY <1>1
  <2>2. JobFine(i) /\ job'[u] = i
    BY <1>1, <1>3, <2>1 DEF JobsFine
  <2>3. JobFine(i)'
    BY <2>2, JobKeeps
  <2> QED
    BY <2>2, <2>3 DEF JobFine, Issued, Fresh
<1> QED
  BY <1>2, <1>3

LEMMA JobsStay ==
    ASSUME TypeOK, JobsFine, Onward, UNCHANGED job
    PROVE  JobsFine'
<1> SUFFICES ASSUME NEW u \in Workers PROVE JobFine(job[u])'
  BY DEF JobsFine
<1>1. PICK i \in Job : i = job[u]
  BY DEF TypeOK
<1>2. JobFine(i)'
  BY <1>1, JobKeeps DEF JobsFine
<1> QED
  BY <1>1, <1>2 DEF JobFine, Issued, Fresh

-----------------------------------------------------------------------------
(* Steps that change nothing but a request and the browser *)

LEMMA OnwardStutter ==
    ASSUME UNCHANGED <<users, session>>
    PROVE  Onward
  BY DEF Onward, Fresh, users

LEMMA QuietStep ==
    ASSUME AuthInv, NEW w \in Workers, NEW j \in Job, JobFine(j),
           job' = [job EXCEPT ![w] = j],
           browser' \in [cookie : Cookie, lock : Workers \cup {Nil}], CookieFine',
           UNCHANGED <<users, session, spent, socket, blamed>>
    PROVE  AuthInv'
<1> USE DEF AuthInv
<1>1. Onward
  BY OnwardStutter
<1>2. TypeOK'
  BY DEF TypeOK, users
<1>3. JobsFine'
  <2>1. JobFine(j)'
    BY <1>1, JobKeeps
  <2> QED
    BY <1>1, <2>1, JobsKeep
<1>4. SocketsFine'
  BY <1>1, SocketsKeep
<1>5. LinksFine' /\ TokensFine' /\ NothingOutlivesReset'
  BY DEF LinksFine, TokensFine, Fresh, NothingOutlivesReset, Live, users
<1> QED
  BY <1>2, <1>3, <1>4, <1>5

LEMMA Cookies == NoCookie \in Cookie
  BY AuthAssumption DEF NoCookie, Cookie

LEMMA IdleIsFine == Idle \in Job /\ JobFine(Idle)
  BY Cookies DEF Idle, Job, JobFine

LEMMA IdleIsFineNext == JobFine(Idle)'
  BY DEF Idle, JobFine

LEMMA UnlockedIsFine ==
    ASSUME TypeOK, CookieFine, NEW w \in Workers
    PROVE  /\ Unlocked(w) \in [cookie : Cookie, lock : Workers \cup {Nil}]
           /\ Unlocked(w).cookie = browser.cookie
  BY DEF TypeOK, Unlocked

LEMMA FailKeeps ==
    ASSUME AuthInv, NEW w \in Workers, Fail(w),
           UNCHANGED <<users, session, spent, socket, blamed>>
    PROVE  AuthInv'
<1>1. /\ browser' \in [cookie : Cookie, lock : Workers \cup {Nil}]
      /\ browser'.cookie = browser.cookie
  BY UnlockedIsFine DEF Fail, AuthInv
<1>2. CookieFine'
  BY <1>1 DEF AuthInv, CookieFine, Issued, Fresh
<1> QED
  BY <1>1, <1>2, QuietStep, IdleIsFine DEF Fail

LEMMA LoginReadKeeps ==
    ASSUME AuthInv, NEW w \in Workers, NEW mine \in BOOLEAN, LoginRead(w, mine)
    PROVE  AuthInv'
<1> DEFINE j == [Idle EXCEPT !.op = "login", !.mine = mine, !.password = account.password]
<1>1. j \in Job /\ JobFine(j)
  BY Cookies DEF AuthInv, TypeOK, Job, Idle, JobFine
<1>2. CookieFine' /\ browser' \in [cookie : Cookie, lock : Workers \cup {Nil}]
  BY DEF AuthInv, TypeOK, CookieFine, Issued, Fresh, LoginRead
<1>3. job' = [job EXCEPT ![w] = j] /\ UNCHANGED <<users, session, spent, socket, blamed>>
  BY DEF LoginRead, Begin
<1> HIDE DEF j
<1> QED
  BY <1>1, <1>2, <1>3, QuietStep

LEMMA VerifyReadKeeps ==
    ASSUME AuthInv, NEW w \in Workers, NEW l \in Links, NEW mine \in BOOLEAN,
           VerifyRead(w, l, mine)
    PROVE  AuthInv'
<1> DEFINE j == [Idle EXCEPT !.op = "verify", !.mine = mine, !.token = l,
                             !.password = account.password]
<1>1. j \in Job /\ JobFine(j)
  BY Cookies DEF AuthInv, TypeOK, Job, Idle, JobFine, VerifyRead
<1>2. CookieFine' /\ browser' \in [cookie : Cookie, lock : Workers \cup {Nil}]
  BY DEF AuthInv, TypeOK, CookieFine, Issued, Fresh, VerifyRead
<1>3. job' = [job EXCEPT ![w] = j] /\ UNCHANGED <<users, session, spent, socket, blamed>>
  BY DEF VerifyRead, Begin
<1> HIDE DEF j
<1> QED
  BY <1>1, <1>2, <1>3, QuietStep

LEMMA ResetReadKeeps ==
    ASSUME AuthInv, NEW w \in Workers, NEW r \in Resets, ResetRead(w, r)
    PROVE  AuthInv'
<1> DEFINE j == [Idle EXCEPT !.op = "reset", !.token = r]
<1>1. j \in Job /\ JobFine(j)
  BY Cookies DEF AuthInv, TypeOK, Job, Idle, JobFine, ResetRead
<1>2. CookieFine' /\ browser' \in [cookie : Cookie, lock : Workers \cup {Nil}]
  BY DEF AuthInv, TypeOK, CookieFine, Issued, Fresh, ResetRead
<1>3. job' = [job EXCEPT ![w] = j] /\ UNCHANGED <<users, session, spent, socket, blamed>>
  BY DEF ResetRead, Begin
<1> HIDE DEF j
<1> QED
  BY <1>1, <1>2, <1>3, QuietStep

\* A request that presents the browser's cookie.
LEMMA PresentKeeps ==
    ASSUME AuthInv, NEW w \in Workers, NEW op \in {"refresh", "logout"},
           browser.cookie # NoCookie, op = "refresh" => browser.cookie.g < MaxRefresh,
           Begin(w, [Idle EXCEPT !.op = op, !.mine = TRUE, !.cookie = browser.cookie]),
           browser' \in [cookie : Cookie, lock : Workers \cup {Nil}],
           browser'.cookie = browser.cookie,
           UNCHANGED <<users, session, spent, socket, blamed>>
    PROVE  AuthInv'
<1> DEFINE j == [Idle EXCEPT !.op = op, !.mine = TRUE, !.cookie = browser.cookie]
<1>1. browser.cookie \in Cookie /\ Issued(browser.cookie)
  BY DEF AuthInv, TypeOK, CookieFine
<1>2. j \in Job /\ JobFine(j)
  BY <1>1 DEF Job, Idle, JobFine
<1>3. CookieFine'
  BY <1>1 DEF CookieFine, Issued, Fresh
<1>4. job' = [job EXCEPT ![w] = j]
  BY DEF Begin
<1> HIDE DEF j
<1> QED
  BY <1>2, <1>3, <1>4, QuietStep

LEMMA RefreshSendKeeps ==
    ASSUME AuthInv, NEW w \in Workers, RefreshSend(w)
    PROVE  AuthInv'
<1>1. browser' \in [cookie : Cookie, lock : Workers \cup {Nil}]
  BY DEF AuthInv, TypeOK, RefreshSend
<1>2. browser'.cookie = browser.cookie
  BY DEF AuthInv, TypeOK, RefreshSend
<1> QED
  BY <1>1, <1>2, PresentKeeps DEF RefreshSend

LEMMA LogoutSendKeeps ==
    ASSUME AuthInv, NEW w \in Workers, LogoutSend(w)
    PROVE  AuthInv'
<1>1. /\ browser' \in [cookie : Cookie, lock : Workers \cup {Nil}]
      /\ browser'.cookie = browser.cookie
  BY DEF AuthInv, TypeOK, LogoutSend
<1> QED
  BY <1>1, PresentKeeps DEF LogoutSend

LEMMA RefreshReadKeeps ==
    ASSUME AuthInv, NEW w \in Workers, RefreshRead(w)
    PROVE  AuthInv'
<1> DEFINE s == job[w].cookie.s
           j == [job[w] EXCEPT !.op = IF session[s].hash = job[w].cookie.g THEN "rotate" ELSE "reuse"]
<1>1. CASE Usable(s)
  <2>1. job[w] \in Job /\ JobFine(job[w]) /\ job[w].op = "refresh"
    BY DEF AuthInv, TypeOK, JobsFine, RefreshRead
  <2>2. j \in Job /\ JobFine(j)
    BY <2>1 DEF Job, JobFine
  <2>3. job' = [job EXCEPT ![w] = j] /\ UNCHANGED <<users, session, spent, socket, blamed, browser>>
    BY <1>1 DEF RefreshRead, AuthInv, TypeOK
  <2>4. CookieFine' /\ browser' \in [cookie : Cookie, lock : Workers \cup {Nil}]
    BY <2>3 DEF AuthInv, TypeOK, CookieFine, Issued, Fresh
  <2> HIDE DEF j, s
  <2> QED
    BY <2>2, <2>3, <2>4, QuietStep
<1>2. CASE ~Usable(s)
  BY <1>2, FailKeeps DEF RefreshRead
<1> QED
  BY <1>1, <1>2

LEMMA AnswerKeeps ==
    ASSUME AuthInv, NEW w \in Workers, Answer(w)
    PROVE  AuthInv'
<1>1. job[w] \in Job /\ JobFine(job[w]) /\ job[w].op = "answer"
  BY DEF AuthInv, TypeOK, JobsFine, Answer
<1>2. /\ browser' \in [cookie : Cookie, lock : Workers \cup {Nil}]
      /\ browser'.cookie = job[w].cookie
  BY <1>1, UnlockedIsFine DEF Answer, AuthInv, Job
<1>3. CookieFine'
  BY <1>1, <1>2 DEF JobFine, CookieFine, Issued, Fresh, Answer
<1> QED
  BY <1>2, <1>3, QuietStep, IdleIsFine DEF Answer

LEMMA AbortKeeps ==
    ASSUME AuthInv, NEW w \in Workers, Abort(w)
    PROVE  AuthInv'
<1>1. CookieFine' /\ browser' \in [cookie : Cookie, lock : Workers \cup {Nil}]
  BY DEF AuthInv, TypeOK, CookieFine, Issued, Fresh, Abort
<1> QED
  BY <1>1, QuietStep, IdleIsFine DEF Abort

\* What Reply leaves of a request.
LEMMA ReplyIsFine ==
    ASSUME NEW w \in Workers, NEW k \in Cookie, Reply(w, k), k = NoCookie \/ Issued(k)'
    PROVE  \E j \in Job : job' = [job EXCEPT ![w] = j] /\ JobFine(j)'
<1> DEFINE a == [Idle EXCEPT !.op = "answer", !.mine = TRUE, !.cookie = k]
<1>1. a \in Job /\ JobFine(a)'
  BY Cookies DEF Job, Idle, JobFine
<1>2. Idle \in Job /\ JobFine(Idle)'
  BY Cookies DEF Idle, Job, JobFine
<1>3. job' = [job EXCEPT ![w] = a] \/ job' = [job EXCEPT ![w] = Idle]
  BY DEF Reply
<1> HIDE DEF a
<1> QED
  BY <1>1, <1>2, <1>3

\* A request that answers and changes neither links nor sessions.
LEMMA ReplyKeeps ==
    ASSUME AuthInv, NEW w \in Workers, NEW k \in Cookie, Reply(w, k), k = NoCookie \/ Issued(k),
           UNCHANGED <<users, session, spent, browser, socket, blamed>>
    PROVE  AuthInv'
<1>1. Issued(k) => Issued(k)'
  BY DEF Issued, Fresh
<1>2. PICK j \in Job : job' = [job EXCEPT ![w] = j] /\ JobFine(j)'
  BY <1>1, ReplyIsFine
<1>3. JobFine(j)
  BY <1>2 DEF JobFine, Issued, Fresh, users
<1>4. CookieFine' /\ browser' \in [cookie : Cookie, lock : Workers \cup {Nil}]
  BY DEF AuthInv, TypeOK, CookieFine, Issued, Fresh
<1> QED
  BY <1>2, <1>3, <1>4, QuietStep

LEMMA NotifyElsewhereKeeps ==
    ASSUME AuthInv, NEW w \in Workers, NotifyElsewhere(w)
    PROVE  AuthInv'
<1>1. CASE Reply(w, NoCookie) /\ UNCHANGED browser
  BY <1>1, ReplyKeeps, Cookies DEF NotifyElsewhere
<1>2. CASE Fail(w)
  BY <1>2, FailKeeps DEF NotifyElsewhere
<1> QED
  BY <1>1, <1>2 DEF NotifyElsewhere

-----------------------------------------------------------------------------
(* Links *)

\* A step that makes unsent links live and live ones used.
LEMMA LinkStep ==
    ASSUME AuthInv, link' \in [Links \cup Resets -> {"NONE", "LIVE", "USED"}],
           \A i \in Links \cup Resets :
               \/ link'[i] = link[i]
               \/ link[i] = "NONE" /\ link'[i] = "LIVE"
               \/ link[i] = "LIVE" /\ link'[i] = "USED",
           UNCHANGED <<account, session, spent, browser, job, socket, blamed>>
    PROVE  AuthInv'
<1> USE DEF AuthInv
<1>1. Onward
  BY DEF Onward, Fresh
<1>2. TypeOK'
  BY DEF TypeOK
<1>3. JobsFine'
  BY <1>1, JobsStay
<1>4. LinksFine'
  BY DEF LinksFine
<1>5. SocketsFine' /\ CookieFine'
  BY <1>1, SocketsKeep, CookieKeeps
<1>6. TokensFine' /\ NothingOutlivesReset'
  BY DEF TokensFine, Fresh, NothingOutlivesReset, Live
<1> QED
  BY <1>2, <1>3, <1>4, <1>5, <1>6

LEMMA ReplaceIsFine ==
    ASSUME AuthInv, NEW kind \in {Links, Resets}, NEW k \in Links \cup Resets,
           link[k] = "NONE", link' = Replace(kind, k),
           UNCHANGED <<account, session, spent, browser, job, socket, blamed>>
    PROVE  AuthInv'
<1> USE DEF AuthInv
<1>1. /\ link' \in [Links \cup Resets -> {"NONE", "LIVE", "USED"}]
      /\ \A i \in Links \cup Resets :
            link'[i] = IF i = k THEN "LIVE"
                       ELSE IF i \in kind /\ link[i] = "LIVE" THEN "USED" ELSE link[i]
  BY DEF Replace, TypeOK
<1> QED
  BY <1>1, LinkStep

LEMMA ResendVerificationKeeps ==
    ASSUME AuthInv, NEW l \in Links, ResendVerification(l)
    PROVE  AuthInv'
  BY ReplaceIsFine DEF ResendVerification

LEMMA IssuePasswordResetKeeps ==
    ASSUME AuthInv, NEW r \in Resets, IssuePasswordReset(r)
    PROVE  AuthInv'
  BY ReplaceIsFine DEF IssuePasswordReset

LEMMA ExpireLinkKeeps ==
    ASSUME AuthInv, NEW k \in Links \cup Resets, ExpireLink(k)
    PROVE  AuthInv'
<1>1. /\ link' \in [Links \cup Resets -> {"NONE", "LIVE", "USED"}]
      /\ \A i \in Links \cup Resets : link'[i] = IF i = k THEN "USED" ELSE link[i]
  BY DEF ExpireLink, AuthInv, TypeOK
<1> QED
  BY <1>1, LinkStep DEF ExpireLink

-----------------------------------------------------------------------------
(* Sessions begin, rotate and end *)

\* Everything about sockets, cookies and requests follows from Onward.
LEMMA OnwardKeeps ==
    ASSUME AuthInv, Onward, TypeOK', LinksFine', TokensFine', NothingOutlivesReset',
           NEW w \in Workers, NEW j \in Job, job' = [job EXCEPT ![w] = j], JobFine(j)',
           UNCHANGED <<browser, socket>>
    PROVE  AuthInv'
  BY JobsKeep, SocketsKeep, CookieKeeps DEF AuthInv

LEMMA CreateSessionIsFine ==
    ASSUME AuthInv, NEW w \in Workers, NEW s \in Sessions, CreateSession(w, s),
           job[w].password = account'.password, account'.password = account.password
    PROVE  /\ session' \in [Sessions -> SessionRow]
           /\ \A t \in Sessions : /\ ~Fresh(t) => session'[t] = session[t]
                                  /\ session'[t].status # "NONE" => ~Fresh(t) \/ t = s
           /\ session'[s].status = "LIVE" /\ session'[s].hash = 1
           /\ \A t \in Sessions \ {s} : session'[t] = session[t]
           /\ NothingOutlivesReset'
           /\ \E j \in Job : job' = [job EXCEPT ![w] = j] /\ JobFine(j)'
<1> DEFINE row == [status |-> "LIVE", hash |-> 1, password |-> job[w].password, lost |-> FALSE]
           k == [s |-> s, g |-> 1]
<1>1. row \in SessionRow /\ row.status = "LIVE" /\ row.hash = 1 /\ row.password = account.password
  BY AuthAssumption DEF SessionRow, AuthInv, TypeOK, Job
<1>2. session' = [session EXCEPT ![s] = row] /\ Fresh(s) /\ Reply(w, k)
  BY DEF CreateSession
<1>3. k \in Cookie /\ k.s = s /\ k.g = 1
  BY AuthAssumption DEF Cookie
<1> HIDE DEF row, k
<1>4. session' \in [Sessions -> SessionRow] /\ session'[s] = row
      /\ \A t \in Sessions \ {s} : session'[t] = session[t]
  BY <1>1, <1>2 DEF AuthInv, TypeOK
<1>5. Issued(k)'
  BY <1>1, <1>3, <1>4, AuthAssumption DEF Issued, Fresh, Generation
<1>6. \E j \in Job : job' = [job EXCEPT ![w] = j] /\ JobFine(j)'
  BY <1>2, <1>3, <1>5, ReplyIsFine
<1>7. NothingOutlivesReset'
  BY <1>1, <1>4 DEF AuthInv, NothingOutlivesReset, Live
<1> QED
  BY <1>1, <1>2, <1>4, <1>6, <1>7 DEF Fresh

LEMMA CreatedTokensFine ==
    ASSUME AuthInv, NEW s \in Sessions, Fresh(s), session'[s].hash = 1, session'[s].status = "LIVE",
           \A t \in Sessions \ {s} : session'[t] = session[t],
           \A t \in Sessions, g \in Generation : spent'[<<t, g>>] = spent[<<t, g>>],
           \A g \in Generation : spent[<<s, g>>] = 0
    PROVE  TokensFine'
  BY DEF AuthInv, TokensFine, Fresh

LEMMA FreshUnspent ==
    ASSUME AuthInv, NEW s \in Sessions, Fresh(s)
    PROVE  \A g \in Generation : spent[<<s, g>>] = 0
  BY DEF AuthInv, TypeOK, SessionRow, TokensFine, Fresh, Generation

LEMMA LoginCommitKeeps ==
    ASSUME AuthInv, NEW w \in Workers, NEW s \in Sessions, LoginCommit(w, s)
    PROVE  AuthInv'
<1>1. CASE account.password = job[w].password /\ CreateSession(w, s) /\ UNCHANGED browser
  <2>1. UNCHANGED <<account, link, spent, socket, browser, blamed>>
    BY <1>1 DEF LoginCommit, users
  <2>2. /\ session' \in [Sessions -> SessionRow]
        /\ session'[s].status = "LIVE" /\ session'[s].hash = 1 /\ Fresh(s)
        /\ \A t \in Sessions \ {s} : session'[t] = session[t]
        /\ NothingOutlivesReset'
    BY <1>1, <2>1, CreateSessionIsFine DEF CreateSession
  <2>3. PICK j \in Job : job' = [job EXCEPT ![w] = j] /\ JobFine(j)'
    BY <1>1, <2>1, CreateSessionIsFine
  <2>4. Onward
    BY <2>1, <2>2 DEF Onward, Fresh
  <2>5. TypeOK'
    BY <2>1, <2>2, <2>3 DEF AuthInv, TypeOK
  <2>6. LinksFine'
    BY <2>1 DEF AuthInv, LinksFine
  <2>7. TokensFine'
    BY <2>1, <2>2, CreatedTokensFine, FreshUnspent
  <2> QED
    BY <2>1, <2>2, <2>3, <2>4, <2>5, <2>6, <2>7, OnwardKeeps
<1>2. CASE Fail(w) /\ UNCHANGED session
  BY <1>2, FailKeeps DEF LoginCommit
<1> QED
  BY <1>1, <1>2 DEF LoginCommit

LEMMA VerifyCommitKeeps ==
    ASSUME AuthInv, NEW w \in Workers, NEW s \in Sessions, VerifyCommit(w, s)
    PROVE  AuthInv'
<1> DEFINE k == job[w].token
<1>1. CASE /\ link[k] = "LIVE"
           /\ account' = [account EXCEPT !.verified = TRUE]
           /\ link' = [link EXCEPT ![k] = "USED"]
           /\ Redeem(k) /\ CreateSession(w, s) /\ UNCHANGED browser
  <2>1. /\ k \in Links /\ job[w].password = account.password
        /\ account' \in [password : Nat, verified : BOOLEAN, active : BOOLEAN]
        /\ account'.password = account.password
        /\ UNCHANGED <<socket, browser, blamed>>
    BY <1>1 DEF AuthInv, TypeOK, JobsFine, JobFine, VerifyCommit
  <2>2. /\ session' \in [Sessions -> SessionRow]
        /\ session'[s].status = "LIVE" /\ session'[s].hash = 1 /\ Fresh(s)
        /\ \A t \in Sessions \ {s} : session'[t] = session[t]
        /\ NothingOutlivesReset'
    BY <1>1, <2>1, CreateSessionIsFine DEF CreateSession
  <2>3. PICK j \in Job : job' = [job EXCEPT ![w] = j] /\ JobFine(j)'
    BY <1>1, <2>1, CreateSessionIsFine
  <2>4. /\ link' \in [Links \cup Resets -> {"NONE", "LIVE", "USED"}]
        /\ \A i \in Links \cup Resets : link'[i] = IF i = k THEN "USED" ELSE link[i]
    BY <1>1, <2>1 DEF AuthInv, TypeOK
  <2>5. /\ spent' \in [Token -> Nat]
        /\ spent'[k] = spent[k] + 1
        /\ \A i \in Token \ {k} : spent'[i] = spent[i]
    BY <1>1, <2>1, TokenKinds DEF AuthInv, TypeOK, Redeem
  <2>6. Onward
    BY <2>1, <2>2, <2>4 DEF Onward, Fresh
  <2>7. TypeOK'
    BY <2>1, <2>2, <2>3, <2>4, <2>5 DEF AuthInv, TypeOK
  <2>8. LinksFine'
    BY <1>1, <2>1, <2>4, <2>5, TokenKinds DEF AuthInv, TypeOK, LinksFine
  <2>9. TokensFine'
    <3>1. \A t \in Sessions, g \in Generation : spent'[<<t, g>>] = spent[<<t, g>>]
      BY <2>1, <2>5, TokenKinds
    <3> QED
      BY <2>2, <3>1, CreatedTokensFine, FreshUnspent
  <2> QED
    BY <2>1, <2>2, <2>3, <2>6, <2>7, <2>8, <2>9, OnwardKeeps
<1>2. CASE Fail(w) /\ UNCHANGED <<users, session, spent>>
  BY <1>2, FailKeeps DEF VerifyCommit
<1> QED
  BY <1>1, <1>2 DEF VerifyCommit

\* Sessions that end: any of them, and nothing else.
LEMMA EndedIsFine ==
    ASSUME AuthInv, NEW s \in Sessions
    PROVE  /\ Ended(s) \in SessionRow
           /\ Ended(s).hash = session[s].hash
           /\ Ended(s).status = (IF Live(s) THEN "ENDED" ELSE session[s].status)
<1>1. session[s] \in SessionRow
  BY DEF AuthInv, TypeOK
<1>2. CASE Live(s)
  BY <1>1, <1>2 DEF Ended, SessionRow
<1>3. CASE ~Live(s)
  BY <1>1, <1>3 DEF Ended
<1> QED
  BY <1>2, <1>3

LEMMA EndingStep ==
    ASSUME AuthInv, session' \in [Sessions -> SessionRow],
           \A s \in Sessions : session'[s] = session[s] \/ session'[s] = Ended(s),
           UNCHANGED <<account, link, spent>>
    PROVE  /\ Onward
           /\ LinksFine' /\ TokensFine' /\ NothingOutlivesReset'
<1>1. \A s \in Sessions :
         /\ session'[s].hash = session[s].hash
         /\ session'[s].status = session[s].status
            \/ (Live(s) /\ session'[s].status = "ENDED")
  <2> SUFFICES ASSUME NEW s \in Sessions, session'[s] = Ended(s)
               PROVE  /\ session'[s].hash = session[s].hash
                      /\ session'[s].status = session[s].status
                         \/ (Live(s) /\ session'[s].status = "ENDED")
    OBVIOUS
  <2> QED
    BY EndedIsFine
<1>2. \A s \in Sessions : session'[s].status = "LIVE" => session'[s] = session[s]
  BY EndedIsFine DEF Live
<1>3. Onward
  BY <1>1 DEF Onward, Fresh, Live
<1>4. TokensFine'
  BY <1>1 DEF AuthInv, TokensFine, Fresh, Live
<1>5. NothingOutlivesReset'
  BY <1>2 DEF AuthInv, NothingOutlivesReset, Live
<1>6. LinksFine'
  BY DEF AuthInv, LinksFine
<1> QED
  BY <1>3, <1>4, <1>5, <1>6

LEMMA ExpireKeeps ==
    ASSUME AuthInv, NEW s \in Sessions, Expire(s)
    PROVE  AuthInv'
<1>1. /\ session' \in [Sessions -> SessionRow]
      /\ \A t \in Sessions : session'[t] = session[t] \/ session'[t] = Ended(t)
  BY EndedIsFine DEF AuthInv, TypeOK, Expire
<1>2. Onward /\ LinksFine' /\ TokensFine' /\ NothingOutlivesReset'
  BY <1>1, EndingStep DEF Expire, users
<1>3. TypeOK'
  BY <1>1 DEF AuthInv, TypeOK, Expire, users
<1>4. JobsFine'
  BY <1>2, JobsStay DEF Expire, AuthInv
<1> QED
  BY <1>2, <1>3, <1>4, SocketsKeep, CookieKeeps DEF Expire, AuthInv

\* One session ends and its end is to be announced.
LEMMA RevokeKeeps ==
    ASSUME AuthInv, NEW w \in Workers, NEW s \in Sessions, NEW j \in Job, ~Fresh(s),
           session' = [session EXCEPT ![s] = Ended(s)],
           job' = [job EXCEPT ![w] = j], j.op = "notify", j.scope = {s},
           blamed' \in BOOLEAN, UNCHANGED <<account, link, spent, browser, socket>>
    PROVE  AuthInv'
<1>1. /\ session' \in [Sessions -> SessionRow]
      /\ \A t \in Sessions : session'[t] = session[t] \/ session'[t] = Ended(t)
      /\ session'[s].status = "ENDED"
  BY EndedIsFine DEF AuthInv, TypeOK, SessionRow, Fresh, Live
<1>2. Onward /\ LinksFine' /\ TokensFine' /\ NothingOutlivesReset'
  BY <1>1, EndingStep
<1>3. TypeOK'
  BY <1>1 DEF AuthInv, TypeOK
<1>4. JobFine(j)'
  BY <1>1 DEF JobFine
<1> QED
  BY <1>2, <1>3, <1>4, OnwardKeeps

LEMMA RefreshReuseKeeps ==
    ASSUME AuthInv, NEW w \in Workers, RefreshReuse(w)
    PROVE  AuthInv'
<1> DEFINE s == job[w].cookie.s
           j == [job[w] EXCEPT !.op = "notify", !.scope = {s}]
<1>1. job[w] \in Job /\ s \in Sessions /\ ~Fresh(s)
  BY DEF AuthInv, TypeOK, JobsFine, JobFine, Issued, RefreshReuse
<1>2. j \in Job /\ j.op = "notify" /\ j.scope = {s}
  BY <1>1 DEF Job
<1>3. job' = [job EXCEPT ![w] = j]
  BY DEF RefreshReuse, AuthInv, TypeOK
<1>4. blamed' \in BOOLEAN
  BY DEF RefreshReuse, AuthInv, TypeOK
<1>5. /\ session' = [session EXCEPT ![s] = Ended(s)]
      /\ UNCHANGED <<account, link, spent, browser, socket>>
  BY DEF RefreshReuse, users
<1> HIDE DEF s, j
<1> QED
  BY <1>1, <1>2, <1>3, <1>4, <1>5, RevokeKeeps

LEMMA LogoutCommitKeeps ==
    ASSUME AuthInv, NEW w \in Workers, LogoutCommit(w)
    PROVE  AuthInv'
<1> DEFINE s == job[w].cookie.s
           j == [job[w] EXCEPT !.op = "notify", !.cookie = NoCookie, !.scope = {s}]
<1>1. job[w] \in Job /\ s \in Sessions /\ ~Fresh(s)
  BY DEF AuthInv, TypeOK, JobsFine, JobFine, Issued, LogoutCommit
<1>2. j \in Job /\ j.op = "notify" /\ j.scope = {s}
  BY <1>1, Cookies DEF Job
<1>3. job' = [job EXCEPT ![w] = j]
  BY DEF LogoutCommit, AuthInv, TypeOK
<1>4. /\ session' = [session EXCEPT ![s] = Ended(s)] /\ blamed' \in BOOLEAN
      /\ UNCHANGED <<account, link, spent, browser, socket>>
  BY DEF LogoutCommit, users, AuthInv, TypeOK
<1> HIDE DEF s, j
<1> QED
  BY <1>1, <1>2, <1>3, <1>4, RevokeKeeps

LEMMA ResetCommitKeeps ==
    ASSUME AuthInv, NEW w \in Workers, ResetCommit(w)
    PROVE  AuthInv'
<1> DEFINE k == job[w].token
           j == [job[w] EXCEPT !.op = "notify", !.scope = {s \in Sessions : ~Fresh(s)}]
<1>1. CASE account.active /\ account.verified /\ link[k] = "LIVE"
  <2>1. job[w] \in Job /\ k \in Resets
    BY DEF AuthInv, TypeOK, JobsFine, JobFine, ResetCommit
  <2>2. /\ account' = [account EXCEPT !.password = @ + 1]
        /\ link' = [i \in Links \cup Resets |-> IF link[i] = "LIVE" THEN "USED" ELSE link[i]]
        /\ Redeem(k)
        /\ session' = [s \in Sessions |-> Ended(s)]
        /\ job' = [job EXCEPT ![w] = j]
        /\ UNCHANGED <<browser, socket, blamed>>
    BY <1>1 DEF ResetCommit, AuthInv, TypeOK
  <2>3. /\ link' \in [Links \cup Resets -> {"NONE", "LIVE", "USED"}]
        /\ \A i \in Links \cup Resets :
              link'[i] = IF link[i] = "LIVE" THEN "USED" ELSE link[i]
    BY <2>2 DEF AuthInv, TypeOK
  <2>4. /\ spent' \in [Token -> Nat]
        /\ spent'[k] = spent[k] + 1
        /\ \A i \in Token \ {k} : spent'[i] = spent[i]
    BY <2>1, <2>2, TokenKinds DEF AuthInv, TypeOK, Redeem
  <2>5. /\ session' \in [Sessions -> SessionRow]
        /\ \A s \in Sessions :
              /\ session'[s].hash = session[s].hash
              /\ session'[s].status = (IF Fresh(s) THEN "NONE" ELSE "ENDED")
    BY <2>2, EndedIsFine DEF AuthInv, TypeOK, SessionRow, Fresh, Live
  <2>6. account' \in [password : Nat, verified : BOOLEAN, active : BOOLEAN]
    BY <2>2 DEF AuthInv, TypeOK
  <2>7. PICK i \in Job : i = j
    BY <2>1 DEF Job
  <2>7a. job' = [job EXCEPT ![w] = i]
    BY <2>2, <2>7
  <2>7b. i.op = "notify" /\ \A s \in i.scope : s \in Sessions /\ ~Fresh(s)
    BY <2>1, <2>7 DEF Job
  <2> HIDE DEF j
  <2>8. Onward
    BY <2>3, <2>5 DEF Onward, Fresh, AuthInv, TypeOK
  <2>9. TypeOK'
    BY <2>2, <2>3, <2>4, <2>5, <2>6, <2>7, <2>7a DEF AuthInv, TypeOK
  <2>10. JobFine(i)'
    BY <2>5, <2>7b DEF JobFine
  <2>11. LinksFine'
    BY <1>1, <2>1, <2>3, <2>4, TokenKinds DEF AuthInv, TypeOK, LinksFine
  <2>12. TokensFine'
    <3>1. \A s \in Sessions, g \in Generation : spent'[<<s, g>>] = spent[<<s, g>>]
      BY <2>1, <2>4, TokenKinds
    <3> QED
      BY <2>5, <3>1 DEF AuthInv, TokensFine, Fresh
  <2>13. NothingOutlivesReset'
    BY <2>5 DEF NothingOutlivesReset, Live
  <2> QED
    BY <2>2, <2>7a, <2>8, <2>9, <2>10, <2>11, <2>12, <2>13, OnwardKeeps
<1>2. CASE ~(account.active /\ account.verified /\ link[k] = "LIVE")
  BY <1>2, FailKeeps DEF ResetCommit
<1> QED
  BY <1>1, <1>2 DEF ResetCommit

LEMMA RefreshRotateKeeps ==
    ASSUME AuthInv, NEW w \in Workers, RefreshRotate(w)
    PROVE  AuthInv'
<1> DEFINE s == job[w].cookie.s
           g == job[w].cookie.g
           next == [s |-> s, g |-> g + 1]
<1>1. CASE Live(s) /\ session[s].hash = g
  <2>1. /\ s \in Sessions /\ g \in Generation /\ g + 1 \in Generation
        /\ session[s] \in SessionRow
    BY AuthAssumption
       DEF AuthInv, TypeOK, JobsFine, JobFine, Issued, RefreshRotate, Generation, Job, Cookie
  <2>2. /\ session' = [session EXCEPT ![s].hash = g + 1]
        /\ Redeem(<<s, g>>) /\ Reply(w, next)
        /\ UNCHANGED <<account, link, browser, socket, blamed>>
    BY <1>1 DEF RefreshRotate, users
  <2>3. [session[s] EXCEPT !.hash = g + 1] \in SessionRow
    BY <2>1 DEF SessionRow, Generation
  <2>4. /\ session' \in [Sessions -> SessionRow]
        /\ session'[s].hash = g + 1 /\ session'[s].status = session[s].status
        /\ session'[s].password = session[s].password
        /\ \A t \in Sessions \ {s} : session'[t] = session[t]
    BY <2>1, <2>2, <2>3 DEF AuthInv, TypeOK, SessionRow
  <2>5. /\ spent' \in [Token -> Nat]
        /\ spent'[<<s, g>>] = spent[<<s, g>>] + 1
        /\ \A i \in Token : i # <<s, g>> => spent'[i] = spent[i]
    BY <2>1, <2>2, TokenKinds DEF AuthInv, TypeOK, Redeem
  <2>6. Onward
    BY <2>2, <2>4 DEF Onward, Fresh
  <2>7. PICK k \in Cookie : k = next
    <3>1. g + 1 \in 0 .. MaxRefresh
      BY <2>1, AuthAssumption DEF Generation
    <3> QED
      BY <2>1, <3>1 DEF Cookie
  <2>8. PICK j \in Job : job' = [job EXCEPT ![w] = j] /\ JobFine(j)'
    <3>1. Reply(w, k) /\ k.s = s /\ k.g = g + 1
      BY <2>2, <2>7
    <3>2. PICK u \in Sessions : u = s
      BY <2>1
    <3>3. Issued(k)'
      BY <1>1, <2>1, <2>4, <3>1, <3>2 DEF Issued, Fresh, Live
    <3> QED
      BY <3>1, <3>3, ReplyIsFine
  <2>9. TypeOK'
    BY <2>2, <2>4, <2>5, <2>8 DEF AuthInv, TypeOK
  <2>10. LinksFine'
    BY <2>1, <2>2, <2>5, TokenKinds DEF AuthInv, LinksFine
  <2>11. TokensFine'
    <3>1. \A t \in Sessions : session'[t].status = "NONE" => session'[t].hash = 0
      BY <1>1, <2>1, <2>4 DEF AuthInv, TokensFine, Fresh, Live
    <3>2. ASSUME NEW t \in Sessions, NEW i \in Generation
          PROVE  /\ spent'[<<t, i>>] <= 1
                 /\ session'[t].hash <= i => spent'[<<t, i>>] = 0
      <4>1. CASE t = s /\ i = g
        <5>1. spent[<<s, g>>] = 0
          BY <1>1, <2>1 DEF AuthInv, TokensFine, Generation
        <5>2. ~(g + 1 <= g)
          BY <2>1 DEF Generation
        <5> QED
          BY <2>4, <2>5, <4>1, <5>1, <5>2
      <4>2. CASE ~(t = s /\ i = g)
        <5>1. spent'[<<t, i>>] = spent[<<t, i>>]
          BY <2>1, <2>5, <4>2, TokenKinds
        <5>2. session'[t].hash <= i => session[t].hash <= i
          BY <1>1, <2>1, <2>4 DEF Generation
        <5> QED
          BY <5>1, <5>2 DEF AuthInv, TokensFine
      <4> QED
        BY <4>1, <4>2
    <3> QED
      BY <3>1, <3>2 DEF TokensFine, Fresh
  <2>12. NothingOutlivesReset'
    BY <1>1, <2>1, <2>2, <2>4 DEF AuthInv, NothingOutlivesReset, Live
  <2> QED
    BY <2>2, <2>6, <2>8, <2>9, <2>10, <2>11, <2>12, OnwardKeeps
<1>2. CASE ~(Live(s) /\ session[s].hash = g)
  BY <1>2, FailKeeps DEF RefreshRotate
<1> QED
  BY <1>1, <1>2

LEMMA AbandonKeeps ==
    ASSUME AuthInv, NEW w \in Workers, Abandon(w)
    PROVE  AuthInv'
<1> DEFINE lossy(s) == [session[s] EXCEPT !.lost = TRUE]
<1>1. \A s \in Sessions : /\ lossy(s) \in SessionRow
                          /\ lossy(s).status = session[s].status
                          /\ lossy(s).hash = session[s].hash
                          /\ lossy(s).password = session[s].password
  BY DEF AuthInv, TypeOK, SessionRow
<1>2. \A s \in Sessions : session'[s] = session[s] \/ session'[s] = lossy(s)
  BY DEF Abandon
<1> HIDE DEF lossy
<1>3. /\ session' \in [Sessions -> SessionRow]
      /\ \A s \in Sessions : /\ session'[s].status = session[s].status
                             /\ session'[s].hash = session[s].hash
                             /\ session'[s].password = session[s].password
  <2>1. session' = [s \in Sessions |-> session'[s]]
    BY DEF Abandon
  <2> QED
    BY <1>1, <1>2, <2>1 DEF AuthInv, TypeOK
<1>4. UNCHANGED <<account, link, spent, socket, blamed>>
  BY DEF Abandon, users
<1>5. Onward
  BY <1>3, <1>4 DEF Onward, Fresh
<1>6. PICK j \in Job : j = [job[w] EXCEPT !.mine = FALSE]
  BY DEF AuthInv, TypeOK, Job
<1>7. job' = [job EXCEPT ![w] = j]
  BY <1>6 DEF Abandon, AuthInv, TypeOK
<1>8. JobFine(j)'
  <2>1. JobFine(j)
    BY <1>6 DEF AuthInv, TypeOK, JobsFine, JobFine, Job, Issued
  <2> QED
    BY <1>5, <2>1, JobKeeps DEF AuthInv
<1>9. JobsFine'
  BY <1>5, <1>7, <1>8, JobsKeep DEF AuthInv
<1>10. /\ browser' \in [cookie : Cookie, lock : Workers \cup {Nil}]
       /\ browser'.cookie = browser.cookie
  BY UnlockedIsFine DEF Abandon, AuthInv
<1>11. CookieFine'
  BY <1>5, <1>10, CookieKeeps DEF AuthInv
<1>12. TypeOK'
  BY <1>3, <1>4, <1>7, <1>10 DEF AuthInv, TypeOK
<1>13. LinksFine' /\ TokensFine' /\ NothingOutlivesReset'
  BY <1>3, <1>4 DEF AuthInv, LinksFine, TokensFine, Fresh, NothingOutlivesReset, Live
<1>14. SocketsFine'
  BY <1>4, <1>5, SocketsKeep DEF AuthInv
<1> QED
  BY <1>9, <1>11, <1>12, <1>13, <1>14 DEF AuthInv

LEMMA SuspendKeeps ==
    ASSUME AuthInv, Suspend
    PROVE  AuthInv'
<1>1. /\ account' \in [password : Nat, verified : BOOLEAN, active : BOOLEAN]
      /\ account'.password = account.password
      /\ UNCHANGED <<link, session, spent, browser, job, socket, blamed>>
  BY DEF Suspend, AuthInv, TypeOK
<1>2. Onward
  BY <1>1 DEF Onward, Fresh
<1>3. TypeOK' /\ LinksFine' /\ TokensFine' /\ NothingOutlivesReset'
  BY <1>1 DEF AuthInv, TypeOK, LinksFine, TokensFine, Fresh, NothingOutlivesReset, Live
<1>4. JobsFine' /\ SocketsFine' /\ CookieFine'
  BY <1>1, <1>2, JobsStay, SocketsKeep, CookieKeeps DEF AuthInv
<1> QED
  BY <1>3, <1>4 DEF AuthInv

-----------------------------------------------------------------------------
(* Sockets *)

LEMMA SocketStep ==
    ASSUME AuthInv, socket' \in [Sockets -> Socket], SocketsFine',
           UNCHANGED <<account, link, session, spent, browser, job, blamed>>
    PROVE  AuthInv'
<1>1. Onward
  BY DEF Onward, Fresh
<1>2. TypeOK' /\ LinksFine' /\ TokensFine' /\ NothingOutlivesReset'
  BY DEF AuthInv, TypeOK, LinksFine, TokensFine, Fresh, NothingOutlivesReset, Live
<1>3. JobsFine' /\ CookieFine'
  BY <1>1, JobsStay, CookieKeeps DEF AuthInv
<1> QED
  BY <1>2, <1>3 DEF AuthInv

\* One socket becomes r.
LEMMA OneSocketStep ==
    ASSUME AuthInv, NEW c \in Sockets, NEW r \in Socket, socket' = [socket EXCEPT ![c] = r],
           r.state # "none" => r.s \in Sessions /\ ~Fresh(r.s),
           r.state = "none" => r.s = Nil,
           r.checked => r.state = "open" /\ ~r.told,
           r.told => r.state # "none" /\ session[r.s].status = "ENDED",
           ~r.late,
           UNCHANGED <<account, link, session, spent, browser, job, blamed>>
    PROVE  AuthInv'
<1>1. socket' \in [Sockets -> Socket]
  BY DEF AuthInv, TypeOK
<1>2. SocketsFine'
  <2> SUFFICES ASSUME NEW d \in Sockets PROVE SocketFine(d)'
    BY DEF SocketsFine
  <2>1. CASE d = c
    <3>1. socket'[d] = r
      BY <2>1 DEF AuthInv, TypeOK
    <3> QED
      BY <3>1 DEF SocketFine, Fresh
  <2>2. CASE d # c
    <3>1. socket'[d] = socket[d]
      BY <2>2 DEF AuthInv, TypeOK
    <3> QED
      BY <3>1 DEF AuthInv, SocketsFine, SocketFine, Fresh
  <2> QED
    BY <2>1, <2>2
<1> QED
  BY <1>1, <1>2, SocketStep

LEMMA ClosedIsFine ==
    ASSUME AuthInv, NEW c \in Sockets
    PROVE  /\ Closed(c) \in Socket
           /\ Closed(c).state = "none" /\ Closed(c).s = Nil
           /\ ~Closed(c).checked /\ ~Closed(c).told /\ ~Closed(c).late
<1>1. socket[c] \in Socket /\ ~socket[c].late
  BY DEF AuthInv, TypeOK, SocketsFine, SocketFine
<1> QED
  BY <1>1 DEF Closed, NoSocket, Socket

LEMMA CloseKeeps ==
    ASSUME AuthInv, NEW c \in Sockets, socket' = [socket EXCEPT ![c] = Closed(c)],
           UNCHANGED <<users, session, spent, browser, job, blamed>>
    PROVE  AuthInv'
<1>1. PICK r \in Socket : r = Closed(c)
  BY ClosedIsFine
<1>2. /\ r.state = "none" /\ r.s = Nil /\ ~r.checked /\ ~r.told /\ ~r.late
      /\ socket' = [socket EXCEPT ![c] = r]
  BY <1>1, ClosedIsFine
<1> QED
  BY <1>2, OneSocketStep DEF users

LEMMA HandshakeReadKeeps ==
    ASSUME AuthInv, NEW c \in Sockets, NEW s \in Sessions, HandshakeRead(c, s)
    PROVE  AuthInv'
<1>1. socket[c] \in Socket /\ SocketFine(c) /\ ~Fresh(s)
  BY DEF AuthInv, TypeOK, SocketsFine, HandshakeRead, Usable, Live, Fresh
<1>2. PICK r \in Socket : r = [socket[c] EXCEPT !.state = "verified", !.s = s]
  BY <1>1 DEF Socket
<1>3. socket' = [socket EXCEPT ![c] = r]
  BY <1>2 DEF HandshakeRead, AuthInv, TypeOK
<1>4. /\ r.state = "verified" /\ r.s = s /\ ~r.checked /\ ~r.told /\ ~r.late
  BY <1>1, <1>2 DEF Socket, SocketFine, HandshakeRead
<1> QED
  BY <1>1, <1>3, <1>4, OneSocketStep DEF HandshakeRead, users

LEMMA RegisterKeeps ==
    ASSUME AuthInv, NEW c \in Sockets, Register(c)
    PROVE  AuthInv'
<1>1. socket[c] \in Socket /\ SocketFine(c)
  BY DEF AuthInv, TypeOK, SocketsFine
<1>2. PICK r \in Socket : r = [socket[c] EXCEPT !.state = "open"]
  BY <1>1 DEF Socket
<1>3. socket' = [socket EXCEPT ![c] = r]
  BY <1>2 DEF Register, AuthInv, TypeOK
<1>4. /\ r.state = "open" /\ r.s \in Sessions /\ ~Fresh(r.s) /\ ~r.checked /\ ~r.late
      /\ r.told => session[r.s].status = "ENDED"
  BY <1>1, <1>2 DEF Socket, SocketFine, Register
<1> QED
  BY <1>3, <1>4, OneSocketStep DEF Register, users

LEMMA AuthorizeKeeps ==
    ASSUME AuthInv, NEW c \in Sockets, Authorize(c)
    PROVE  AuthInv'
<1>1. CASE Usable(socket[c].s)
  <2>1. socket[c] \in Socket /\ SocketFine(c) /\ socket[c].state = "open"
    BY DEF AuthInv, TypeOK, SocketsFine, Authorize
  <2>2. PICK r \in Socket : r = [socket[c] EXCEPT !.checked = TRUE]
    BY <2>1 DEF Socket
  <2>3. socket' = [socket EXCEPT ![c] = r]
    BY <1>1, <2>2 DEF Authorize
  <2>4. r.state = "open" /\ r.s \in Sessions /\ ~Fresh(r.s) /\ ~r.told /\ ~r.late
    BY <1>1, <2>1, <2>2 DEF Socket, SocketFine, Usable, Live
  <2> QED
    BY <2>3, <2>4, OneSocketStep DEF Authorize, users
<1>2. CASE ~Usable(socket[c].s)
  BY <1>2, CloseKeeps DEF Authorize
<1> QED
  BY <1>1, <1>2

LEMMA EmitKeeps ==
    ASSUME AuthInv, NEW c \in Sockets, Emit(c)
    PROVE  AuthInv'
<1>1. socket[c] \in Socket /\ SocketFine(c)
  BY DEF AuthInv, TypeOK, SocketsFine
<1>2. ~socket[c].told /\ ~socket[c].late
  BY <1>1 DEF SocketFine, Emit
<1>3. PICK r \in Socket : r = [socket[c] EXCEPT !.checked = FALSE, !.late = FALSE]
  BY <1>1 DEF Socket
<1>4. socket' = [socket EXCEPT ![c] = r]
  BY <1>1, <1>2, <1>3 DEF Emit, AuthInv, TypeOK, Socket
<1>5. r.state = "open" /\ r.s \in Sessions /\ ~Fresh(r.s) /\ ~r.told /\ ~r.late /\ ~r.checked
  BY <1>1, <1>3 DEF Socket, SocketFine, Emit
<1> QED
  BY <1>4, <1>5, OneSocketStep DEF Emit, users

LEMMA NotifyKeeps ==
    ASSUME AuthInv, NEW w \in Workers, Notify(w)
    PROVE  AuthInv'
<1> DEFINE told(c) == [socket[c] EXCEPT !.told = TRUE]
<1>1. \A s \in job[w].scope : s \in Sessions /\ session[s].status = "ENDED"
  BY DEF AuthInv, TypeOK, JobsFine, JobFine, Job, Notify
<1>2. socket' \in [Sockets -> Socket] /\ SocketsFine'
  <2> SUFFICES ASSUME NEW c \in Sockets PROVE socket'[c] \in Socket /\ SocketFine(c)'
    BY DEF SocketsFine, Notify
  <2>1. socket[c] \in Socket /\ SocketFine(c)
    BY DEF AuthInv, TypeOK, SocketsFine
  <2>2. UNCHANGED session
    BY DEF Notify
  <2>3. CASE socket[c].s \notin job[w].scope
    <3>1. socket'[c] = socket[c]
      BY <2>3 DEF Notify
    <3> QED
      BY <2>1, <2>2, <3>1 DEF SocketFine, Fresh
  <2>4. CASE socket[c].s \in job[w].scope /\ socket[c].state = "open"
    <3>1. socket'[c] = Closed(c)
      BY <2>4 DEF Notify
    <3> QED
      BY <3>1, ClosedIsFine DEF SocketFine
  <2>5. CASE socket[c].s \in job[w].scope /\ socket[c].state # "open"
    <3>1. socket'[c] = told(c)
      BY <2>5 DEF Notify
    <3>2. /\ told(c) \in Socket /\ told(c).state = socket[c].state /\ told(c).s = socket[c].s
          /\ told(c).checked = socket[c].checked /\ told(c).late = socket[c].late
      BY <2>1 DEF Socket
    <3>3. socket[c].s \in Sessions /\ session[socket[c].s].status = "ENDED"
      BY <1>1, <2>5
    <3>4. socket[c].state # "none" /\ ~socket[c].checked
      BY <2>1, <2>5, <3>3, AuthAssumption DEF SocketFine, Sessions
    <3> HIDE DEF told
    <3> QED
      BY <2>1, <2>2, <3>1, <3>2, <3>3, <3>4 DEF SocketFine, Fresh
  <2> QED
    BY <2>3, <2>4, <2>5
<1>3. UNCHANGED <<account, link, session, spent, blamed>>
  BY DEF Notify, users
<1>4. Onward
  BY <1>3 DEF Onward, Fresh
<1>5. PICK j \in Job : job' = [job EXCEPT ![w] = j] /\ JobFine(j)'
  BY IdleIsFine, IdleIsFineNext, ReplyIsFine, Cookies DEF Notify, Fail
<1>6. JobsFine'
  BY <1>4, <1>5, JobsKeep DEF AuthInv
<1>7. /\ browser' \in [cookie : Cookie, lock : Workers \cup {Nil}]
      /\ browser'.cookie = browser.cookie
  BY UnlockedIsFine DEF Notify, Fail, AuthInv, TypeOK
<1>8. CookieFine'
  BY <1>4, <1>7, CookieKeeps DEF AuthInv
<1>9. TypeOK' /\ LinksFine' /\ TokensFine' /\ NothingOutlivesReset'
  BY <1>2, <1>3, <1>5, <1>7
     DEF AuthInv, TypeOK, LinksFine, TokensFine, Fresh, NothingOutlivesReset, Live
<1> QED
  BY <1>2, <1>6, <1>8, <1>9 DEF AuthInv

-----------------------------------------------------------------------------
(* The theorems *)

LEMMA InitAuth == Init => AuthInv
<1> SUFFICES ASSUME Init PROVE AuthInv
  OBVIOUS
<1>1. TypeOK
  <2>1. NoSession \in SessionRow
    BY AuthAssumption DEF NoSession, SessionRow
  <2>2. NoSocket \in Socket
    BY DEF NoSocket, Socket
  <2>3. link \in [Links \cup Resets -> {"NONE", "LIVE", "USED"}]
    BY DEF Init
  <2> QED
    BY <2>1, <2>2, <2>3, IdleIsFine, Cookies DEF Init, TypeOK
<1>2. JobsFine
  BY IdleIsFine DEF Init, JobsFine
<1>3. LinksFine /\ TokensFine
  <2>1. \A k \in Token : spent[k] = 0
    BY DEF Init
  <2>2. LinksFine
    BY <2>1, TokenKinds DEF LinksFine
  <2>3. \A s \in Sessions : session[s].hash = 0
    BY DEF Init, NoSession
  <2> QED
    BY <2>1, <2>2, <2>3, TokenKinds DEF TokensFine
<1>4. SocketsFine /\ CookieFine /\ NothingOutlivesReset
  BY DEF Init, SocketsFine, SocketFine, NoSocket, CookieFine, NothingOutlivesReset, Live, NoSession
<1> QED
  BY <1>1, <1>2, <1>3, <1>4 DEF AuthInv

LEMMA StutterKeepsAuth ==
    ASSUME AuthInv, UNCHANGED vars
    PROVE  AuthInv'
<1>1. socket' \in [Sockets -> Socket] /\ SocketsFine'
  BY DEF AuthInv, TypeOK, SocketsFine, SocketFine, Fresh, vars
<1> QED
  BY <1>1, SocketStep DEF vars

LEMMA NextKeepsAuth ==
    ASSUME AuthInv, [Next]_vars
    PROVE  AuthInv'
<1>1. CASE Mails
  BY <1>1, ResendVerificationKeeps, IssuePasswordResetKeeps, ExpireLinkKeeps DEF Mails
<1>2. ASSUME NEW w \in Workers, SignsIn(w)
      PROVE  AuthInv'
  BY <1>2, LoginReadKeeps, VerifyReadKeeps, VerifyCommitKeeps, LoginCommitKeeps DEF SignsIn
<1>3. ASSUME NEW w \in Workers, Resetting(w)
      PROVE  AuthInv'
  BY <1>3, ResetReadKeeps, ResetCommitKeeps DEF Resetting
<1>4. ASSUME NEW w \in Workers, Refreshes(w)
      PROVE  AuthInv'
  BY <1>4, RefreshSendKeeps, RefreshReadKeeps, RefreshReuseKeeps, RefreshRotateKeeps DEF Refreshes
<1>5. ASSUME NEW w \in Workers, Ends(w)
      PROVE  AuthInv'
  BY <1>5, LogoutSendKeeps, LogoutCommitKeeps, NotifyKeeps, NotifyElsewhereKeeps,
     AnswerKeeps, AbandonKeeps, AbortKeeps DEF Ends
<1>6. ASSUME NEW c \in Sockets, Chats(c)
      PROVE  AuthInv'
  <2>1. CASE Recheck(c) \/ Hangup(c)
    BY <2>1, CloseKeeps DEF Recheck, Hangup
  <2> QED
    BY <1>6, <2>1, HandshakeReadKeeps, RegisterKeeps, AuthorizeKeeps, EmitKeeps DEF Chats
<1> QED
  BY <1>1, <1>2, <1>3, <1>4, <1>5, <1>6, ExpireKeeps, SuspendKeeps, StutterKeepsAuth DEF Next

\* The inductive invariant holds in every reachable state.
THEOREM AuthCorrect == Spec => []AuthInv
<1>1. Init => AuthInv
  BY InitAuth
<1>2. AuthInv /\ [Next]_vars => AuthInv'
  BY NextKeepsAuth
<1> QED
  BY <1>1, <1>2, PTL DEF Spec

\* Rows, links, cookies, requests and sockets keep their types (schema.prisma
\* and the records of auth.service.ts and conversations.gateway.ts).
THEOREM AuthTypes == Spec => []TypeOK
<1>1. AuthInv => TypeOK
  BY DEF AuthInv
<1> QED
  BY <1>1, AuthCorrect, PTL

\* No session survives a password reset it was not earned after, however many
\* sign-ins and refreshes overlap it (auth.service.ts, login and resetPassword).
THEOREM ResetEndsSessions == Spec => []NothingOutlivesReset
<1>1. AuthInv => NothingOutlivesReset
  BY DEF AuthInv
<1> QED
  BY <1>1, AuthCorrect, PTL

\* Mailed links and refresh tokens are redeemed at most once (auth.service.ts,
\* the conditional updates).
THEOREM TokensAreOneTime == Spec => []OneTimeTokens
<1>1. AuthInv => OneTimeTokens
  BY DEF AuthInv, LinksFine, TokensFine, OneTimeTokens, Token
<1> QED
  BY <1>1, AuthCorrect, PTL

\* A socket whose session the gateway was told about gets nothing more
\* (conversations.gateway.ts, forAuthorizedRecipient).
THEOREM NoticeEndsDelivery == Spec => []NoDeliveryAfterNotice
<1>1. AuthInv => NoDeliveryAfterNotice
  BY DEF AuthInv, SocketsFine, SocketFine, NoDeliveryAfterNotice
<1> QED
  BY <1>1, AuthCorrect, PTL

-----------------------------------------------------------------------------
(* The browser's tabs take turns.  Of a session none of whose answers was  *)
(* lost, the cookie holds the valid token, or the answer with it is on its *)
(* way under the lock; and what is presented is that token.                *)

Tracked(s) == Live(s) /\ ~session[s].lost
Presents(w, s) == job[w].op \in {"refresh", "rotate"} /\ job[w].cookie.s = s
Answers(w, s) == job[w].op = "answer" /\ job[w].cookie.s = s

CookieCurrent(s) ==
    browser.cookie.s = s =>
        browser.cookie.g = session[s].hash \/ \E w \in Workers : Answers(w, s) /\ browser.lock = w

PresentsCurrent(w, s) ==
    Presents(w, s) =>
        /\ job[w].mine /\ job[w].cookie.g = session[s].hash /\ browser.lock = w
        /\ \A v \in Workers : ~Answers(v, s)

AnswersCurrent(w, s) ==
    Answers(w, s) =>
        /\ job[w].mine /\ job[w].cookie.g = session[s].hash
        /\ browser.cookie.s = s => browser.lock = w
        /\ \A v \in Workers : Answers(v, s) => v = w

NoReuse(w, s) == job[w].op = "reuse" => job[w].cookie.s # s

InTurn(s) ==
    /\ CookieCurrent(s)
    /\ \A w \in Workers : PresentsCurrent(w, s) /\ AnswersCurrent(w, s) /\ NoReuse(w, s)

TabsInv == (\A s \in Sessions : Tracked(s) => InTurn(s)) /\ ReuseMeansLostReply

\* A request that holds no token of s.
Silent(j, s) == j.op \in {"refresh", "rotate", "reuse", "answer"} => j.cookie.s # s

SessionKept(s) == Tracked(s)' => Tracked(s) /\ session'[s].hash = session[s].hash

LEMMA TurnStays ==
    ASSUME TabsInv, NEW s \in Sessions, SessionKept(s), Tracked(s)', UNCHANGED <<job, browser>>
    PROVE  InTurn(s)'
  BY DEF TabsInv, SessionKept, InTurn, CookieCurrent, PresentsCurrent, AnswersCurrent,
         NoReuse, Presents, Answers

\* A request that is not an answer for s goes on without a token of s.
LEMMA TurnKept ==
    ASSUME TabsInv, NEW s \in Sessions, SessionKept(s), Tracked(s)',
           NEW w \in Workers, \A v \in Workers \ {w} : job'[v] = job[v],
           Silent(job'[w], s), ~Answers(w, s),
           browser'.cookie = browser.cookie,
           browser'.lock = browser.lock \/ (browser.lock = w /\ browser'.lock = Nil)
    PROVE  InTurn(s)'
<1>1. Tracked(s) /\ session'[s].hash = session[s].hash /\ InTurn(s)
  BY DEF SessionKept, TabsInv
<1>2. ~Presents(w, s)' /\ ~Answers(w, s)' /\ NoReuse(w, s)'
  BY DEF Silent, Presents, Answers, NoReuse
<1>3. \A v \in Workers \ {w} : /\ Presents(v, s)' <=> Presents(v, s)
                               /\ Answers(v, s)' <=> Answers(v, s)
                               /\ NoReuse(v, s)' <=> NoReuse(v, s)
  BY DEF Presents, Answers, NoReuse
<1>4. \A v \in Workers \ {w} : browser.lock = v => browser'.lock = v
  OBVIOUS
<1>5. CookieCurrent(s)'
  BY <1>1, <1>3, <1>4 DEF InTurn, CookieCurrent
<1>6. ASSUME NEW v \in Workers
      PROVE  PresentsCurrent(v, s)' /\ AnswersCurrent(v, s)' /\ NoReuse(v, s)'
  BY <1>1, <1>2, <1>3, <1>4 DEF InTurn, PresentsCurrent, AnswersCurrent
<1> QED
  BY <1>5, <1>6 DEF InTurn

LEMMA UnlockedTurns ==
    ASSUME TypeOK, NEW w \in Workers
    PROVE  /\ Unlocked(w).cookie = browser.cookie
           /\ \/ Unlocked(w).lock = browser.lock
              \/ browser.lock = w /\ Unlocked(w).lock = Nil
           /\ Unlocked(w).lock # w
  BY AuthAssumption DEF TypeOK, Unlocked

LEMMA EndedUntracked ==
    ASSUME TypeOK, NEW s \in Sessions, session'[s] = Ended(s)
    PROVE  ~Tracked(s)'
  BY DEF TypeOK, SessionRow, Tracked, Live, Ended

LEMMA IdleIsSilent ==
    /\ Idle.op = "idle" /\ Idle.cookie = NoCookie
    /\ \A s : Silent(Idle, s)
    /\ \A s \in Sessions : NoCookie.s # s
  BY AuthAssumption DEF Idle, Silent, NoCookie, Sessions

\* A request that fails was no answer.
LEMMA FailTurns ==
    ASSUME AuthInv, TabsInv, NEW s \in Sessions, SessionKept(s), Tracked(s)',
           NEW w \in Workers, job[w].op # "answer", Fail(w)
    PROVE  InTurn(s)'
<1>1. job' = [job EXCEPT ![w] = Idle] /\ browser' = Unlocked(w) /\ TypeOK
  BY DEF Fail, AuthInv
<1>2. job'[w] = Idle /\ \A v \in Workers \ {w} : job'[v] = job[v]
  BY <1>1 DEF TypeOK
<1> QED
  BY <1>1, <1>2, UnlockedTurns, IdleIsSilent, TurnKept DEF Answers

LEMMA BeginTurns ==
    ASSUME AuthInv, TabsInv, NEW s \in Sessions, SessionKept(s), Tracked(s)',
           NEW w \in Workers, NEW j, Begin(w, j), Silent(j, s), UNCHANGED browser
    PROVE  InTurn(s)'
<1>1. job'[w] = j /\ \A v \in Workers \ {w} : job'[v] = job[v]
  BY DEF Begin, AuthInv, TypeOK
<1>2. ~Answers(w, s)
  BY IdleIsSilent DEF Begin, Answers
<1> QED
  BY <1>1, <1>2, TurnKept

LEMMA ReplyTurns ==
    ASSUME AuthInv, TabsInv, NEW s \in Sessions, SessionKept(s), Tracked(s)',
           NEW w \in Workers, NEW k, Reply(w, k), k.s # s, job[w].op # "answer", UNCHANGED browser
    PROVE  InTurn(s)'
<1> DEFINE a == [Idle EXCEPT !.op = "answer", !.mine = TRUE, !.cookie = k]
<1>1. job' = [job EXCEPT ![w] = a] \/ job' = [job EXCEPT ![w] = Idle]
  BY DEF Reply
<1>2. Silent(a, s)
  BY DEF Silent, Idle
<1> HIDE DEF a
<1>3. Silent(job'[w], s) /\ \A v \in Workers \ {w} : job'[v] = job[v]
  BY <1>1, <1>2, IdleIsSilent DEF AuthInv, TypeOK
<1> QED
  BY <1>3, TurnKept DEF Answers

LEMMA SignInTurns ==
    ASSUME AuthInv, TabsInv, NEW w \in Workers,
           \/ \E mine \in BOOLEAN : LoginRead(w, mine)
           \/ \E l \in Links, mine \in BOOLEAN : VerifyRead(w, l, mine)
           \/ \E r \in Resets : ResetRead(w, r)
           \/ LogoutSend(w)
    PROVE  TabsInv'
<1>1. session' = session /\ blamed' = blamed /\ browser' = browser
  BY DEF LoginRead, VerifyRead, ResetRead, LogoutSend
<1>2. ASSUME NEW j, Begin(w, j), j.op \in {"login", "verify", "reset", "logout"}
      PROVE  TabsInv'
  <2>1. ASSUME NEW s \in Sessions, Tracked(s)'
        PROVE  InTurn(s)'
    <3>1. SessionKept(s)
      BY <1>1 DEF SessionKept, Tracked, Live
    <3>2. Silent(j, s)
      BY <1>2 DEF Silent
    <3> QED
      BY <1>1, <1>2, <2>1, <3>1, <3>2, BeginTurns
  <2> QED
    BY <1>1, <2>1 DEF TabsInv, ReuseMeansLostReply
<1>3. ASSUME NEW mine \in BOOLEAN, LoginRead(w, mine)
      PROVE  TabsInv'
  <2> DEFINE j == [Idle EXCEPT !.op = "login", !.mine = mine, !.password = account.password]
  <2>1. Begin(w, j) /\ j.op = "login"
    BY <1>3 DEF LoginRead, Idle
  <2> QED
    BY <1>2, <2>1
<1>4. ASSUME NEW l \in Links, NEW mine \in BOOLEAN, VerifyRead(w, l, mine)
      PROVE  TabsInv'
  <2> DEFINE j == [Idle EXCEPT !.op = "verify", !.mine = mine, !.token = l,
                               !.password = account.password]
  <2>1. Begin(w, j) /\ j.op = "verify"
    BY <1>4 DEF VerifyRead, Idle
  <2> QED
    BY <1>2, <2>1
<1>5. ASSUME NEW r \in Resets, ResetRead(w, r)
      PROVE  TabsInv'
  <2> DEFINE j == [Idle EXCEPT !.op = "reset", !.token = r]
  <2>1. Begin(w, j) /\ j.op = "reset"
    BY <1>5 DEF ResetRead, Idle
  <2> QED
    BY <1>2, <2>1
<1>6. CASE LogoutSend(w)
  <2> DEFINE j == [Idle EXCEPT !.op = "logout", !.mine = TRUE, !.cookie = browser.cookie]
  <2>1. Begin(w, j) /\ j.op = "logout"
    BY <1>6 DEF LogoutSend, Idle
  <2> QED
    BY <1>2, <2>1
<1> QED
  BY <1>3, <1>4, <1>5, <1>6

\* A session that ends, the request that ended it, and its notice.
LEMMA EndTurns ==
    ASSUME AuthInv, TabsInv, NEW w \in Workers,
           LogoutCommit(w) \/ RefreshReuse(w) \/ Notify(w) \/ NotifyElsewhere(w) \/ Abort(w)
    PROVE  TabsInv'
<1>0. TypeOK /\ job \in [Workers -> Job] /\ JobFine(job[w])
  BY DEF AuthInv, TypeOK, JobsFine
<1>1. CASE LogoutCommit(w) \/ RefreshReuse(w)
  <2> DEFINE t == job[w].cookie.s
  <2>1. t \in Sessions /\ session' = [session EXCEPT ![t] = Ended(t)] /\ browser' = browser
    BY <1>0, <1>1 DEF LogoutCommit, RefreshReuse, JobFine, Issued
  <2>2. job[w].op # "answer" /\ job'[w].op = "notify" /\ \A v \in Workers \ {w} : job'[v] = job[v]
    BY <1>0, <1>1 DEF LogoutCommit, RefreshReuse, Job
  <2>3. session'[t] = Ended(t) /\ \A s \in Sessions \ {t} : session'[s] = session[s]
    BY <1>0, <2>1 DEF TypeOK
  <2> HIDE DEF t
  <2>4. ASSUME NEW s \in Sessions, Tracked(s)'
        PROVE  InTurn(s)'
    <3>1. s # t
      BY <1>0, <2>1, <2>3, <2>4, EndedUntracked
    <3>2. SessionKept(s)
      BY <2>3, <3>1 DEF SessionKept, Tracked, Live
    <3> QED
      BY <2>1, <2>2, <2>4, <3>2, TurnKept DEF Silent, Answers
  <2>5. blamed' = blamed
    <3>1. CASE LogoutCommit(w)
      BY <3>1 DEF LogoutCommit
    <3>2. CASE RefreshReuse(w)
      <4>1. ~Tracked(t)
        BY <2>1, <3>2 DEF t, TabsInv, InTurn, NoReuse, RefreshReuse
      <4> QED
        BY <3>2, <4>1, <1>0 DEF RefreshReuse, Tracked, t, TypeOK
    <3> QED
      BY <1>1, <3>1, <3>2
  <2> QED
    BY <2>4, <2>5 DEF TabsInv, ReuseMeansLostReply
<1>2. CASE Notify(w) \/ NotifyElsewhere(w) \/ Abort(w)
  <2>1. session' = session /\ blamed' = blamed
    BY <1>2 DEF Notify, NotifyElsewhere, Abort
  <2>2. ASSUME NEW s \in Sessions, Tracked(s)'
        PROVE  InTurn(s)'
    <3>1. SessionKept(s)
      BY <2>1 DEF SessionKept, Tracked, Live
    <3>2. CASE Abort(w)
      <4>1. job'[w] = Idle /\ \A v \in Workers \ {w} : job'[v] = job[v]
        BY <1>0, <3>2 DEF Abort
      <4>2. ~Answers(w, s)
        BY <2>2, <3>1, <3>2 DEF Abort, SessionKept, TabsInv, InTurn, AnswersCurrent
      <4> QED
        BY <2>2, <3>1, <3>2, <4>1, <4>2, TurnKept, IdleIsSilent DEF Abort
    <3>3. CASE ~Abort(w)
      <4>1. job[w].op = "notify"
        BY <1>2, <3>3 DEF Notify, NotifyElsewhere
      <4>2. (Reply(w, NoCookie) /\ UNCHANGED browser) \/ Fail(w)
        BY <1>2, <3>3 DEF Notify, NotifyElsewhere
      <4> QED
        BY <2>2, <3>1, <4>1, <4>2, ReplyTurns, FailTurns, IdleIsSilent
    <3> QED
      BY <3>2, <3>3
  <2> QED
    BY <2>1, <2>2 DEF TabsInv, ReuseMeansLostReply
<1> QED
  BY <1>1, <1>2

\* A new session: nobody has a token of it but the answer, if there is one.
LEMMA CreateTurns ==
    ASSUME AuthInv, TabsInv, NEW w \in Workers, NEW t \in Sessions, CreateSession(w, t),
           job[w].op # "answer", UNCHANGED <<browser, blamed>>
    PROVE  TabsInv'
<1> DEFINE k == [s |-> t, g |-> 1]
           a == [Idle EXCEPT !.op = "answer", !.mine = TRUE, !.cookie = k]
<1>0. TypeOK /\ JobsFine /\ CookieFine
  BY DEF AuthInv
<1>1. Fresh(t) /\ Reply(w, k) /\ k.s = t /\ k.g = 1
  BY DEF CreateSession
<1>2. /\ session'[t].hash = 1 /\ \A s \in Sessions \ {t} : session'[s] = session[s]
  BY <1>0 DEF CreateSession, TypeOK
<1>3. ASSUME NEW s \in Sessions, s # t, Tracked(s)'
      PROVE  InTurn(s)'
  <2>1. SessionKept(s)
    BY <1>2, <1>3 DEF SessionKept, Tracked, Live
  <2> HIDE DEF k
  <2> QED
    BY <1>1, <1>3, <2>1, ReplyTurns
<1>4. \A v \in Workers : Silent(job[v], t)
  <2>1. NoCookie.s # t
    BY IdleIsSilent
  <2> QED
    BY <1>0, <1>1, <2>1 DEF JobsFine, JobFine, Issued, Silent
<1>5. browser.cookie.s # t
  BY <1>0, <1>1, IdleIsSilent DEF CookieFine, Issued
<1>6. job' = [job EXCEPT ![w] = a] \/ job' = [job EXCEPT ![w] = Idle]
  BY <1>1 DEF Reply
<1>7. a.op = "answer" /\ a.mine = TRUE /\ a.cookie = k
  BY DEF Idle
<1> HIDE DEF a, k
<1>8. (job'[w] = a \/ job'[w] = Idle) /\ \A v \in Workers \ {w} : job'[v] = job[v]
  BY <1>0, <1>6 DEF TypeOK
<1>9. \A v \in Workers \ {w} : ~Presents(v, t)' /\ ~Answers(v, t)' /\ NoReuse(v, t)'
  BY <1>4, <1>8 DEF Presents, Answers, NoReuse, Silent
<1>10. /\ ~Presents(w, t)' /\ NoReuse(w, t)'
       /\ Answers(w, t)' => job'[w].mine /\ job'[w].cookie.g = 1
  BY <1>1, <1>7, <1>8, IdleIsSilent DEF Presents, Answers, NoReuse
<1>11. InTurn(t)'
  <2>1. CookieCurrent(t)'
    BY <1>5 DEF CookieCurrent
  <2>2. ASSUME NEW v \in Workers
        PROVE  PresentsCurrent(v, t)' /\ AnswersCurrent(v, t)' /\ NoReuse(v, t)'
    BY <1>2, <1>5, <1>9, <1>10 DEF PresentsCurrent, AnswersCurrent
  <2> QED
    BY <2>1, <2>2 DEF InTurn
<1> QED
  BY <1>3, <1>11 DEF TabsInv, ReuseMeansLostReply

LEMMA FailedTurns ==
    ASSUME AuthInv, TabsInv, NEW w \in Workers, job[w].op # "answer", Fail(w),
           UNCHANGED <<session, blamed>>
    PROVE  TabsInv'
<1>1. ASSUME NEW s \in Sessions, Tracked(s)'
      PROVE  InTurn(s)'
  BY <1>1, FailTurns DEF SessionKept, Tracked, Live
<1> QED
  BY <1>1 DEF TabsInv, ReuseMeansLostReply

LEMMA CommitTurns ==
    ASSUME AuthInv, TabsInv, NEW w \in Workers,
           (\E s \in Sessions : VerifyCommit(w, s) \/ LoginCommit(w, s)) \/ ResetCommit(w)
    PROVE  TabsInv'
<1>1. ASSUME NEW s \in Sessions, VerifyCommit(w, s)
      PROVE  TabsInv'
  BY <1>1, CreateTurns, FailedTurns DEF VerifyCommit
<1>2. ASSUME NEW s \in Sessions, LoginCommit(w, s)
      PROVE  TabsInv'
  BY <1>2, CreateTurns, FailedTurns DEF LoginCommit
<1>3. CASE ResetCommit(w)
  <2>1. CASE session' = [s \in Sessions |-> Ended(s)]
    <3>1. \A s \in Sessions : session'[s] = Ended(s)
      BY <2>1
    <3>2. \A s \in Sessions : ~Tracked(s)'
      BY <3>1, EndedUntracked DEF AuthInv
    <3> QED
      BY <1>3, <3>2 DEF ResetCommit, TabsInv, ReuseMeansLostReply
  <2>2. CASE session' # [s \in Sessions |-> Ended(s)]
    BY <1>3, <2>2, FailedTurns DEF ResetCommit
  <2> QED
    BY <2>1, <2>2
<1> QED
  BY <1>1, <1>2, <1>3

\* A tab that takes the lock presents the valid token: no answer is under way.
LEMMA RefreshSendTurns ==
    ASSUME AuthInv, TabsInv, NEW w \in Workers, RefreshSend(w)
    PROVE  TabsInv'
<1> DEFINE j == [Idle EXCEPT !.op = "refresh", !.mine = TRUE, !.cookie = browser.cookie]
<1>0. TypeOK
  BY DEF AuthInv
<1>1. job' = [job EXCEPT ![w] = j] /\ job[w] = Idle /\ browser.lock = Nil
  BY DEF RefreshSend, Begin
<1>2. browser'.cookie = browser.cookie /\ browser'.lock = w
  BY <1>0 DEF RefreshSend, TypeOK
<1>3. j.op = "refresh" /\ j.mine = TRUE /\ j.cookie = browser.cookie
  BY DEF Idle
<1> HIDE DEF j
<1>4. job'[w] = j /\ \A v \in Workers \ {w} : job'[v] = job[v]
  BY <1>0, <1>1 DEF TypeOK
<1>5. \A v \in Workers : browser.lock # v
  BY <1>1, AuthAssumption
<1>6. ASSUME NEW s \in Sessions, Tracked(s)'
      PROVE  InTurn(s)'
  <2>1. Tracked(s) /\ session'[s].hash = session[s].hash /\ InTurn(s)
    BY <1>6 DEF RefreshSend, Tracked, Live, TabsInv
  <2>2. /\ ~Presents(w, s) /\ ~Answers(w, s)
        /\ ~Answers(w, s)' /\ NoReuse(w, s)'
    BY <1>1, <1>3, <1>4, IdleIsSilent DEF Presents, Answers, NoReuse
  <2>3. \A v \in Workers \ {w} : /\ Presents(v, s)' <=> Presents(v, s)
                                 /\ Answers(v, s)' <=> Answers(v, s)
                                 /\ NoReuse(v, s)' <=> NoReuse(v, s)
    BY <1>4 DEF Presents, Answers, NoReuse
  <2>4. \A v \in Workers : ~Presents(v, s)
    BY <1>5, <2>1 DEF InTurn, PresentsCurrent
  <2>5. browser.cookie.s = s => /\ browser.cookie.g = session[s].hash
                                /\ \A v \in Workers : ~Answers(v, s)
    BY <1>5, <2>1 DEF InTurn, CookieCurrent, AnswersCurrent
  <2>6. CookieCurrent(s)'
    BY <1>2, <2>1, <2>5 DEF CookieCurrent
  <2>7. PresentsCurrent(w, s)'
    BY <1>2, <1>3, <1>4, <2>1, <2>2, <2>3, <2>5 DEF PresentsCurrent, Presents
  <2>8. ASSUME NEW v \in Workers
        PROVE  PresentsCurrent(v, s)' /\ AnswersCurrent(v, s)' /\ NoReuse(v, s)'
    <3>1. CASE v = w
      BY <2>2, <2>7, <3>1 DEF AnswersCurrent
    <3>2. CASE v # w
      <4>1. PresentsCurrent(v, s)' /\ NoReuse(v, s)'
        BY <2>1, <2>3, <2>4, <3>2 DEF PresentsCurrent, InTurn
      <4>2. AnswersCurrent(v, s)'
        BY <1>2, <1>4, <2>1, <2>2, <2>3, <2>5, <3>2 DEF AnswersCurrent, InTurn
      <4> QED
        BY <4>1, <4>2
    <3> QED
      BY <3>1, <3>2
  <2> QED
    BY <2>6, <2>8 DEF InTurn
<1> QED
  BY <1>6 DEF TabsInv, ReuseMeansLostReply, RefreshSend

\* A token presented in turn is the valid one, so it is never taken for reuse.
LEMMA RefreshReadTurns ==
    ASSUME AuthInv, TabsInv, NEW w \in Workers, RefreshRead(w)
    PROVE  TabsInv'
<1> DEFINE op == IF session[job[w].cookie.s].hash = job[w].cookie.g THEN "rotate" ELSE "reuse"
<1>0. TypeOK /\ job[w] \in Job /\ JobFine(job[w]) /\ job[w].op = "refresh"
  BY DEF AuthInv, TypeOK, JobsFine, RefreshRead
<1>1. CASE Fail(w)
  BY <1>0, <1>1, FailedTurns DEF RefreshRead
<1>2. CASE ~Fail(w)
  <2>1. job' = [job EXCEPT ![w] = [job[w] EXCEPT !.op = op]] /\ browser' = browser
    BY <1>0, <1>2 DEF RefreshRead, TypeOK
  <2>2. op \in {"rotate", "reuse"}
    OBVIOUS
  <2>3. op = "reuse" => session[job[w].cookie.s].hash # job[w].cookie.g
    OBVIOUS
  <2> HIDE DEF op
  <2>4. /\ job'[w].op = op /\ job'[w].cookie = job[w].cookie /\ job'[w].mine = job[w].mine
        /\ \A v \in Workers \ {w} : job'[v] = job[v]
    BY <1>0, <2>1 DEF TypeOK, Job
  <2>5. ASSUME NEW s \in Sessions, Tracked(s)'
        PROVE  InTurn(s)'
    <3>1. Tracked(s) /\ session'[s].hash = session[s].hash /\ InTurn(s)
      BY <2>5 DEF RefreshRead, Tracked, Live, TabsInv
    <3>2. \A v \in Workers : (Presents(v, s)' => Presents(v, s)) /\ (Answers(v, s)' <=> Answers(v, s))
      BY <1>0, <2>2, <2>4 DEF Presents, Answers
    <3>3. NoReuse(w, s)'
      BY <1>0, <2>3, <2>4, <3>1 DEF NoReuse, InTurn, PresentsCurrent, Presents
    <3>4. \A v \in Workers : job'[v].cookie = job[v].cookie /\ job'[v].mine = job[v].mine
      BY <2>4
    <3>5. CookieCurrent(s)'
      BY <2>1, <3>1, <3>2 DEF InTurn, CookieCurrent
    <3>6. ASSUME NEW v \in Workers
          PROVE  PresentsCurrent(v, s)' /\ AnswersCurrent(v, s)' /\ NoReuse(v, s)'
      <4>1. PresentsCurrent(v, s)' /\ AnswersCurrent(v, s)'
        BY <2>1, <3>1, <3>2, <3>4 DEF InTurn, PresentsCurrent, AnswersCurrent
      <4>2. NoReuse(v, s)'
        BY <2>4, <3>1, <3>3 DEF InTurn, NoReuse
      <4> QED
        BY <4>1, <4>2
    <3> QED
      BY <3>5, <3>6 DEF InTurn
  <2> QED
    BY <2>5 DEF TabsInv, ReuseMeansLostReply, RefreshRead
<1> QED
  BY <1>1, <1>2

\* The rotation: the answer carries the new token under the lock.
LEMMA RefreshRotateTurns ==
    ASSUME AuthInv, TabsInv, NEW w \in Workers, RefreshRotate(w)
    PROVE  TabsInv'
<1>t. PICK t : t = job[w].cookie.s
  OBVIOUS
<1>g. PICK g : g = job[w].cookie.g
  OBVIOUS
<1> DEFINE k == [s |-> t, g |-> g + 1]
           a == [Idle EXCEPT !.op = "answer", !.mine = TRUE, !.cookie = k]
<1>0. TypeOK /\ job[w] \in Job /\ JobFine(job[w]) /\ job[w].op = "rotate"
  BY DEF AuthInv, TypeOK, JobsFine, RefreshRotate
<1>1. CASE Fail(w) /\ session' = session
  BY <1>0, <1>1, FailedTurns DEF RefreshRotate
<1>2. CASE ~(Fail(w) /\ session' = session)
  <2>1. /\ session' = [session EXCEPT ![t].hash = g + 1]
        /\ Reply(w, k) /\ browser' = browser
    BY <1>t, <1>g, <1>2 DEF RefreshRotate
  <2>2. t \in Sessions
    BY <1>0, <1>t DEF JobFine, Issued
  <2>3. /\ session'[t].hash = g + 1 /\ \A s \in Sessions \ {t} : session'[s] = session[s]
        /\ session'[t].status = session[t].status /\ session'[t].lost = session[t].lost
    BY <1>0, <2>1, <2>2 DEF TypeOK, SessionRow
  <2>4. job' = [job EXCEPT ![w] = IF job[w].mine THEN a ELSE Idle]
    BY <1>0, <2>1 DEF Reply, TypeOK
  <2>5. a.op = "answer" /\ a.mine = TRUE /\ a.cookie = k /\ k.s = t /\ k.g = g + 1
    BY DEF Idle
  <2> HIDE DEF a, k
  <2>6. /\ job'[w] = IF job[w].mine THEN a ELSE Idle
        /\ \A v \in Workers \ {w} : job'[v] = job[v]
    BY <1>0, <2>4 DEF TypeOK
  <2>7. ASSUME NEW s \in Sessions, s # t, Tracked(s)'
        PROVE  InTurn(s)'
    <3>1. SessionKept(s)
      BY <2>3, <2>7 DEF SessionKept, Tracked, Live
    <3> QED
      BY <1>0, <2>1, <2>5, <2>7, <3>1, ReplyTurns
  <2>8. ASSUME Tracked(t)'
        PROVE  InTurn(t)'
    <3>1. Tracked(t) /\ InTurn(t)
      BY <2>2, <2>3, <2>8 DEF Tracked, Live, TabsInv
    <3>2. /\ Presents(w, t) /\ job[w].mine /\ browser.lock = w
          /\ \A v \in Workers : ~Answers(v, t)
      BY <1>0, <1>t, <3>1 DEF InTurn, PresentsCurrent, Presents
    <3>3. \A v \in Workers \ {w} : ~Presents(v, t)
      BY <3>1, <3>2 DEF InTurn, PresentsCurrent
    <3>4. /\ Answers(w, t)' /\ ~Presents(w, t)' /\ NoReuse(w, t)'
          /\ job'[w].mine /\ job'[w].cookie.g = g + 1
      BY <2>5, <2>6, <3>2 DEF Answers, Presents, NoReuse
    <3>5. \A v \in Workers \ {w} : ~Presents(v, t)' /\ ~Answers(v, t)' /\ NoReuse(v, t)'
      BY <2>6, <3>1, <3>2, <3>3 DEF Presents, Answers, NoReuse, InTurn
    <3>6. CookieCurrent(t)'
      BY <2>1, <3>2, <3>4 DEF CookieCurrent
    <3>7. ASSUME NEW v \in Workers
          PROVE  PresentsCurrent(v, t)' /\ AnswersCurrent(v, t)' /\ NoReuse(v, t)'
      BY <2>1, <2>3, <3>2, <3>4, <3>5 DEF PresentsCurrent, AnswersCurrent
    <3> QED
      BY <3>6, <3>7 DEF InTurn
  <2> QED
    BY <2>7, <2>8 DEF TabsInv, ReuseMeansLostReply, RefreshRotate
<1> QED
  BY <1>1, <1>2

\* The answer arrives: the cookie holds the valid token, or none of s.
LEMMA AnswerTurns ==
    ASSUME AuthInv, TabsInv, NEW w \in Workers, Answer(w)
    PROVE  TabsInv'
<1> DEFINE u == Unlocked(w)
<1>0. TypeOK /\ job[w].op = "answer"
  BY DEF AuthInv, Answer
<1>u. /\ u \in [cookie : Cookie, lock : Workers \cup {Nil}]
      /\ u.lock = browser.lock \/ (browser.lock = w /\ u.lock = Nil)
  BY <1>0, AuthAssumption DEF TypeOK, Unlocked
<1>1. browser' = [u EXCEPT !.cookie = job[w].cookie] /\ job' = [job EXCEPT ![w] = Idle]
  BY DEF Answer
<1> HIDE DEF u
<1>2. browser'.cookie = job[w].cookie /\ browser'.lock = u.lock
  BY <1>1, <1>u
<1>3. job'[w] = Idle /\ \A v \in Workers \ {w} : job'[v] = job[v]
  BY <1>0, <1>1 DEF TypeOK
<1>4. ASSUME NEW s \in Sessions, Tracked(s)'
      PROVE  InTurn(s)'
  <2>1. Tracked(s) /\ session'[s].hash = session[s].hash /\ InTurn(s) /\ SessionKept(s)
    BY <1>4 DEF Answer, Tracked, Live, TabsInv, SessionKept
  <2>2. ~Presents(w, s)' /\ ~Answers(w, s)' /\ NoReuse(w, s)'
    BY <1>3, IdleIsSilent DEF Presents, Answers, NoReuse
  <2>3. \A v \in Workers \ {w} : /\ Presents(v, s)' <=> Presents(v, s)
                                 /\ Answers(v, s)' <=> Answers(v, s)
                                 /\ NoReuse(v, s)' <=> NoReuse(v, s)
    BY <1>3 DEF Presents, Answers, NoReuse
  <2>4. CASE job[w].cookie.s = s
    <3>1. Answers(w, s) /\ job[w].cookie.g = session[s].hash
      BY <1>0, <2>1, <2>4 DEF Answers, InTurn, AnswersCurrent
    <3>2. \A v \in Workers \ {w} : ~Answers(v, s) /\ ~Presents(v, s)
      BY <2>1, <3>1 DEF InTurn, AnswersCurrent, PresentsCurrent
    <3>3. CookieCurrent(s)'
      BY <1>2, <2>1, <3>1 DEF CookieCurrent
    <3>4. ASSUME NEW v \in Workers
          PROVE  PresentsCurrent(v, s)' /\ AnswersCurrent(v, s)' /\ NoReuse(v, s)'
      BY <2>1, <2>2, <2>3, <3>2 DEF PresentsCurrent, AnswersCurrent, InTurn
    <3> QED
      BY <3>3, <3>4 DEF InTurn
  <2>5. CASE job[w].cookie.s # s
    <3>1. CookieCurrent(s)'
      BY <1>2, <2>5 DEF CookieCurrent
    <3>2. ~Answers(w, s)
      BY <2>5 DEF Answers
    <3>3. ASSUME NEW v \in Workers
          PROVE  PresentsCurrent(v, s)' /\ AnswersCurrent(v, s)' /\ NoReuse(v, s)'
      <4>1. CASE v = w
        BY <2>2, <4>1 DEF PresentsCurrent, AnswersCurrent
      <4>2. CASE v # w
        <5>1. browser.lock = v => browser'.lock = v
          BY <1>u, <1>2, <4>2
        <5>2. PresentsCurrent(v, s)'
          BY <1>3, <2>1, <2>2, <2>3, <4>2, <5>1 DEF PresentsCurrent, InTurn
        <5>3. AnswersCurrent(v, s)'
          BY <1>2, <1>3, <2>1, <2>2, <2>3, <2>5, <4>2 DEF AnswersCurrent, InTurn
        <5> QED
          BY <2>1, <2>3, <4>2, <5>2, <5>3 DEF InTurn
      <4> QED
        BY <4>1, <4>2
    <3> QED
      BY <3>1, <3>3 DEF InTurn
  <2> QED
    BY <2>4, <2>5
<1> QED
  BY <1>4 DEF TabsInv, ReuseMeansLostReply, Answer

\* Whoever gives a request up loses its answer.
LEMMA AbandonTurns ==
    ASSUME AuthInv, TabsInv, NEW w \in Workers, Abandon(w)
    PROVE  TabsInv'
<1>0. TypeOK /\ job[w] \in Job
  BY DEF AuthInv, TypeOK
<1>1. job' = [job EXCEPT ![w] = [job[w] EXCEPT !.mine = FALSE]] /\ browser' = Unlocked(w)
  BY <1>0 DEF Abandon, TypeOK
<1>2. /\ job'[w].op = job[w].op /\ job'[w].cookie = job[w].cookie
      /\ \A v \in Workers \ {w} : job'[v] = job[v]
  BY <1>0, <1>1 DEF TypeOK, Job
<1>3. ASSUME NEW s \in Sessions, Tracked(s)'
      PROVE  InTurn(s)'
  <2>1. session'[s] = IF s = job[w].cookie.s /\ Live(s) THEN [session[s] EXCEPT !.lost = TRUE]
                      ELSE session[s]
    BY DEF Abandon
  <2>2. session[s] \in SessionRow
    BY <1>0 DEF TypeOK
  <2>3. session'[s] = session[s] /\ job[w].cookie.s # s
    BY <1>3, <2>1, <2>2 DEF SessionRow, Tracked, Live
  <2>4. SessionKept(s)
    BY <2>3 DEF SessionKept, Tracked, Live
  <2>5. Silent(job'[w], s) /\ ~Answers(w, s)
    BY <1>2, <2>3 DEF Silent, Answers
  <2> QED
    BY <1>0, <1>1, <1>2, <1>3, <2>4, <2>5, UnlockedTurns, TurnKept
<1> QED
  BY <1>3 DEF TabsInv, ReuseMeansLostReply, Abandon

\* Mails, sockets, the clock and an operator hold no token.
LEMMA BystanderTurns ==
    ASSUME AuthInv, TabsInv,
           \/ Mails \/ Suspend \/ UNCHANGED vars
           \/ \E s \in Sessions : Expire(s)
           \/ \E c \in Sockets : Chats(c)
    PROVE  TabsInv'
<1>1. UNCHANGED <<job, browser, blamed>>
  BY DEF Mails, ResendVerification, IssuePasswordReset, ExpireLink, Suspend, vars, Expire,
         Chats, HandshakeRead, Register, Authorize, Emit, Recheck, Hangup
<1>2. ASSUME NEW s \in Sessions
      PROVE  SessionKept(s)
  <2>1. CASE session' = session
    BY <2>1 DEF SessionKept, Tracked, Live
  <2>2. ASSUME NEW t \in Sessions, Expire(t)
        PROVE  SessionKept(s)
    <3>1. session'[t] = Ended(t) /\ (s # t => session'[s] = session[s])
      BY <2>2 DEF Expire, AuthInv, TypeOK
    <3> QED
      BY <3>1, EndedUntracked DEF AuthInv, SessionKept, Tracked, Live
  <2>3. session' = session \/ \E t \in Sessions : Expire(t)
    BY DEF Mails, ResendVerification, IssuePasswordReset, ExpireLink, Suspend, vars,
           Chats, HandshakeRead, Register, Authorize, Emit, Recheck, Hangup
  <2> QED
    BY <2>1, <2>2, <2>3
<1> QED
  BY <1>1, <1>2, TurnStays DEF TabsInv, ReuseMeansLostReply

LEMMA NextKeepsTurns ==
    ASSUME AuthInv, TabsInv, [Next]_vars
    PROVE  TabsInv'
<1>1. ASSUME NEW w \in Workers, SignsIn(w) \/ Resetting(w)
      PROVE  TabsInv'
  BY <1>1, SignInTurns, CommitTurns DEF SignsIn, Resetting
<1>2. ASSUME NEW w \in Workers, Refreshes(w)
      PROVE  TabsInv'
  BY <1>2, RefreshSendTurns, RefreshReadTurns, EndTurns, RefreshRotateTurns DEF Refreshes
<1>3. ASSUME NEW w \in Workers, Ends(w)
      PROVE  TabsInv'
  BY <1>3, SignInTurns, EndTurns, AnswerTurns, AbandonTurns DEF Ends
<1> QED
  BY <1>1, <1>2, <1>3, BystanderTurns DEF Next

\* While no answer was lost, the tabs never make the server take a refresh for
\* a stolen token (client.ts, the lock around refreshAccessToken), for any
\* number of tabs, sign-ins and sessions.
THEOREM TabsAreNotBlamed == Spec => []ReuseMeansLostReply
<1>1. Init => TabsInv
  BY DEF Init, TabsInv, Tracked, Live, NoSession, ReuseMeansLostReply
<1>2. AuthInv /\ TabsInv /\ [Next]_vars => TabsInv'
  BY NextKeepsTurns
<1>3. TabsInv => ReuseMeansLostReply
  BY DEF TabsInv
<1> QED
  BY <1>1, <1>2, <1>3, AuthCorrect, PTL DEF Spec
=============================================================================

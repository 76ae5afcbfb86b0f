---------------------------- MODULE AuthSessions ----------------------------
(***************************************************************************)
(* One account: its password, the links mailed to it, its sessions with    *)
(* their rotating refresh tokens, a browser that holds one of them in a    *)
(* cookie, and the chat sockets that were opened with its access tokens.   *)
(* Accounts do not share any of this, so one is enough.                    *)
(*                                                                         *)
(* Every write of AuthService is one statement, or a transaction that      *)
(* locks the user row first and waits for nothing after that, so it is one *)
(* step.  What a request reads before it, and the answer on its way to the *)
(* browser, are in job[w].                                                 *)
(* Passwords, sessions and refresh tokens are numbered as they are made.   *)
(* Cooldowns and throttles only thin out requests and are left to chance.  *)
(***************************************************************************)
EXTENDS Naturals

CONSTANTS
    Links,       \* email verification links
    Resets,      \* password reset links
    Workers,     \* requests served at the same time
    Sockets,     \* chat connections open at the same time
    MaxSessions, \* bound: sessions of the account
    MaxRefresh,  \* bound: refresh tokens of one session
    Nil

ASSUME AuthAssumption ==
    /\ MaxSessions \in Nat
    /\ MaxRefresh \in Nat \ {0}
    /\ Nil \notin Nat \cup Links \cup Resets \cup Workers
    /\ Links \cap Resets = {}
    /\ (Links \cup Resets) \cap (Nat \X Nat) = {}

VARIABLES
    account,   \* the User row
    link,      \* verification and reset links; USED is consumed or expired
    session,   \* AuthSession rows
    spent,     \* history: how often a one-time token was redeemed
    browser,   \* refresh cookie and the lock its tabs refresh under
    job,       \* what each request is in the middle of
    socket,    \* chat sockets as the gateway knows them
    blamed     \* history: a session none of whose answers was lost was
               \* revoked because an old token was presented

vars == <<account, link, session, spent, browser, job, socket, blamed>>
users == <<account, link>>

Sessions == 1 .. MaxSessions
Generation == 1 .. MaxRefresh
Token == Links \cup Resets \cup (Sessions \X Generation)

\* ENDED is revoked or past expiresAt.
SessionRow == [status : {"NONE", "LIVE", "ENDED"},
               hash : 0 .. MaxRefresh,           \* the refresh token that is valid
               password : Nat,                   \* the password when it was earned
               lost : BOOLEAN]                   \* history: an answer with its cookie was lost
NoSession == [status |-> "NONE", hash |-> 0, password |-> 0, lost |-> FALSE]
Cookie == [s : Sessions \cup {Nil}, g : 0 .. MaxRefresh]
NoCookie == [s |-> Nil, g |-> 0]

\* mine: the answer goes to the browser.  cookie is the token presented and,
\* in an answer, the one that is set.
Job == [op : {"idle", "login", "verify", "reset", "refresh", "reuse", "rotate",
              "logout", "notify", "answer"},
        mine : BOOLEAN, cookie : Cookie,
        token : Links \cup Resets \cup {Nil}, password : Nat,
        scope : SUBSET Sessions]
Idle == [op |-> "idle", mine |-> FALSE, cookie |-> NoCookie, token |-> Nil,
         password |-> 0, scope |-> {}]

Socket == [state : {"none", "verified", "open"}, s : Sessions \cup {Nil},
           checked : BOOLEAN,   \* a delivery passed its authorization
           told : BOOLEAN,      \* history: the gateway was told that s ended
           late : BOOLEAN]      \* history: something was sent after that
NoSocket == [state |-> "none", s |-> Nil, checked |-> FALSE, told |-> FALSE, late |-> FALSE]

TypeOK ==
    /\ account \in [password : Nat, verified : BOOLEAN, active : BOOLEAN]
    /\ link \in [Links \cup Resets -> {"NONE", "LIVE", "USED"}]
    /\ session \in [Sessions -> SessionRow]
    /\ spent \in [Token -> Nat]
    /\ browser \in [cookie : Cookie, lock : Workers \cup {Nil}]
    /\ job \in [Workers -> Job]
    /\ socket \in [Sockets -> Socket]
    /\ blamed \in BOOLEAN

\* An account that has just registered and was sent a verification link.
Init ==
    /\ account = [password |-> 1, verified |-> FALSE, active |-> TRUE]
    /\ \E l \in Links : link = [k \in Links \cup Resets |-> IF k = l THEN "LIVE" ELSE "NONE"]
    /\ session = [s \in Sessions |-> NoSession]
    /\ spent = [k \in Token |-> 0]
    /\ browser = [cookie |-> NoCookie, lock |-> Nil]
    /\ job = [w \in Workers |-> Idle]
    /\ socket = [c \in Sockets |-> NoSocket]
    /\ blamed = FALSE

Live(s) == session[s].status = "LIVE"
Usable(s) == Live(s) /\ account.active
Fresh(s) == session[s].status = "NONE"

\* What is never read again of a session that ended is dropped.
Ended(s) == IF Live(s)
            THEN [session[s] EXCEPT !.status = "ENDED", !.password = 0, !.lost = FALSE]
            ELSE session[s]

Begin(w, j) == job[w] = Idle /\ job' = [job EXCEPT ![w] = j]
Unlocked(w) == [browser EXCEPT !.lock = IF @ = w THEN Nil ELSE @]

\* The work is done; what is answered only matters to the browser.
Reply(w, cookie) ==
    job' = [job EXCEPT ![w] =
        IF @.mine THEN [Idle EXCEPT !.op = "answer", !.mine = TRUE, !.cookie = cookie] ELSE Idle]

\* An error, or an answer with no cookie to set.
Fail(w) == /\ job' = [job EXCEPT ![w] = Idle]
           /\ browser' = Unlocked(w)

Redeem(k) == spent' = [spent EXCEPT ![k] = @ + 1]

\* createSession: a new row and an answer with its first refresh token.
CreateSession(w, s) ==
    /\ Fresh(s) /\ \A t \in Sessions : t < s => ~Fresh(t)
    /\ session' = [session EXCEPT ![s] =
           [status |-> "LIVE", hash |-> 1, password |-> job[w].password, lost |-> FALSE]]
    /\ Reply(w, [s |-> s, g |-> 1])

\* The links of a kind that are still live are used up, k is mailed instead.
Replace(kind, k) ==
    [i \in Links \cup Resets |->
        IF i = k THEN "LIVE"
        ELSE IF i \in kind /\ link[i] = "LIVE" THEN "USED" ELSE link[i]]

-----------------------------------------------------------------------------
(* Links by mail *)

ResendVerification(l) ==
    /\ account.active /\ ~account.verified
    /\ link[l] = "NONE"
    /\ link' = Replace(Links, l)
    /\ UNCHANGED <<account, session, spent, browser, job, socket, blamed>>

IssuePasswordReset(r) ==
    /\ account.active /\ account.verified
    /\ link[r] = "NONE"
    /\ link' = Replace(Resets, r)
    /\ UNCHANGED <<account, session, spent, browser, job, socket, blamed>>

\* verifyEmail: the link is read without a lock.
VerifyRead(w, l, mine) ==
    /\ link[l] = "LIVE" /\ account.active
    /\ Begin(w, [Idle EXCEPT !.op = "verify", !.mine = mine, !.token = l,
                             !.password = account.password])
    /\ UNCHANGED <<users, session, spent, browser, socket, blamed>>

\* The transaction: consume the link on condition, verify, sign in.
VerifyCommit(w, s) ==
    /\ job[w].op = "verify"
    /\ IF account.active /\ link[job[w].token] = "LIVE"
       THEN /\ account' = [account EXCEPT !.verified = TRUE]
            /\ link' = [link EXCEPT ![job[w].token] = "USED"]
            /\ Redeem(job[w].token)
            /\ CreateSession(w, s)
            /\ UNCHANGED browser
       ELSE Fail(w) /\ UNCHANGED <<users, session, spent>>
    /\ UNCHANGED <<socket, blamed>>

\* resetPassword: the link is read, then the new password is hashed.
ResetRead(w, r) ==
    /\ link[r] = "LIVE"
    /\ Begin(w, [Idle EXCEPT !.op = "reset", !.token = r])
    /\ UNCHANGED <<users, session, spent, browser, socket, blamed>>

\* The transaction: consume the link on condition, change the password, use
\* up every link and revoke every session.
ResetCommit(w) ==
    /\ job[w].op = "reset"
    /\ IF account.active /\ account.verified /\ link[job[w].token] = "LIVE"
       THEN /\ account' = [account EXCEPT !.password = @ + 1]
            /\ link' = [k \in Links \cup Resets |->
                           IF link[k] = "LIVE" THEN "USED" ELSE link[k]]
            /\ Redeem(job[w].token)
            /\ session' = [s \in Sessions |-> Ended(s)]
            /\ job' = [job EXCEPT ![w].op = "notify",
                                  ![w].scope = {s \in Sessions : ~Fresh(s)}]
            /\ UNCHANGED browser
       ELSE Fail(w) /\ UNCHANGED <<users, session, spent>>
    /\ UNCHANGED <<socket, blamed>>

-----------------------------------------------------------------------------
(* Passwords and refresh tokens *)

\* login: the hash that was read matches the password.
LoginRead(w, mine) ==
    /\ account.active /\ account.verified
    /\ Begin(w, [Idle EXCEPT !.op = "login", !.mine = mine, !.password = account.password])
    /\ UNCHANGED <<users, session, spent, browser, socket, blamed>>

\* Mutation of LoginCommit: the account is not read again.
LoginCommitTrusting(w, s) ==
    /\ job[w].op = "login"
    /\ CreateSession(w, s)
    /\ UNCHANGED <<users, spent, browser, socket, blamed>>

\* The transaction reads the account again, with the hash that was verified.
LoginCommit(w, s) ==
    /\ job[w].op = "login"
    /\ IF account.active /\ account.verified /\ account.password = job[w].password
       THEN CreateSession(w, s) /\ UNCHANGED browser
       ELSE Fail(w) /\ UNCHANGED session
    /\ UNCHANGED <<users, spent, socket, blamed>>

\* Mutation of RefreshSend: tabs do not take turns.
RefreshSendAnyTab(w) ==
    /\ browser.cookie # NoCookie
    /\ browser.cookie.g < MaxRefresh
    /\ Begin(w, [Idle EXCEPT !.op = "refresh", !.mine = TRUE, !.cookie = browser.cookie])
    /\ UNCHANGED <<users, session, spent, browser, socket, blamed>>

\* A tab refreshes under the lock all tabs share; the request carries the
\* cookie of the moment it is sent.
RefreshSend(w) ==
    /\ browser.cookie # NoCookie
    /\ browser.cookie.g < MaxRefresh
    /\ browser.lock = Nil
    /\ Begin(w, [Idle EXCEPT !.op = "refresh", !.mine = TRUE, !.cookie = browser.cookie])
    /\ browser' = [browser EXCEPT !.lock = w]
    /\ UNCHANGED <<users, session, spent, socket, blamed>>

\* refresh reads the session and compares the hash.
RefreshRead(w) ==
    LET s == job[w].cookie.s IN
    /\ job[w].op = "refresh"
    /\ IF Usable(s)
       THEN /\ job' = [job EXCEPT ![w].op =
                          IF session[s].hash = job[w].cookie.g THEN "rotate" ELSE "reuse"]
            /\ UNCHANGED browser
       ELSE Fail(w)
    /\ UNCHANGED <<users, session, spent, socket, blamed>>

\* An old token: the session is revoked.
RefreshReuse(w) ==
    LET s == job[w].cookie.s IN
    /\ job[w].op = "reuse"
    /\ session' = [session EXCEPT ![s] = Ended(s)]
    /\ blamed' = (blamed \/ (Live(s) /\ ~session[s].lost))
    /\ job' = [job EXCEPT ![w].op = "notify", ![w].scope = {s}]
    /\ UNCHANGED <<users, spent, browser, socket>>

\* Mutation of RefreshRotate: updated by id alone.
RefreshRotateById(w) ==
    LET s == job[w].cookie.s
        g == job[w].cookie.g IN
    /\ job[w].op = "rotate"
    /\ session' = [session EXCEPT ![s].hash = g + 1]
    /\ Redeem(<<s, g>>)
    /\ Reply(w, [s |-> s, g |-> g + 1])
    /\ UNCHANGED <<users, browser, socket, blamed>>

\* rotateSession: one conditional update.
RefreshRotate(w) ==
    LET s == job[w].cookie.s
        g == job[w].cookie.g IN
    /\ job[w].op = "rotate"
    /\ IF Live(s) /\ session[s].hash = g
       THEN /\ session' = [session EXCEPT ![s].hash = g + 1]
            /\ Redeem(<<s, g>>)
            /\ Reply(w, [s |-> s, g |-> g + 1])
            /\ UNCHANGED browser
       ELSE Fail(w) /\ UNCHANGED <<session, spent>>
    /\ UNCHANGED <<users, socket, blamed>>

LogoutSend(w) ==
    /\ browser.cookie # NoCookie
    /\ Begin(w, [Idle EXCEPT !.op = "logout", !.mine = TRUE, !.cookie = browser.cookie])
    /\ UNCHANGED <<users, session, spent, browser, socket, blamed>>

\* Mutation of LogoutCommit: the cookie is emptied, not removed.
LogoutCommitEmpty(w) ==
    LET s == job[w].cookie.s IN
    /\ job[w].op = "logout"
    /\ session' = [session EXCEPT ![s] = Ended(s)]
    /\ job' = [job EXCEPT ![w].op = "notify", ![w].cookie = Nil, ![w].scope = {s}]
    /\ UNCHANGED <<users, spent, browser, socket, blamed>>

\* logout revokes the session of the cookie, whichever token it holds; the
\* answer clears the cookie.
LogoutCommit(w) ==
    LET s == job[w].cookie.s IN
    /\ job[w].op = "logout"
    /\ session' = [session EXCEPT ![s] = Ended(s)]
    /\ job' = [job EXCEPT ![w].op = "notify", ![w].cookie = NoCookie, ![w].scope = {s}]
    /\ UNCHANGED <<users, spent, browser, socket, blamed>>

-----------------------------------------------------------------------------
(* Answers, failures, the clock *)

\* The answer reaches the browser: its Set-Cookie is stored, and a tab that
\* was refreshing lets the next one go on.
Answer(w) ==
    /\ job[w].op = "answer"
    /\ browser' = [Unlocked(w) EXCEPT !.cookie = job[w].cookie]
    /\ job' = [job EXCEPT ![w] = Idle]
    /\ UNCHANGED <<users, session, spent, socket, blamed>>

\* The tab is closed or its connection breaks; the request goes on.
Abandon(w) ==
    /\ job[w].mine
    /\ job' = [job EXCEPT ![w].mine = FALSE]
    /\ browser' = Unlocked(w)
    /\ session' = [s \in Sessions |->
           IF s = job[w].cookie.s /\ Live(s) THEN [session[s] EXCEPT !.lost = TRUE]
           ELSE session[s]]
    /\ UNCHANGED <<users, spent, socket, blamed>>

\* The request dies: a lost connection to the database or a stopped process.
Abort(w) ==
    /\ job[w] # Idle /\ ~job[w].mine
    /\ job' = [job EXCEPT ![w] = Idle]
    /\ UNCHANGED <<users, session, spent, browser, socket, blamed>>

\* expiresAt of a link or of a session passes.
ExpireLink(k) ==
    /\ link[k] = "LIVE"
    /\ link' = [link EXCEPT ![k] = "USED"]
    /\ UNCHANGED <<account, session, spent, browser, job, socket, blamed>>

Expire(s) ==
    /\ Live(s)
    /\ session' = [session EXCEPT ![s] = Ended(s)]
    /\ UNCHANGED <<users, spent, browser, job, socket, blamed>>

\* An operator suspends the account; no code does.
Suspend ==
    /\ account.active
    /\ account' = [account EXCEPT !.active = FALSE]
    /\ UNCHANGED <<link, session, spent, browser, job, socket, blamed>>

-----------------------------------------------------------------------------
(* Chat sockets *)

\* A connection that is closed makes room for another one.
Closed(c) == [NoSocket EXCEPT !.late = socket[c].late]

\* The handshake reads the session that signed the access token.
HandshakeRead(c, s) ==
    /\ socket[c].state = "none"
    /\ Usable(s)
    /\ socket' = [socket EXCEPT ![c].state = "verified", ![c].s = s]
    /\ UNCHANGED <<users, session, spent, browser, job, blamed>>

\* Only then the connection is entered where a revocation finds it.
Register(c) ==
    /\ socket[c].state = "verified"
    /\ socket' = [socket EXCEPT ![c].state = "open"]
    /\ UNCHANGED <<users, session, spent, browser, job, blamed>>

\* SessionRevocations.revoke in the process that holds the sockets, after the
\* commit: the registered ones of these sessions are disconnected.
Notify(w) ==
    /\ job[w].op = "notify"
    /\ socket' = [c \in Sockets |->
           IF socket[c].s \notin job[w].scope THEN socket[c]
           ELSE IF socket[c].state = "open" THEN Closed(c)
           ELSE [socket[c] EXCEPT !.told = TRUE]]
    /\ IF job[w].cookie = NoCookie THEN Reply(w, NoCookie) /\ UNCHANGED browser ELSE Fail(w)
    /\ UNCHANGED <<users, session, spent, blamed>>

\* The request was served by another process; its listeners hold no sockets here.
NotifyElsewhere(w) ==
    /\ job[w].op = "notify"
    /\ IF job[w].cookie = NoCookie THEN Reply(w, NoCookie) /\ UNCHANGED browser ELSE Fail(w)
    /\ UNCHANGED <<users, session, spent, socket, blamed>>

\* Mutation of Authorize: being connected is enough.
AuthorizeConnected(c) ==
    /\ socket[c].state = "open" /\ ~socket[c].checked
    /\ socket' = [socket EXCEPT ![c].checked = TRUE]
    /\ UNCHANGED <<users, session, spent, browser, job, blamed>>

\* A chat event for this socket: the session is read again before it is sent.
Authorize(c) ==
    /\ socket[c].state = "open" /\ ~socket[c].checked
    /\ socket' = [socket EXCEPT ![c] =
           IF Usable(socket[c].s) THEN [@ EXCEPT !.checked = TRUE] ELSE Closed(c)]
    /\ UNCHANGED <<users, session, spent, browser, job, blamed>>

Emit(c) ==
    /\ socket[c].checked
    /\ socket' = [socket EXCEPT ![c].checked = FALSE, ![c].late = @ \/ socket[c].told]
    /\ UNCHANGED <<users, session, spent, browser, job, blamed>>

\* Every five seconds each connection is authorized again.
Recheck(c) ==
    /\ socket[c].state = "open" /\ ~Usable(socket[c].s)
    /\ socket' = [socket EXCEPT ![c] = Closed(c)]
    /\ UNCHANGED <<users, session, spent, browser, job, blamed>>

Hangup(c) ==
    /\ socket[c].state # "none"
    /\ socket' = [socket EXCEPT ![c] = Closed(c)]
    /\ UNCHANGED <<users, session, spent, browser, job, blamed>>

-----------------------------------------------------------------------------
Mails ==
    \/ \E l \in Links : ResendVerification(l)
    \/ \E r \in Resets : IssuePasswordReset(r)
    \/ \E k \in Links \cup Resets : ExpireLink(k)

SignsIn(w) ==
    \/ \E mine \in BOOLEAN : LoginRead(w, mine)
    \/ \E l \in Links, mine \in BOOLEAN : VerifyRead(w, l, mine)
    \/ \E s \in Sessions : VerifyCommit(w, s) \/ LoginCommit(w, s)

Resetting(w) == (\E r \in Resets : ResetRead(w, r)) \/ ResetCommit(w)

Refreshes(w) ==
    \/ RefreshSend(w) \/ RefreshRead(w) \/ RefreshReuse(w) \/ RefreshRotate(w)

Ends(w) ==
    \/ LogoutSend(w) \/ LogoutCommit(w) \/ Notify(w) \/ NotifyElsewhere(w)
    \/ Answer(w) \/ Abandon(w) \/ Abort(w)

Chats(c) ==
    \/ \E s \in Sessions : HandshakeRead(c, s)
    \/ Register(c) \/ Authorize(c) \/ Emit(c) \/ Recheck(c) \/ Hangup(c)

Next ==
    \/ Mails
    \/ \E w \in Workers : SignsIn(w) \/ Resetting(w) \/ Refreshes(w) \/ Ends(w)
    \/ \E s \in Sessions : Expire(s)
    \/ Suspend
    \/ \E c \in Sockets : Chats(c)

Spec == Init /\ [][Next]_vars

-----------------------------------------------------------------------------
\* A mailed link and a refresh token each buy one session or one successor,
\* whoever presents it and however many requests do so at once
\* (auth.service.ts, the conditional updateMany of verifyEmail, resetPassword
\* and rotateSession).
OneTimeTokens == \A k \in Token : spent[k] <= 1

\* A session that is alive was earned with the password the account has now:
\* no sign-in or refresh that was under way when the password was reset leaves
\* a session behind (apps/api/README.md:40).
NothingOutlivesReset ==
    \A s \in Sessions : Live(s) => session[s].password = account.password

\* As long as no answer to it was lost, the browser's own tabs never make the
\* server take a refresh for a stolen token (client.ts, the lock around
\* refreshAccessToken and the cookie read when the request is sent).
ReuseMeansLostReply == ~blamed

\* After the gateway was told that a session ended, none of its sockets gets
\* another chat event, even one that was still authenticating at that moment
\* (conversations.gateway.ts, forAuthorizedRecipient).
NoDeliveryAfterNotice == \A c \in Sockets : ~socket[c].late
=============================================================================

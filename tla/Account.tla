------------------------------ MODULE Account ------------------------------
(***************************************************************************)
(* Entering and leaving an account (auth.js): sign-in, registration, email *)
(* verification, password reset and the account page, in one tab that      *)
(* shares the stored session with other tabs. The page's calls are served  *)
(* and answered in any order; a session may be revoked or replaced between *)
(* a call, its effect on the server and its answer.                        *)
(***************************************************************************)
EXTENDS Integers, Sequences, FiniteSets

CONSTANTS
  Users, None,
  MaxSessions,  \* sessions the server issues
  MaxCalls,     \* calls of one tab in flight
  MaxPolls      \* attempts to see a payment confirmed: 6 in the code

VARIABLES
  stored,     \* TOKEN_KEY of local storage: a session or None
  owner,      \* server: user of each issued session
  valid,      \* server: sessions that are not revoked
  guest,      \* the tab holds a guest token
  saved,      \* SIGNUP_CONTINUATION_KEY: [user, recent] or None
  page,       \* [kind, held, email]: the open page, its session, ?email= with ?next=
  calls,      \* [kind, tok, user, answer] in flight
  notified,   \* a storage event is on its way to the account page
  shown,      \* owners of what the account page displays: account, referrals
  polls,      \* attempts left after a return from the payment page
  next,       \* [user, of]: destination offered to a verified user
  ousted      \* history: an answer replaced or removed another session

vars == <<stored, owner, valid, guest, saved, page, calls, notified, shown, polls, next, ousted>>

Entry == {"login", "register", "verify", "reset"}
Forms == {"profile", "password", "referral", "close", "logout"}
Nothing == [account |-> None, referrals |-> None]

Init ==
  /\ stored = None /\ owner = <<>> /\ valid = {}
  /\ guest \in BOOLEAN /\ saved = None
  /\ page = [kind |-> "login", held |-> None, email |-> None]
  /\ calls = {} /\ notified = FALSE /\ shown = Nothing /\ polls = 0 /\ next = None /\ ousted = FALSE

-----------------------------------------------------------------------------
(* Pages *)

Call(kind, tok, user) == [kind |-> kind, tok |-> tok, user |-> user, answer |-> None]

\* Another page of the tab: calls in flight have ended or are lost. The
\* account page asks for a session first, the login page leaves when it has one.
Opened(kind, email, paid) ==
  /\ page' = [kind |-> IF kind = "account" /\ stored = None THEN "login"
                       ELSE IF kind = "login" /\ stored # None THEN "account" ELSE kind,
              held |-> stored, email |-> email]
  /\ calls' = IF page'.kind = "account" THEN {Call("me", stored, None)} ELSE {}
  /\ notified' = FALSE /\ shown' = Nothing /\ next' = None
  /\ polls' = IF paid /\ page'.kind = "account" THEN MaxPolls ELSE 0

Open(kind, email, paid) ==
  /\ calls = {}
  /\ Opened(kind, email, paid)
  /\ UNCHANGED <<stored, owner, valid, guest, saved, ousted>>

\* The continuation's 24 hours pass.
ContinuationAges ==
  /\ saved # None /\ saved.recent
  /\ saved' = [saved EXCEPT !.recent = FALSE]
  /\ UNCHANGED <<stored, owner, valid, guest, page, calls, notified, shown, polls, next, ousted>>

\* Another tab signs in or out.
OtherTab(user) ==
  /\ IF user = None
     THEN stored # None /\ stored' = None /\ UNCHANGED <<owner, valid>>
     ELSE /\ Len(owner) < MaxSessions
          /\ owner' = Append(owner, user) /\ stored' = Len(owner')
          /\ valid' = valid \cup {Len(owner')}
  /\ notified' = (page.kind = "account")
  /\ UNCHANGED <<guest, saved, page, calls, shown, polls, next, ousted>>

\* The storage listener of the account page reloads it for another session.
StorageEvent ==
  /\ notified
  /\ IF stored # page.held THEN Opened("account", None, FALSE)
     ELSE notified' = FALSE /\ UNCHANGED <<page, calls, shown, polls, next>>
  /\ UNCHANGED <<stored, owner, valid, guest, saved, ousted>>

-----------------------------------------------------------------------------
(* Calls *)

Idle(kind) == \A c \in calls : c.kind # kind

\* A form of an entry page: its button is disabled while its call runs.
SubmitEntry(user) ==
  /\ page.kind \in Entry /\ Idle(page.kind) /\ next = None
  /\ calls' = calls \cup {Call(page.kind, None, user)}
  /\ UNCHANGED <<stored, owner, valid, guest, saved, page, notified, shown, polls, next, ousted>>

\* A form of the account page, or its next payment poll. A page whose session
\* was replaced sends nothing; signing out then only clears the storage.
SubmitForm(kind) ==
  /\ page.kind = "account" /\ shown.account # None /\ Idle(kind) /\ Cardinality(calls) < MaxCalls
  /\ IF stored = page.held
     THEN /\ calls' = calls \cup {Call(kind, page.held, None)}
          /\ UNCHANGED <<stored, page, notified, shown, polls, next>>
     ELSE /\ kind = "logout"
          /\ stored' = None
          /\ page' = [kind |-> "login", held |-> None, email |-> None]
          /\ calls' = {} /\ notified' = FALSE /\ shown' = Nothing /\ polls' = 0 /\ next' = None
  /\ UNCHANGED <<owner, valid, guest, saved, ousted>>

Retry ==
  /\ page.kind = "account" /\ shown.account = None /\ Idle("me") /\ stored = page.held
  /\ calls' = calls \cup {Call("me", page.held, None)}
  /\ UNCHANGED <<stored, owner, valid, guest, saved, page, notified, shown, polls, next, ousted>>

\* One attempt of reconcilePaymentRedirect; a replaced session costs it too.
Poll ==
  /\ page.kind = "account" /\ shown.account # None /\ polls > 0 /\ Idle("poll") /\ Cardinality(calls) < MaxCalls
  /\ polls' = polls - 1
  /\ calls' = IF stored = page.held THEN calls \cup {Call("poll", page.held, None)} ELSE calls
  /\ UNCHANGED <<stored, owner, valid, guest, saved, page, notified, shown, next, ousted>>

-----------------------------------------------------------------------------
(* The server *)

Issued(user) == /\ Len(owner) < MaxSessions /\ owner' = Append(owner, user)

Answered(c, a) == calls' = (calls \ {c}) \cup {[c EXCEPT !.answer = a]}

\* A password change revokes the user's other sessions. What becomes of the
\* guest's result, a best effort of the server, no page depends on.
Serve(c) ==
  /\ c \in calls /\ c.answer = None
  /\ CASE c.kind \in {"login", "verify"} ->
            /\ Issued(c.user) /\ valid' = valid \cup {Len(owner')}
            /\ Answered(c, Len(owner'))
       [] c.kind = "register" ->
            /\ Answered(c, c.user) /\ UNCHANGED <<owner, valid>>
       [] c.kind = "reset" ->
            /\ valid' = {s \in valid : owner[s] # c.user}
            /\ Answered(c, c.user) /\ UNCHANGED owner
       [] c.tok # None /\ c.tok \notin valid ->
            /\ Answered(c, 401) /\ UNCHANGED <<owner, valid>>
       [] c.kind = "password" /\ c.tok \in valid ->
            /\ Issued(owner[c.tok])
            /\ valid' = {s \in valid : owner[s] # owner[c.tok]} \cup {Len(owner')}
            /\ Answered(c, Len(owner'))
       [] c.kind \in {"logout", "close"} /\ c.tok \in valid ->
            /\ valid' = IF c.kind = "logout" THEN valid \ {c.tok} ELSE {s \in valid : owner[s] # owner[c.tok]}
            /\ Answered(c, owner[c.tok]) /\ UNCHANGED owner
       [] OTHER -> Answered(c, owner[c.tok]) /\ UNCHANGED <<owner, valid>>
  /\ UNCHANGED <<stored, guest, saved, page, notified, shown, polls, next, ousted>>

\* An answer is lost, or the call was refused: a notice on the page, nothing
\* else, except that signing out goes on.
CallFails(c) ==
  /\ c \in calls /\ c.kind # "logout"
  /\ calls' = calls \ {c}
  /\ UNCHANGED <<stored, owner, valid, guest, saved, page, notified, shown, polls, next, ousted>>

-----------------------------------------------------------------------------
(* Answers *)

\* Mutant: answers count for whatever session is stored.
AnySession(c) == TRUE

\* request(): an answer to a session that is no longer the stored one is an error.
SameSession(c) == c.tok # None => stored = c.tok

Stores(session) == stored' = session /\ ousted' = (ousted \/ (page.held # None /\ stored # page.held))

\* The tab's account is entered: the new session is stored, and the guest token
\* dropped whether or not the server could move the guest's result.
Entered(c) == stored' = c.answer /\ guest' = FALSE

LoginReply(c) ==
  /\ c \in calls /\ c.kind = "login" /\ c.answer # None
  /\ Entered(c)
  /\ page' = [kind |-> "account", held |-> c.answer, email |-> None]
  /\ calls' = {Call("me", c.answer, None)}
  /\ shown' = Nothing /\ notified' = FALSE /\ polls' = 0 /\ next' = None
  /\ UNCHANGED <<owner, valid, saved, ousted>>

\* The registration's destination is kept for the account it created.
RegisterReply(c) ==
  /\ c \in calls /\ c.kind = "register" /\ c.answer # None
  /\ saved' = [user |-> c.user, recent |-> TRUE]
  /\ calls' = calls \ {c}
  /\ UNCHANGED <<stored, owner, valid, guest, page, notified, shown, polls, next, ousted>>

\* verificationNext: the address's destination for the address's email, the
\* kept one for the account it was kept for, else the workspace.
VerificationNext(user) ==
  IF page.email = user THEN [user |-> user, of |-> page.email]
  ELSE IF saved # None /\ saved.user = user /\ saved.recent THEN [user |-> user, of |-> saved.user]
  ELSE [user |-> user, of |-> None]

VerifyReply(c) ==
  /\ c \in calls /\ c.kind = "verify" /\ c.answer # None
  /\ Entered(c)
  /\ saved' = None /\ next' = VerificationNext(c.user)
  /\ calls' = calls \ {c}
  /\ UNCHANGED <<owner, valid, page, notified, shown, polls, ousted>>

\* A new password ends the tab's session, whoever's it is.
ResetReply(c) ==
  /\ c \in calls /\ c.kind = "reset" /\ c.answer # None
  /\ stored' = None
  /\ calls' = calls \ {c}
  /\ UNCHANGED <<owner, valid, guest, saved, page, notified, shown, polls, next, ousted>>

Mine(c) == c \in calls /\ c.answer # None /\ SameSession(c)

\* renderAccount shows the account and asks for the referral summary once.
AccountReply(c) ==
  /\ Mine(c) /\ c.kind \in {"me", "poll", "profile"} /\ c.answer # 401
  /\ shown' = [shown EXCEPT !.account = c.answer]
  /\ calls' = IF shown.account = None THEN (calls \ {c}) \cup {Call("referral", page.held, None)} ELSE calls \ {c}
  /\ UNCHANGED <<stored, owner, valid, guest, saved, page, notified, polls, next, ousted>>

PollReply(c) ==
  /\ Mine(c) /\ c.kind = "poll" /\ c.answer # 401
  /\ shown' = [shown EXCEPT !.account = c.answer]
  /\ calls' = calls \ {c} /\ polls' = 0
  /\ UNCHANGED <<stored, owner, valid, guest, saved, page, notified, next, ousted>>

\* The first load finds the session revoked: it is forgotten, if still stored.
RefusedLoad(c) ==
  /\ Mine(c) /\ c.kind = "me" /\ c.answer = 401
  /\ Stores(None)
  /\ page' = [kind |-> "login", held |-> None, email |-> None]
  /\ calls' = {} /\ notified' = FALSE /\ shown' = Nothing /\ polls' = 0 /\ next' = None
  /\ UNCHANGED <<owner, valid, guest, saved>>

ReferralReply(c) ==
  /\ Mine(c) /\ c.kind = "referral" /\ c.answer # 401
  /\ shown' = [shown EXCEPT !.referrals = c.answer]
  /\ calls' = calls \ {c}
  /\ UNCHANGED <<stored, owner, valid, guest, saved, page, notified, polls, next, ousted>>

\* The page goes on with the session of the new password.
PasswordReply(c) ==
  /\ Mine(c) /\ c.kind = "password" /\ c.answer # 401
  /\ Stores(c.answer) /\ page' = [page EXCEPT !.held = c.answer]
  /\ shown' = [shown EXCEPT !.account = owner[c.answer]]
  /\ calls' = calls \ {c}
  /\ UNCHANGED <<owner, valid, guest, saved, notified, polls, next>>

CloseReply(c) ==
  /\ Mine(c) /\ c.kind = "close" /\ c.answer # 401
  /\ Stores(None)
  /\ page' = [kind |-> "login", held |-> None, email |-> None]
  /\ calls' = {} /\ notified' = FALSE /\ shown' = Nothing /\ polls' = 0 /\ next' = None
  /\ UNCHANGED <<owner, valid, guest, saved>>

\* Signing out: whatever the answer, and whichever session is stored by now.
LogoutReply(c) ==
  /\ c \in calls /\ c.kind = "logout"
  /\ stored' = None
  /\ page' = [kind |-> "login", held |-> None, email |-> None]
  /\ calls' = {} /\ notified' = FALSE /\ shown' = Nothing /\ polls' = 0 /\ next' = None
  /\ UNCHANGED <<owner, valid, guest, saved, ousted>>

Next ==
  \/ \E k \in Entry \cup {"account"}, e \in Users \cup {None}, paid \in BOOLEAN :
       /\ e # None => k = "verify"
       /\ paid => k = "account"
       /\ Open(k, e, paid)
  \/ ContinuationAges \/ StorageEvent \/ Retry \/ Poll
  \/ \E u \in Users \cup {None} : OtherTab(u)
  \/ \E u \in Users : SubmitEntry(u)
  \/ \E k \in Forms : SubmitForm(k)
  \/ \E c \in calls :
       \/ Serve(c) \/ CallFails(c)
       \/ LoginReply(c) \/ RegisterReply(c) \/ VerifyReply(c) \/ ResetReply(c)
       \/ AccountReply(c) \/ PollReply(c) \/ RefusedLoad(c) \/ ReferralReply(c)
       \/ PasswordReply(c) \/ CloseReply(c) \/ LogoutReply(c)

Spec == Init /\ [][Next]_vars

-----------------------------------------------------------------------------
\* Sessions stay apart. What the account page shows belongs to its own
\* session; sign-out apart, no answer to the account page replaces or removes
\* a session that another tab stored meanwhile; a destination kept at
\* registration is offered to the account that asked for it and to no other.
SessionsApart ==
  /\ page.kind = "account" => \A k \in DOMAIN shown : shown[k] \in {None, owner[page.held]}
  /\ ~ousted
  /\ next # None => next.of \in {None, next.user}
=============================================================================

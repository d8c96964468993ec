----------------------------- MODULE AdminPanel -----------------------------
(***************************************************************************)
(* The administrator's console (admin.js): signing in with a key or with a *)
(* mailed code, one load of everything at a time that later callers join,  *)
(* sections that answer or fail on their own, the advertising reads that   *)
(* may also be refreshed alone, the alerts drawn from what has arrived,    *)
(* and the end of a session in the middle of any of it. The overview's own *)
(* count of unpaid orders is left out of the alerts.                       *)
(***************************************************************************)
EXTENDS Integers, FiniteSets

CONSTANTS
  Lists,        \* sections that are lists: contacts, refunds, jobs ...
  Lone,         \* those of them that are read alone too: users, orders, costs, jobs
  Queue,        \* the section of referral rewards, emptied when it fails
  Health,       \* sections that are objects, unknown when they fail
  Growth,       \* advertising sections, read together
  Tokens, None,
  MaxSessions,  \* bound: sessions that end
  MaxLoads      \* bound: loads of one session

Sections == Lists \cup {Queue} \cup Health \cup Growth

VARIABLES
  session,   \* adminSessionVersion
  token,     \* adminAccessToken
  stored,    \* the token in sessionStorage
  account,   \* adminAccountEmail is set
  challenge, \* adminLoginChallenge: None, "sent" while the code form waits
  panel,     \* adminPanel is shown, adminLogin hidden
  load,      \* adminLoadPromise: None, "overview" or "sections"
  joined,    \* a caller of loadAdmin awaits the load to start another
  logging,   \* the key form awaits its load, to store the token: None, "joined" or "own"
  growth,    \* adminGrowthPromise of this session: None, "load" or "alone"
  growthOff, \* the button of the advertising refresh is disabled
  calls,     \* requests on their way: [to, tok, s]; aborted when the session ends
  data,      \* adminState: what a section said last, in which session
  loaded,    \* adminLoadedSections
  errors,    \* adminLoadErrors
  alert,     \* what adminAlerts shows: "blank", "clear" or "warn"
  unseen,    \* history: lists that were read alone since the alerts were drawn
  loads      \* loads begun in this session

vars == <<session, token, stored, account, challenge, panel, load, joined, logging, growth, growthOff,
          calls, data, loaded, errors, alert, unseen, loads>>
login == <<token, stored, account, challenge, logging>>

Empty == [said |-> "nothing", of |-> None]

FreshPage ==
  /\ session = 0 /\ challenge = None /\ panel = FALSE /\ joined = FALSE /\ logging = None
  /\ growth = None /\ growthOff = FALSE /\ alert = "blank" /\ unseen = {}
  /\ data = [s \in Sections |-> Empty] /\ loaded = {} /\ errors = {}

\* The page opens, perhaps with the token of an earlier visit, and loads at once.
Init ==
  /\ FreshPage
  /\ stored \in {None} \cup Tokens /\ token = stored
  /\ account \in (IF stored = None THEN {FALSE} ELSE BOOLEAN)
  /\ load = (IF token = None THEN None ELSE "overview")
  /\ calls = (IF token = None THEN {} ELSE {[to |-> "overview", tok |-> token, s |-> session]})
  /\ loads = (IF token = None THEN 0 ELSE 1)

-----------------------------------------------------------------------------
(* Loading *)

Overview(tok) == [to |-> "overview", tok |-> tok, s |-> session]

\* loadAdmin with the token tok: joins a load that is under way.
LoadAdmin(tok) ==
  IF load # None
  THEN joined' = TRUE /\ UNCHANGED <<load, calls, loads>>
  ELSE /\ loads < MaxLoads
       /\ load' = "overview" /\ calls' = calls \cup {Overview(tok)} /\ loads' = loads + 1
       /\ UNCHANGED joined

\* The load ends: callers that joined start another one.
LoadEnds(left) ==
  IF joined /\ loads < MaxLoads
  THEN /\ load' = "overview" /\ calls' = left \cup {Overview(token)} /\ loads' = loads + 1 /\ joined' = FALSE
  ELSE load' = None /\ calls' = left /\ joined' = FALSE /\ UNCHANGED loads

\* The refresh button, the timer of the automatic refresh, and every operation
\* that reloads when it is done.
Refresh ==
  /\ token # None /\ panel
  /\ LoadAdmin(token)
  /\ <<load, joined>>' # <<load, joined>>
  /\ UNCHANGED <<session, growth, growthOff, panel, data, loaded, errors, alert, unseen>> /\ UNCHANGED login

\* The overview is enough to open the panel; all sections are asked at once.
OverviewReply ==
  \E c \in calls :
    /\ c.to = "overview"
    /\ panel' = TRUE /\ load' = "sections"
    /\ growth' = "load" /\ growthOff' = TRUE
    /\ calls' = (calls \ {c})
         \cup {[to |-> s, tok |-> token, s |-> session] : s \in (IF growth = None THEN Sections ELSE Sections \ Growth)}
    /\ errors' = errors \ {"overview"} /\ loaded' = loaded \cup {"overview"}
    /\ UNCHANGED <<session, joined, data, alert, unseen, loads>> /\ UNCHANGED login

\* The load fails with its overview, for every caller that awaits it.
OverviewFails ==
  \E c \in calls :
    /\ c.to = "overview"
    /\ errors' = errors \cup {"overview"}
    /\ load' = None /\ joined' = FALSE /\ logging' = None /\ calls' = calls \ {c}
    /\ UNCHANGED <<session, token, stored, account, challenge, panel, growth, growthOff, data, loaded, alert, unseen, loads>>

\* Something waits for the administrator in a list, or a health check is bad.
Waits(d) == \E s \in Sections \ Growth : d[s].said = "open"

\* renderAdminAlerts, drawn again after every section.
Alert(d, errs) ==
  IF Waits(d) \/ errs # {} \/ \E s \in Health : d[s].said = "nothing" THEN "warn" ELSE "clear"

\* What follows once a section c has been dealt with: the advertising button
\* comes back with the last of its reads, the load ends with the last section.
SectionDone(c, d, errs) ==
  LET left == calls \ {c}
      growing == \E o \in left : o.to \in Growth
      more == \E o \in left : o.to \in (IF growth = "alone" THEN Sections \ Growth ELSE Sections)
  IN /\ alert' = Alert(d, errs) /\ unseen' = {}
     /\ growth' = IF growing THEN growth ELSE None
     /\ growthOff' = (growthOff /\ growing)
     /\ IF load = "sections" /\ ~more
        THEN /\ LoadEnds(left)
             /\ stored' = IF logging = "own" THEN token ELSE stored
             /\ logging' = IF logging = "joined" /\ load' # None THEN "own" ELSE None
        ELSE calls' = left /\ UNCHANGED <<load, joined, loads, stored, logging>>
     /\ UNCHANGED <<session, token, account, challenge, panel>>

\* loadAdminSection: an answer. A queue whose own rules are broken is an error.
SectionReply(said) ==
  \E c \in calls :
    /\ c.to \in Sections
    /\ data' = [data EXCEPT ![c.to] = [said |-> said, of |-> c.s]]
    /\ loaded' = loaded \cup {c.to} /\ errors' = errors \ {c.to}
    /\ SectionDone(c, data', errors')

\* A failure keeps a list's rows but forgets a queue and a health report.
Forgets(s) == s \notin Lists

SectionFails ==
  \E c \in calls :
    /\ c.to \in Sections
    /\ data' = [data EXCEPT ![c.to] = IF Forgets(c.to) THEN Empty ELSE @]
    /\ errors' = errors \cup {c.to}
    /\ UNCHANGED loaded
    /\ SectionDone(c, data', errors')

\* A list is read alone, with its request: users and orders by their filters and
\* pages, the costs by their period, the lessons by their owner. Its answer, or
\* its error, counts, but the alerts are not drawn again.
ReadAlone(s) ==
  /\ panel
  /\ \/ /\ \E said \in {"quiet", "open"} : data' = [data EXCEPT ![s] = [said |-> said, of |-> session]]
        /\ loaded' = loaded \cup {s} /\ errors' = errors \ {s}
     \/ errors' = errors \cup {s} /\ UNCHANGED <<data, loaded>>
  /\ unseen' = unseen \cup {s}
  /\ UNCHANGED <<session, panel, load, joined, growth, growthOff, calls, alert, loads>> /\ UNCHANGED login

\* loadAdminGrowth by its own button: it joins a read that is under way.
RefreshGrowth ==
  /\ panel /\ ~growthOff /\ token # None /\ growth = None
  /\ growth' = "alone" /\ growthOff' = TRUE
  /\ calls' = calls \cup {[to |-> s, tok |-> token, s |-> session] : s \in Growth}
  /\ UNCHANGED <<session, panel, load, joined, data, loaded, errors, alert, unseen, loads>> /\ UNCHANGED login

-----------------------------------------------------------------------------
(* The session *)

\* Mutant: requests of an ended session are not aborted.
SurvivingAll == calls

\* Which requests survive the end of a session.
Surviving == {}

EndAdminSession ==
  /\ session' = session + 1
  /\ token' = None /\ stored' = None /\ account' = FALSE /\ challenge' = None /\ logging' = None
  /\ growth' = None /\ calls' = Surviving
  /\ load' = None /\ joined' = FALSE /\ loads' = 0
  /\ loaded' = {} /\ errors' = {} /\ data' = [s \in Sections |-> Empty]
  /\ panel' = FALSE
  /\ unseen' = {}
  /\ UNCHANGED <<alert, growthOff>>

\* A request that is not public is refused: the session ends, whichever token
\* the request carried.
Refused ==
  /\ session < MaxSessions
  /\ \E c \in calls : c.to \notin Health \cup {"start", "verify"}
  /\ EndAdminSession

\* Log out, tell the server first for an account; or the password was changed,
\* or a list that was read alone was refused.
LogOut ==
  /\ session < MaxSessions /\ panel /\ token # None
  /\ EndAdminSession

\* The emergency key: the token is kept once the load has succeeded.
KeyForm(t) ==
  /\ ~panel /\ logging = None
  /\ token' = t /\ account' = FALSE /\ logging' = IF load = None THEN "own" ELSE "joined"
  /\ LoadAdmin(t)
  /\ UNCHANGED <<session, stored, challenge, panel, growth, growthOff, data, loaded, errors, alert, unseen>>

Ask(to) == calls' = calls \cup {[to |-> to, tok |-> None, s |-> session]}

AccountForm ==
  /\ ~panel /\ challenge = None /\ ~\E c \in calls : c.to = "start"
  /\ Ask("start")
  /\ UNCHANGED <<session, panel, load, joined, growth, growthOff, data, loaded, errors, alert, unseen, loads>> /\ UNCHANGED login

StartReply(ok) ==
  \E c \in calls :
    /\ c.to = "start"
    /\ calls' = calls \ {c}
    /\ challenge' = IF ok THEN "sent" ELSE challenge
    /\ UNCHANGED <<session, token, stored, account, logging, panel, load, joined, growth, growthOff, data, loaded, errors, alert, unseen, loads>>

CodeForm ==
  /\ ~panel /\ challenge = "sent" /\ ~\E c \in calls : c.to = "verify"
  /\ Ask("verify")
  /\ UNCHANGED <<session, panel, load, joined, growth, growthOff, data, loaded, errors, alert, unseen, loads>> /\ UNCHANGED login

\* The code is used up, so the session is stored before anything is loaded.
VerifyReply(t) ==
  \E c \in calls :
    /\ c.to = "verify"
    /\ token' = t /\ stored' = t /\ account' = TRUE /\ challenge' = None
    /\ IF load # None
       THEN joined' = TRUE /\ calls' = calls \ {c} /\ UNCHANGED <<load, loads>>
       ELSE /\ loads < MaxLoads
            /\ load' = "overview" /\ calls' = (calls \ {c}) \cup {Overview(t)} /\ loads' = loads + 1
            /\ UNCHANGED joined
    /\ UNCHANGED <<session, logging, panel, growth, growthOff, data, loaded, errors, alert, unseen>>

\* A wrong code may be tried again; a spent challenge starts over.
VerifyFails(spent) ==
  \E c \in calls :
    /\ c.to = "verify"
    /\ calls' = calls \ {c}
    /\ challenge' = IF spent THEN None ELSE challenge
    /\ UNCHANGED <<session, token, stored, account, logging, panel, load, joined, growth, growthOff, data, loaded, errors, alert, unseen, loads>>

Next ==
  \/ Refresh \/ OverviewReply \/ OverviewFails \/ SectionFails \/ RefreshGrowth
  \/ \E said \in {"quiet", "open"} : SectionReply(said)
  \/ \E s \in Lone : ReadAlone(s)
  \/ Refused \/ LogOut \/ AccountForm \/ CodeForm
  \/ \E t \in Tokens : KeyForm(t) \/ VerifyReply(t)
  \/ \E b \in BOOLEAN : StartReply(b) \/ VerifyFails(b)

Spec == Init /\ [][Next]_vars

-----------------------------------------------------------------------------
\* Nothing that is shown comes from an ended session, whatever was still on its
\* way then; once a load is over, "no urgent alert" is shown only when every
\* section was read without an error and none of them has anything waiting,
\* apart from the lists that were read alone since, which the alerts leave out
\* until the next load or advertising refresh; no load and no advertising
\* refresh is left waiting for an answer that cannot come, so their buttons work
\* again; and without a token nothing is stored.
PanelTrue ==
  /\ \A s \in Sections : data[s].of \in {None, session}
  /\ panel /\ load = None /\ growth = None /\ alert = "clear" =>
       \A s \in Sections \ (Growth \cup unseen) : s \in loaded /\ s \notin errors /\ data[s].said = "quiet"
  /\ load = "overview" => \E c \in calls : c.to = "overview"
  /\ load = "sections" => \E c \in calls : c.to \in Sections
  /\ growth # None <=> \E c \in calls : c.to \in Growth
  /\ panel /\ growthOff /\ load # "overview" => growth # None
  /\ token = None => stored = None /\ ~panel /\ load = None
  /\ panel => "overview" \in loaded
=============================================================================

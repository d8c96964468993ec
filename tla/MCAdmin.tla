---------------------------- MODULE MCAdmin ----------------------------
(***************************************************************************)
(* Instances of the administrator's console, for TLC: signing in and       *)
(* loading, the list of accounts, the lessons, the rewards to release, and *)
(* conversations with the record of a user. A behaviour is about one of    *)
(* them; the parts share no variable but the session, whose end clears     *)
(* each.                                                                   *)
(***************************************************************************)
EXTENDS Integers, FiniteSets, TLC

CONSTANTS
  Lists, Lone, Queue, Health, Growth, Tokens, MaxSessions, MaxLoads,
  Accounts, Filters, Matches, MaxReads, Owners, Jobs, MaxOpens, Rewards, TTL, MaxDraws,
  Messages, Users, MaxDialogs, MaxForms,
  None, Off

\* None names the absence of a form.
ASSUME NoneIsNoForm ==
  None \notin [ready : BOOLEAN, evidence : BOOLEAN, checked : BOOLEAN, age : Int, enabled : BOOLEAN, done : BOOLEAN]

\* The words of the lists and dialogs are no owners, lessons or messages.
ASSUME WordsAreNoNames ==
  /\ {None, "loading", "error", "problem", "empty"} \cap (Owners \cup {"everybody"}) = {}
  /\ None \notin {"loading", "error", "problem", "empty"}
  /\ {None, "error"} \cap (Jobs \cup Messages) = {}

\* There are finitely many accounts, and a filter finds some of them.
ASSUME FiltersFindAccounts == IsFiniteSet(Accounts) /\ Matches \in [Filters -> SUBSET Accounts]

\* Sections of the console are distinct from its other requests, there is an
\* advertising section, some lists are read alone too, and no token is the absence of one.
ASSUME SectionsAreDistinct ==
  /\ Growth # {} /\ Growth \cap (Lists \cup {Queue} \cup Health) = {}
  /\ {"overview", "start", "verify"} \cap (Lists \cup {Queue} \cup Health \cup Growth) = {}
  /\ Lone \subseteq Lists
  /\ None \notin Tokens /\ None \notin {"overview", "sections", "load", "alone"}

VARIABLES
  part,  \* the part of the site that this behaviour is about
  session, token, stored, account, challenge, panel, load, joined, logging, growth, growthOff,
  calls, data, loaded, errors, alert, unseen, loads,
  recordsSession, filter, timer, latest, page, shown, error, recordReads, selected, bulk, closed,
  confirmed,
  owner, list, scoped, known, trouble, drawn, reads, general, dialog, details, fetches, saved,
  visible, forms, drafts, draws, asking, releases, released, left, sent,
  contact, wanted, busy, deskCalls, astray, record, userForms, edits, broken

\* Two accounts, a filter that finds both and one that finds the second.
SomeMatches == [f \in {"all", "two"} |-> IF f = "all" THEN {1, 2} ELSE {2}]

Panel == INSTANCE AdminPanel
Recs == INSTANCE AdminRecords WITH
  Users <- Accounts, session <- recordsSession,
  calls <- recordReads
Work == INSTANCE AdminWork
Refs == INSTANCE AdminReferrals WITH
  calls <- releases
Desk == INSTANCE AdminDesk WITH
  MaxOpens <- MaxDialogs, calls <- deskCalls, forms <- userForms

\* The variables of the parts that are not open hold nothing.
PanelOff ==
  /\ session = Off /\ token = Off /\ stored = Off /\ account = Off /\ challenge = Off /\ panel = Off
  /\ load = Off /\ joined = Off /\ logging = Off /\ growth = Off /\ growthOff = Off /\ calls = Off
  /\ data = Off /\ loaded = Off /\ errors = Off /\ alert = Off /\ unseen = Off
  /\ loads = Off
RecsOff ==
  /\ recordsSession = Off /\ filter = Off /\ timer = Off /\ latest = Off /\ page = Off
  /\ shown = Off /\ error = Off /\ recordReads = Off /\ selected = Off /\ bulk = Off /\ closed = Off
  /\ confirmed = Off
WorkOff ==
  /\ owner = Off /\ list = Off /\ scoped = Off /\ known = Off /\ trouble = Off /\ drawn = Off
  /\ reads = Off /\ general = Off /\ dialog = Off /\ details = Off /\ fetches = Off /\ saved = Off
RefsOff ==
  /\ visible = Off /\ forms = Off /\ drafts = Off /\ draws = Off /\ asking = Off /\ releases = Off
  /\ released = Off /\ left = Off /\ sent = Off
DeskOff ==
  /\ contact = Off /\ wanted = Off /\ busy = Off /\ deskCalls = Off /\ astray = Off /\ record = Off
  /\ userForms = Off /\ edits = Off /\ broken = Off

panelVars == <<session, token, stored, account, challenge, panel, load, joined, logging, growth,
               growthOff, calls, data, loaded, errors, alert, unseen, loads>>
recsVars == <<recordsSession, filter, timer, latest, page, shown, error, recordReads, selected,
              bulk, closed, confirmed>>
workVars == <<owner, list, scoped, known, trouble, drawn, reads, general, dialog, details, fetches,
              saved>>
refsVars == <<visible, forms, drafts, draws, asking, releases, released, left, sent>>
deskVars == <<contact, wanted, busy, deskCalls, astray, record, userForms, edits, broken>>
vars == <<part, panelVars, recsVars, workVars, refsVars, deskVars>>

Init ==
  \/ /\ part = "panel" /\ Panel!Init
     /\ RecsOff /\ WorkOff /\ RefsOff /\ DeskOff
  \/ /\ part = "records" /\ Recs!Init
     /\ PanelOff /\ WorkOff /\ RefsOff /\ DeskOff
  \/ /\ part = "work" /\ Work!Init
     /\ PanelOff /\ RecsOff /\ RefsOff /\ DeskOff
  \/ /\ part = "referrals" /\ Refs!Init
     /\ PanelOff /\ RecsOff /\ WorkOff /\ DeskOff
  \/ /\ part = "desk" /\ Desk!Init
     /\ PanelOff /\ RecsOff /\ WorkOff /\ RefsOff

Next ==
  \/ /\ part = "panel" /\ Panel!Next
     /\ UNCHANGED <<part, recsVars, workVars, refsVars, deskVars>>
  \/ /\ part = "records" /\ Recs!Next
     /\ UNCHANGED <<part, panelVars, workVars, refsVars, deskVars>>
  \/ /\ part = "work" /\ Work!Next
     /\ UNCHANGED <<part, panelVars, recsVars, refsVars, deskVars>>
  \/ /\ part = "referrals" /\ Refs!Next
     /\ UNCHANGED <<part, panelVars, recsVars, workVars, deskVars>>
  \/ /\ part = "desk" /\ Desk!Next
     /\ UNCHANGED <<part, panelVars, recsVars, workVars, refsVars>>

Spec == Init /\ [][Next]_vars

\* Two tokens of the console are alike.
Alike == Permutations(Tokens)

-----------------------------------------------------------------------------
\* The console shows what its own session was told: PanelTrue of AdminPanel.
PanelTrue == part = "panel" => Panel!PanelTrue

\* The list is the current filter's and session's, and shows a confirmed bulk
\* action: RecordsCurrent of AdminRecords.
RecordsCurrent == part = "records" => Recs!RecordsCurrent

\* Lessons, details and downloads are the chosen owner's and lesson's:
\* WorkScoped of AdminWork.
WorkScoped == part = "work" => Work!WorkScoped

\* A reward is released only on a fresh, visible confirmation:
\* ReleaseConfirmed of AdminReferrals.
ReleaseConfirmed == part = "referrals" => Refs!ReleaseConfirmed

\* Answers reach the conversation and the record they are about: DeskApart of
\* AdminDesk.
DeskApart == part = "desk" => Desk!DeskApart
=============================================================================

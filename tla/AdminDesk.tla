----------------------------- MODULE AdminDesk ------------------------------
(***************************************************************************)
(* The console's dialogs (admin.js): a support conversation with its reply *)
(* form, status button and deletion, and a user's record with its editors. *)
(* Answers may arrive after the dialog was closed or opened for something  *)
(* else.                                                                   *)
(***************************************************************************)
EXTENDS Integers, FiniteSets

CONSTANTS
  Messages, Users, None,
  MaxOpens,  \* bound: times the conversation's dialog is opened or closed
  MaxForms   \* bound: forms drawn in a conversation, and records opened

VARIABLES
  contact,  \* the conversation's dialog: [open, version, body, form, draft]
  wanted,   \* history: the message the administrator opened last
  busy,     \* forms whose reply is being sent
  calls,    \* of the conversation: [do, msg, version, form, draft]
  astray,   \* history: a reply went to another sender than it was written for
  record,   \* the user's dialog: None or [user, form]
  forms,    \* the number of user forms drawn so far
  edits,    \* changes to users on their way: [user, form, closing]
  broken    \* history: a record was closed by an answer about another user

vars == <<contact, wanted, busy, calls, astray, record, forms, edits, broken>>
conversation == <<contact, wanted, busy, calls, astray>>
editing == <<record, forms, edits, broken>>

NoForm == 0

Init ==
  /\ contact = [open |-> FALSE, version |-> 0, body |-> None, form |-> NoForm, draft |-> None]
  /\ wanted = None /\ busy = {} /\ calls = {} /\ astray = FALSE
  /\ record = None /\ forms = 0 /\ edits = {} /\ broken = FALSE

-----------------------------------------------------------------------------
(* A conversation; its form is named by the version it was drawn in, and by   *)
(* whether it was drawn again after a reply                                    *)

Call(what, m, v, draft) == [do |-> what, msg |-> m, version |-> v, form |-> contact.form, draft |-> draft]

\* openContactConversation: a loading text replaces the form.
Opening(m, draft, others) ==
  /\ contact.version < MaxOpens
  /\ contact' = [open |-> TRUE, version |-> contact.version + 1, body |-> None, form |-> NoForm, draft |-> None]
  /\ calls' = others \cup {Call("read", m, contact.version + 1, draft)}

OpenContact(m) ==
  /\ ~contact.open /\ record = None
  /\ Opening(m, None, calls)
  /\ wanted' = m
  /\ UNCHANGED <<busy, astray>> /\ UNCHANGED editing

Closed(c) == [c EXCEPT !.open = FALSE, !.version = @ + 1]

CloseContact ==
  /\ contact.open /\ contact.version < MaxOpens
  /\ contact' = Closed(contact)
  /\ UNCHANGED <<wanted, busy, calls, astray>> /\ UNCHANGED editing

\* Mutant: an answer counts while any conversation is open.
UnchangedOrNot(c) == contact.open

\* Nothing was opened or closed since the call went out.
Unchanged(c) == c.version = contact.version /\ contact.open

\* renderContactConversation: a new form with the draft.
Drawn(c, m, draft) == [c EXCEPT !.body = m, !.form = @ + 1, !.draft = draft]

ReadReply(ok) ==
  \E c \in calls :
    /\ c.do = "read"
    /\ calls' = calls \ {c}
    /\ contact' = IF ~Unchanged(c) THEN contact
                  ELSE IF ok THEN Drawn(contact, c.msg, c.draft)
                  ELSE [contact EXCEPT !.body = "error"]
    /\ UNCHANGED <<wanted, busy, astray>> /\ UNCHANGED editing

Shows == contact.open /\ contact.form # NoForm

\* The draft is named by the message it is written for.
Type ==
  /\ Shows /\ contact.draft = None /\ contact.form < MaxForms
  /\ contact' = [contact EXCEPT !.draft = contact.body]
  /\ UNCHANGED <<wanted, busy, calls, astray>> /\ UNCHANGED editing

SendReply ==
  /\ Shows /\ contact.draft # None /\ <<contact.version, contact.form>> \notin busy
  /\ calls' = calls \cup {Call("send", contact.body, contact.version, contact.draft)}
  /\ busy' = busy \cup {<<contact.version, contact.form>>}
  /\ UNCHANGED <<contact, wanted, astray>> /\ UNCHANGED editing

\* The form a call was made from is still in the dialog.
Connected(c) == c.form = contact.form

\* submitContactReply: the conversation is drawn anew only where it was sent
\* from; a failed send leaves the draft.
SendDone(ok) ==
  \E c \in calls :
    /\ c.do = "send"
    /\ calls' = calls \ {c}
    /\ busy' = busy \ {<<c.version, c.form>>}
    /\ contact' = IF ok /\ Unchanged(c) /\ Connected(c) THEN Drawn(contact, c.msg, None) ELSE contact
    /\ astray' = (astray \/ c.draft # c.msg)
    /\ UNCHANGED wanted /\ UNCHANGED editing

\* The status button of the dialog.
MarkStatus ==
  /\ Shows /\ ~\E c \in calls : c.do = "status"
  /\ calls' = calls \cup {Call("status", contact.body, contact.version, None)}
  /\ UNCHANGED <<contact, wanted, busy, astray>> /\ UNCHANGED editing

\* The conversation is read again, with what has been typed meanwhile.
StatusReply(ok) ==
  \E c \in calls :
    /\ c.do = "status"
    /\ IF ok /\ Unchanged(c) /\ Connected(c)
       THEN Opening(c.msg, contact.draft, calls \ {c})
       ELSE calls' = calls \ {c} /\ UNCHANGED contact
    /\ UNCHANGED <<wanted, busy, astray>> /\ UNCHANGED editing

DeleteContact ==
  /\ Shows /\ ~\E c \in calls : c.do = "delete"
  /\ calls' = calls \cup {Call("delete", contact.body, contact.version, None)}
  /\ UNCHANGED <<contact, wanted, busy, astray>> /\ UNCHANGED editing

\* The dialog closes if it shows the deleted conversation, even opened again.
DeleteReply(ok) ==
  \E c \in calls :
    /\ c.do = "delete"
    /\ calls' = calls \ {c}
    /\ contact' = IF ok /\ Shows /\ contact.body = c.msg THEN Closed(contact) ELSE contact
    /\ UNCHANGED <<wanted, busy, astray>> /\ UNCHANGED editing

-----------------------------------------------------------------------------
(* A user's record *)

OpenRecord(u) ==
  /\ record = None /\ ~contact.open /\ forms < MaxForms
  /\ record' = [user |-> u, form |-> forms + 1] /\ forms' = forms + 1
  /\ UNCHANGED <<edits, broken>> /\ UNCHANGED conversation

CloseRecord ==
  /\ record # None /\ record' = None
  /\ UNCHANGED <<forms, edits, broken>> /\ UNCHANGED conversation

\* One of the editors is saved, or the account is closed.
Edit(closing) ==
  /\ record # None /\ ~\E e \in edits : e.form = record.form /\ e.closing = closing
  /\ edits' = edits \cup {[user |-> record.user, form |-> record.form, closing |-> closing]}
  /\ UNCHANGED <<record, forms, broken>> /\ UNCHANGED conversation

\* An editor closes the dialog it is part of, a closed account every dialog that
\* shows it.
ClosesRecord(e) == record # None /\ IF e.closing THEN record.user = e.user ELSE record.form = e.form

EditReply(ok) ==
  \E e \in edits :
    /\ edits' = edits \ {e}
    /\ IF ok /\ ClosesRecord(e)
       THEN record' = None /\ broken' = (broken \/ record.user # e.user)
       ELSE UNCHANGED <<record, broken>>
    /\ UNCHANGED forms /\ UNCHANGED conversation

Next ==
  \/ \E m \in Messages : OpenContact(m)
  \/ \E u \in Users : OpenRecord(u)
  \/ CloseContact \/ Type \/ SendReply \/ MarkStatus \/ DeleteContact \/ CloseRecord
  \/ \E b \in BOOLEAN : ReadReply(b) \/ SendDone(b) \/ StatusReply(b) \/ DeleteReply(b) \/ Edit(b) \/ EditReply(b)

Spec == Init /\ [][Next]_vars

-----------------------------------------------------------------------------
\* The dialog shows the conversation the administrator opened last, whichever
\* answers are still on their way; a draft stays with the conversation it was
\* written for and is sent to its sender only; and the answer to a change of
\* one user never closes the record of another.
DeskApart ==
  /\ contact.open /\ contact.body \in Messages => contact.body = wanted
  /\ Shows => contact.draft \in {None, contact.body}
  /\ ~astray
  /\ ~broken
=============================================================================

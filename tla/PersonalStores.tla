--------------------------- MODULE PersonalStores ---------------------------
(***************************************************************************)
(* The agents that keep the user's notes, events, reminders and emails in  *)
(* SQLite (agents/notes_agent.py, calendar_agent.py, reminder_agent.py,    *)
(* email_agent.py): their requests, their failures and a crash.            *)
(*                                                                         *)
(* A handler never awaits, so a request is one step; only sending an email *)
(* is two, the delivery and then its record, for a crash comes between     *)
(* them.  sqlite3 opens a transaction before a change and keeps it open    *)
(* until commit(): a change whose commit() raised stays in the transaction *)
(* (or is rolled back, as SQLite chooses) and the commit of a later        *)
(* request makes it durable.                                               *)
(***************************************************************************)
EXTENDS Naturals, FiniteSets

CONSTANTS
    Ids,        \* the keys of rows
    Contents,   \* what may be written in a row
    Limit       \* bound of a listing ("limit")

ASSUME StoreAssumption == Limit \in Nat /\ Ids \cap {""} = {}

VARIABLES
    kind,       \* which of the agents it is (never changes)
    open,       \* _conn is not None
    disk,       \* the table, as last committed
    table,      \* the table as the connection sees it
    used,       \* history: the keys given to rows (uuid4: never one twice)
    sending,    \* the email that was delivered and not yet recorded, or ""
    delivered,  \* history: the emails the SMTP server has taken
    reply,      \* the AgentResult: its success, and the rows it shows
    promised,   \* history: the rows as acknowledged
    unsure      \* history: the rows whose last change was reported as failed

storeVars == <<kind, open, disk, table, used, sending, delivered, reply, promised, unsure>>

Kinds == {"notes", "calendar", "reminder", "email"}
NoRow == [text |-> "", mark |-> ""]
Marks == {"open", "done"}       \* done: a reminder dismissed, an email sent
Rows  == [text : Contents, mark : Marks]
Stored == {id \in Ids : table[id] # NoRow}

Result(success, shown) == [success |-> success, shown |-> shown]

StoresInit ==
    /\ kind \in Kinds
    /\ open = FALSE
    /\ disk = [id \in Ids |-> NoRow]
    /\ table = disk
    /\ used = {}
    /\ sending = ""
    /\ delivered = {}
    /\ reply = Result(FALSE, {})
    /\ promised = disk
    /\ unsure = {}

\* initialize() creates the table if it does not exist; what the last process left
\* uncommitted is gone.
Initialize ==
    /\ ~open
    /\ open' = TRUE
    /\ table' = disk
    /\ UNCHANGED <<kind, disk, used, sending, delivered, reply, promised, unsure>>

Crash ==
    /\ open
    /\ open' = FALSE
    /\ table' = disk
    /\ sending' = ""
    /\ UNCHANGED <<kind, disk, used, delivered, reply, promised, unsure>>

\* handle(): a task of the agent's own, when the event loop is free.
Asked(agent) == kind = agent /\ open /\ sending = ""

Answers(success, shown) ==
    /\ reply' = Result(success, shown)
    /\ UNCHANGED <<promised, unsure>>

Quiet == UNCHANGED <<kind, open, sending, delivered>>

\* Nothing was done of a request before initialize(), one with no field to change,
\* one for an email the server refuses, or one whose statement SQLite refuses:
\* handle() reports every exception.
Refused ==
    /\ sending = ""
    /\ Answers(FALSE, {})
    /\ Quiet /\ UNCHANGED <<disk, table, used>>

(***************************************************************************)
(* A change of one row, then commit(), then the answer.                    *)
(***************************************************************************)
Written(id, row) == [table EXCEPT ![id] = row]

Acknowledge(id, row) ==
    /\ reply' = Result(TRUE, {})
    /\ promised' = [promised EXCEPT ![id] = row]
    /\ unsure' = unsure \ {id}

Commit(id, row) ==
    /\ table' = Written(id, row)
    /\ disk' = table'
    /\ Acknowledge(id, row)

CommitFails(id, row) ==
    /\ table' \in {Written(id, row), disk}
    /\ reply' = Result(FALSE, {})
    /\ unsure' = unsure \cup {id}
    /\ UNCHANGED <<disk, promised>>

\* Fault: the row is acknowledged before its commit.
Change_AnswersFirst(id, row) ==
    /\ \/ Commit(id, row)
       \/ table' \in {Written(id, row), disk} /\ Acknowledge(id, row) /\ UNCHANGED disk
    /\ used' = used \cup {id}
    /\ Quiet

Change(id, row) ==
    /\ Commit(id, row) \/ CommitFails(id, row)
    /\ used' = used \cup {id}
    /\ Quiet

\* A statement that matches no row is committed too, with what was pending.
MatchesNothing ==
    /\ table' = table
    /\ disk' = table
    /\ Answers(FALSE, {})
    /\ Quiet /\ UNCHANGED used

Insert(id, text) == id \notin used /\ Change(id, [text |-> text, mark |-> "open"])

UpdateRow(id, text) ==
    IF id \in Stored THEN Change(id, [table[id] EXCEPT !.text = text]) ELSE MatchesNothing

DeleteRow(id) == IF id \in Stored THEN Change(id, NoRow) ELSE MatchesNothing

\* A reader sees what the connection sees, committed or not.
Show(ids) ==
    /\ Answers(TRUE, ids)
    /\ Quiet /\ UNCHANGED <<disk, table, used>>

ReadRow(id) == IF id \in Stored THEN Show({id}) ELSE Refused

\* The first rows, in an order left open, of those that match.
Listing(matching) ==
    \E shown \in SUBSET matching :
        /\ Cardinality(shown) = IF Cardinality(matching) > Limit THEN Limit ELSE Cardinality(matching)
        /\ Show(shown)

Like(text) == {id \in Stored : table[id].text = text}

-----------------------------------------------------------------------------
CreateNote(id, text) == Asked("notes") /\ Insert(id, text)
ReadNote(id)         == Asked("notes") /\ ReadRow(id)
UpdateNote(id, text) == Asked("notes") /\ UpdateRow(id, text)
DeleteNote(id)       == Asked("notes") /\ DeleteRow(id)
SearchNotes(text)    == Asked("notes") /\ Listing(Like(text))
ListNotes            == Asked("notes") /\ \E beyond \in SUBSET Stored : Listing(beyond)  \* "offset"
NotesStats           == Asked("notes") /\ Show({})

CreateEvent(id, text) == Asked("calendar") /\ Insert(id, text)
ReadEvent(id)         == Asked("calendar") /\ ReadRow(id)
UpdateEvent(id, text) == Asked("calendar") /\ UpdateRow(id, text)
DeleteEvent(id)       == Asked("calendar") /\ DeleteRow(id)
ListEvents            == Asked("calendar") /\ \E within \in SUBSET Stored : Listing(within)
SearchEvents(text)    == Asked("calendar") /\ Listing(Like(text))

CreateReminder(id, text) == Asked("reminder") /\ Insert(id, text)
ReadReminder(id)         == Asked("reminder") /\ ReadRow(id)
UpdateReminder(id, text) == Asked("reminder") /\ UpdateRow(id, text)
DeleteReminder(id)       == Asked("reminder") /\ DeleteRow(id)

\* The dismissed ones are shown to those who ask for them only.
Pending == {id \in Stored : table[id].mark = "open"}
ListReminders ==
    /\ Asked("reminder")
    /\ Listing(Pending) \/ Listing(Stored)

DismissReminder(id) ==
    /\ Asked("reminder")
    /\ IF id \in Pending THEN Change(id, [table[id] EXCEPT !.mark = "done"]) ELSE MatchesNothing

DraftEmail(id, text)  == Asked("email") /\ Insert(id, text)
ReadEmail(id)         == Asked("email") /\ ReadRow(id)
UpdateEmail(id, text) == Asked("email") /\ UpdateRow(id, text)
DeleteEmail(id)       == Asked("email") /\ DeleteRow(id)
ListEmails ==
    /\ Asked("email")
    /\ \/ Listing(Stored)
       \/ \E status \in Marks : Listing({id \in Stored : table[id].mark = status})

\* Fault: the email is marked as sent, then given to the server.
Deliver_RecordsFirst(id) ==
    /\ Asked("email")
    /\ id \in Stored
    /\ Commit(id, [table[id] EXCEPT !.mark = "done"]) \/ CommitFails(id, [table[id] EXCEPT !.mark = "done"])
    /\ sending' = id
    /\ UNCHANGED <<kind, open, used, delivered>>

\* _send(): whatever the status of the email is.  An email the server has taken
\* counts as not sent when closing the connection raises.
Deliver(id) ==
    /\ Asked("email")
    /\ id \in Stored
    /\ delivered' = delivered \cup {id}
    /\ \/ sending' = id /\ UNCHANGED <<reply, promised, unsure>>
       \/ Answers(FALSE, {}) /\ UNCHANGED sending
    /\ UNCHANGED <<kind, open, disk, table, used>>

RecordSent ==
    /\ sending # ""
    /\ LET row == [table[sending] EXCEPT !.mark = "done"] IN
         \/ Commit(sending, row)
         \/ CommitFails(sending, row)
         \/ Answers(FALSE, {}) /\ UNCHANGED <<disk, table>>
    /\ sending' = ""
    /\ UNCHANGED <<kind, open, used, delivered>>

-----------------------------------------------------------------------------
NotesNext ==
    \/ \E id \in Ids : ReadNote(id) \/ DeleteNote(id)
    \/ \E id \in Ids, text \in Contents : CreateNote(id, text) \/ UpdateNote(id, text)
    \/ (\E text \in Contents : SearchNotes(text)) \/ ListNotes \/ NotesStats

CalendarNext ==
    \/ \E id \in Ids : ReadEvent(id) \/ DeleteEvent(id)
    \/ \E id \in Ids, text \in Contents : CreateEvent(id, text) \/ UpdateEvent(id, text)
    \/ (\E text \in Contents : SearchEvents(text)) \/ ListEvents

ReminderNext ==
    \/ \E id \in Ids : ReadReminder(id) \/ DeleteReminder(id) \/ DismissReminder(id)
    \/ \E id \in Ids, text \in Contents : CreateReminder(id, text) \/ UpdateReminder(id, text)
    \/ ListReminders

EmailNext ==
    \/ \E id \in Ids : ReadEmail(id) \/ DeleteEmail(id) \/ Deliver(id)
    \/ \E id \in Ids, text \in Contents : DraftEmail(id, text) \/ UpdateEmail(id, text)
    \/ ListEmails \/ RecordSent

StoresNext ==
    \/ Initialize \/ Crash \/ Refused
    \/ NotesNext \/ CalendarNext \/ ReminderNext \/ EmailNext

StoresSpec == StoresInit /\ [][StoresNext]_storeVars

-----------------------------------------------------------------------------
StoresTypeOK ==
    /\ kind \in Kinds /\ open \in BOOLEAN
    /\ disk \in [Ids -> Rows \cup {NoRow}] /\ table \in [Ids -> Rows \cup {NoRow}]
    /\ promised \in [Ids -> Rows \cup {NoRow}]
    /\ sending \in Stored \cup {""}
    /\ used \subseteq Ids /\ Stored \subseteq used
    /\ delivered \subseteq Ids /\ unsure \subseteq Ids
    /\ reply \in [success : BOOLEAN, shown : SUBSET Ids]

\* What was acknowledged is on the disk, whatever crashes or fails to commit later,
\* until a later change of the same row is reported as failed.
AcknowledgedIsDurable == \A id \in Ids \ unsure : disk[id] = promised[id]

\* No email is marked as sent, on the disk or in the open transaction, that the
\* server was never given.
SentWasDelivered ==
    kind = "email" =>
        \A id \in Ids : "done" \in {disk[id].mark, table[id].mark} => id \in delivered
=============================================================================

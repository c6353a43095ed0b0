--------------------------- MODULE Notifications ---------------------------
(***************************************************************************)
(* Notifications by server-sent events: the in-memory registry of open     *)
(* streams that each worker process has (a queue per stream, and the users *)
(* subscribed per role) and the bell of every open tab, which keeps what   *)
(* it receives of the events it listens to.  An event reaches the streams  *)
(* of the process that raises it, and no other.                            *)
(***************************************************************************)
EXTENDS Naturals, Sequences

CONSTANTS NTabs,      \* open tabs
          NUserOf,    \* the user of each tab
          NAgents,    \* users of role agent, the one role notified as such
          NProcesses, \* worker processes of the server (4 in production)
          MaxNotes,   \* bound: notifications raised
          KeepLast    \* notifications a bell keeps (50 in the code)

ASSUME NotesAssumption == MaxNotes \in Nat /\ KeepLast \in Nat \ {0}

VARIABLES
  subscribed, \* process: tabs whose queue is in its _user_subscribers
  roleUsers,  \* process: its _role_to_users of agents
  es,         \* tab: EventSource: "connecting", "open" or "refused"
  bellOpen,   \* tab: the bell's panel is open
  notes,      \* tab: notifications kept, newest first
  raised      \* notifications raised so far

noteVars == <<subscribed, roleUsers, es, bellOpen, notes, raised>>

NotesInit ==
  /\ subscribed = [p \in NProcesses |-> {}]
  /\ roleUsers = [p \in NProcesses |-> {}]
  /\ es = [t \in NTabs |-> "connecting"]
  /\ bellOpen = [t \in NTabs |-> FALSE]
  /\ notes = [t \in NTabs |-> <<>>]
  /\ raised = 0

\* subscribe_user in the process that answers: the stream's queue and the
\* user's role are registered there.
SubscribeUser(t, p) ==
  /\ es[t] = "connecting"
  /\ es' = [es EXCEPT ![t] = "open"]
  /\ subscribed' = [subscribed EXCEPT ![p] = @ \cup {t}]
  /\ roleUsers' = [roleUsers EXCEPT ![p] = @ \cup ({NUserOf[t]} \cap NAgents)]
  /\ UNCHANGED <<bellOpen, notes, raised>>

\* A token the server refuses: the browser gives the EventSource up.
RefuseStream(t) ==
  /\ es[t] = "connecting"
  /\ es' = [es EXCEPT ![t] = "refused"]
  /\ UNCHANGED <<subscribed, roleUsers, bellOpen, notes, raised>>

\* The finally of subscribe_user: the user is no longer listed for the role,
\* whatever other streams he has in the process.  The browser reconnects by
\* itself, to any process.
StreamEnds(t, p) ==
  /\ t \in subscribed[p]
  /\ es' = [es EXCEPT ![t] = "connecting"]
  /\ subscribed' = [subscribed EXCEPT ![p] = @ \ {t}]
  /\ roleUsers' = [roleUsers EXCEPT ![p] = @ \ {NUserOf[t]}]
  /\ UNCHANGED <<bellOpen, notes, raised>>

\* Mutant of AddNotification: an event without an id.
AddAnonymous(list, n) == <<[id |-> 0, read |-> FALSE]>> \o list

\* addNotification: newest first and unread; the oldest falls off.
AddNotification(list, n) ==
  <<[id |-> n, read |-> FALSE]>>
    \o SubSeq(list, 1, IF Len(list) < KeepLast - 1 THEN Len(list) ELSE KeepLast - 1)

\* The events the hook listens to; an agent's quote_accepted is not one.
Listened == {"new_rfq", "quote_ready"}

\* An event process p raises for some users, by the queues it has for them.
Push(p, users, type) ==
  LET to == {t \in subscribed[p] : NUserOf[t] \in users /\ type \in Listened}
  IN /\ raised < MaxNotes
     /\ raised' = raised + 1
     /\ notes' = [t \in NTabs |-> IF t \in to THEN AddNotification(notes[t], raised + 1) ELSE notes[t]]
     /\ UNCHANGED <<subscribed, roleUsers, es, bellOpen>>

\* A quotation is ready for its client, or accepted, which its agent is told.
NotifyUser(u, p) == Push(p, {u}, IF u \in NAgents THEN "quote_accepted" ELSE "quote_ready")

\* A client's new RFQ, for the agents.
NotifyRole(p) == Push(p, roleUsers[p], "new_rfq")

MarkAllRead(list) == [i \in 1 .. Len(list) |-> [list[i] EXCEPT !.read = TRUE]]

\* handleOpen: opening the panel marks everything read, closing it does not.
HandleOpen(t) ==
  /\ bellOpen' = [bellOpen EXCEPT ![t] = ~@]
  /\ notes' = [notes EXCEPT ![t] = IF bellOpen[t] THEN @ ELSE MarkAllRead(@)]
  /\ UNCHANGED <<subscribed, roleUsers, es, raised>>

\* With the panel open: "mark all as read", or a notification is followed.
NotificationBell(t) ==
  /\ bellOpen[t] /\ notes[t] # <<>>
  /\ \/ notes' = [notes EXCEPT ![t] = MarkAllRead(@)] /\ UNCHANGED bellOpen
     \/ bellOpen' = [bellOpen EXCEPT ![t] = FALSE] /\ UNCHANGED notes
  /\ UNCHANGED <<subscribed, roleUsers, es, raised>>

NotesNext ==
  \/ \E t \in NTabs : RefuseStream(t) \/ HandleOpen(t) \/ NotificationBell(t)
  \/ \E p \in NProcesses :
       \/ NotifyRole(p)
       \/ \E t \in NTabs : SubscribeUser(t, p) \/ StreamEnds(t, p) \/ NotifyUser(NUserOf[t], p)

NotesSpec == NotesInit /\ [][NotesNext]_noteVars

-----------------------------------------------------------------------------

\* Type invariant.
NotesTypeOK ==
  /\ subscribed \in [NProcesses -> SUBSET NTabs]
  /\ roleUsers \in [NProcesses -> SUBSET NAgents]
  /\ es \in [NTabs -> {"connecting", "open", "refused"}]
  /\ bellOpen \in [NTabs -> BOOLEAN]
  /\ notes \in [NTabs -> Seq([id : 1 .. MaxNotes, read : BOOLEAN])]

=============================================================================

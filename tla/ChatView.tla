------------------------------ MODULE ChatView ------------------------------
(***************************************************************************)
(* One chat room as its viewers' browsers see it: the history fetched when *)
(* the page opens, the room's server-sent events, and the viewer's own     *)
(* sends.                                                                  *)
(*                                                                         *)
(* The server announces a message before its transaction commits, to the   *)
(* room's streams (the sender's too) that the process handling the request *)
(* has open: each worker process has subscribers of its own.  The history  *)
(* is read from what has been committed.  A stream carries no history:     *)
(* what is announced elsewhere, or while it is down, does not reach it.    *)
(***************************************************************************)
EXTENDS Naturals, FiniteSets, SequencesExt

CONSTANTS Viewers,    \* browser tabs, one page each
          Quoters,    \* viewers whose role may build a quotation
          Processes,  \* worker processes of the server (4 in production)
          Writers,    \* bound: viewers who write
          MaxMessages,\* bound: messages sent
          MaxBreaks   \* bound: streams that break, pages left, calls that fail

ASSUME ViewersAssumption == Quoters \cup Writers \subseteq Viewers
ASSUME BoundsAssumption ==
  MaxMessages \in Nat /\ MaxBreaks \in Nat

VARIABLES
  posts,   \* server: the POST of each message: by whom and how far
  saved,   \* server: committed messages, in order
  read,    \* server: messages with a read_at
  strays,  \* server: GET messages of pages left before it was handled
  subscribers, \* process: viewers whose streams it has, its _room_subscribers
  page,    \* viewer: "list", "room" or "quote"
  room,    \* viewer: the room's header: "asked", "loaded" or "failed"
  history, \* viewer: state of GET messages, with the snapshot it carries
  error,   \* viewer: the page shows an error
  stream,  \* viewer: state of the SSE connection
  queue,   \* viewer: events on their way
  shown,   \* viewer: the messages on the page
  draft,   \* viewer: the input box is not empty
  sending, \* viewer: message whose POST handleSend awaits, or 0
  owed,    \* viewer: what the page has been promised (see NothingLostWhileOpen)
  breaks   \* counter for MaxBreaks

serverVars == <<posts, saved, read, strays>>
pageVars == <<page, room, history, error, shown, draft, sending>>
streamVars == <<subscribers, stream, queue>>
chatVars == <<serverVars, pageVars, streamVars, owed, breaks>>

NoHistory == [st |-> "none", items |-> <<>>]
Ids == 1 .. Len(posts)

ChatInit ==
  /\ posts = <<>> /\ saved = <<>> /\ read = {} /\ strays = {}
  /\ subscribers = [p \in Processes |-> {}]
  /\ page = [v \in Viewers |-> "list"]
  /\ room = [v \in Viewers |-> "asked"]
  /\ history = [v \in Viewers |-> NoHistory]
  /\ error = [v \in Viewers |-> FALSE]
  /\ stream = [v \in Viewers |-> "off"]
  /\ queue = [v \in Viewers |-> <<>>]
  /\ shown = [v \in Viewers |-> <<>>]
  /\ draft = [v \in Viewers |-> FALSE]
  /\ sending = [v \in Viewers |-> 0]
  /\ owed = [v \in Viewers |-> {}]
  /\ breaks = 0

-----------------------------------------------------------------------------
(* The page *)

Set(f, v, x) == [f EXCEPT ![v] = x]

\* The processes' subscribers without viewer v.
Without(v) == [p \in Processes |-> subscribers[p] \ {v}]

\* A card of the list: the room's page is mounted and asks for the room, for
\* its messages and for its stream.
OpenRoom(v) ==
  /\ page[v] = "list"
  /\ page' = Set(page, v, "room")
  /\ room' = Set(room, v, "asked")
  /\ history' = Set(history, v, [st |-> "asked", items |-> <<>>])
  /\ stream' = Set(stream, v, "connecting")
  /\ owed' = Set(owed, v, ToSet(saved))
  /\ UNCHANGED <<serverVars, error, shown, draft, sending, subscribers, queue, breaks>>

RoomListDesktop(v) == OpenRoom(v)
RoomListMobile(v) == OpenRoom(v)

\* The page is left: the stream is aborted, and answers still to come find
\* nobody; what the server was asked for it does all the same.
Leave(v, to) ==
  /\ breaks < MaxBreaks /\ breaks' = breaks + 1
  /\ page' = Set(page, v, to)
  /\ room' = Set(room, v, "asked")
  /\ history' = Set(history, v, NoHistory)
  /\ error' = Set(error, v, FALSE)
  /\ strays' = IF history[v].st = "asked" THEN strays \cup {v} ELSE strays
  /\ subscribers' = Without(v)
  /\ stream' = Set(stream, v, "off")
  /\ queue' = Set(queue, v, <<>>)
  /\ shown' = Set(shown, v, <<>>)
  /\ draft' = Set(draft, v, FALSE)
  /\ sending' = Set(sending, v, 0)
  /\ owed' = Set(owed, v, {})
  /\ UNCHANGED <<posts, saved, read>>

\* What the page offers: a spinner, an error with two buttons, or the
\* conversation.
Loading(v) == history[v].st \in {"asked", "read"} /\ room[v] # "failed"
CanSendQuote(v) == room[v] = "loaded" /\ v \in Quoters
ConversationDesktop(v) == page[v] = "room" /\ ~Loading(v) /\ ~error[v]
ConversationMobile(v) == page[v] = "room" /\ ~Loading(v) /\ ~error[v]
Conversation(v) == ConversationDesktop(v) \/ ConversationMobile(v)

GoBack(v) == page[v] = "room" /\ ~Loading(v) /\ Leave(v, "list")
LeaveForQuote(v) == Conversation(v) /\ CanSendQuote(v) /\ Leave(v, "quote")

GotRoom(v) ==
  /\ page[v] = "room" /\ room[v] = "asked"
  /\ \/ room' = Set(room, v, "loaded") /\ UNCHANGED error
     \/ room' = Set(room, v, "failed") /\ error' = Set(error, v, TRUE)
  /\ UNCHANGED <<serverVars, page, history, shown, draft, sending, streamVars, owed, breaks>>

\* get_messages reads what is committed and marks the others' messages read.
MarkRead(v) == read' = read \cup {id \in ToSet(saved) : posts[id].by # v}

ReadHistory(v) ==
  /\ history[v].st = "asked"
  /\ history' = Set(history, v, [st |-> "read", items |-> saved])
  /\ MarkRead(v)
  /\ UNCHANGED <<posts, saved, strays, page, room, error, shown, draft, sending,
                 streamVars, owed, breaks>>

ReadHistoryForNobody(v) ==
  /\ v \in strays /\ strays' = strays \ {v}
  /\ MarkRead(v)
  /\ UNCHANGED <<posts, saved, pageVars, streamVars, owed, breaks>>

\* Mutant of GotHistory: what the page shows already is kept, nothing is added.
GotHistoryIfEmpty(v) ==
  /\ history[v].st = "read"
  /\ history' = Set(history, v, [st |-> "done", items |-> <<>>])
  /\ shown' = IF shown[v] = <<>> THEN Set(shown, v, history[v].items) ELSE shown
  /\ UNCHANGED <<serverVars, page, room, error, draft, sending, streamVars, owed, breaks>>

\* The answer replaces whatever the page shows.
GotHistory(v) ==
  /\ history[v].st = "read"
  /\ history' = Set(history, v, [st |-> "done", items |-> <<>>])
  /\ shown' = Set(shown, v, history[v].items)
  /\ UNCHANGED <<serverVars, page, room, error, draft, sending, streamVars, owed, breaks>>

HistoryFailed(v) ==
  /\ history[v].st \in {"asked", "read"}
  /\ breaks < MaxBreaks /\ breaks' = breaks + 1
  /\ history' = Set(history, v, [st |-> "failed", items |-> <<>>])
  /\ error' = Set(error, v, TRUE)
  /\ strays' = IF history[v].st = "asked" THEN strays \cup {v} ELSE strays
  /\ owed' = Set(owed, v, {})
  /\ UNCHANGED <<posts, saved, read, page, room, shown, draft, sending, streamVars>>

-----------------------------------------------------------------------------
(* useRoomSSE *)

\* The connection is accepted by some process, which subscribes it.
Connect(v, p) ==
  /\ stream[v] = "connecting"
  /\ stream' = Set(stream, v, "open")
  /\ subscribers' = [subscribers EXCEPT ![p] = @ \cup {v}]
  /\ UNCHANGED <<serverVars, pageVars, queue, owed, breaks>>

\* It fails: with an answer that is not OK for good, without one for three
\* seconds.
ConnectFails(v) ==
  /\ stream[v] = "connecting"
  /\ breaks < MaxBreaks /\ breaks' = breaks + 1
  /\ stream' \in {Set(stream, v, "dead"), Set(stream, v, "waiting")}
  /\ UNCHANGED <<serverVars, pageVars, subscribers, queue, owed>>

\* The server ends the stream (nothing reconnects), or the network breaks it:
\* what was on its way is lost.
Break(v) ==
  /\ stream[v] = "open"
  /\ breaks < MaxBreaks /\ breaks' = breaks + 1
  /\ stream' \in {Set(stream, v, "dead"), Set(stream, v, "waiting")}
  /\ subscribers' = Without(v)
  /\ queue' = Set(queue, v, <<>>)
  /\ owed' = Set(owed, v, owed[v] \ (ToSet(queue[v]) \ ToSet(shown[v])))
  /\ UNCHANGED <<serverVars, pageVars>>

Reconnect(v) ==
  /\ stream[v] = "waiting"
  /\ stream' = Set(stream, v, "connecting")
  /\ UNCHANGED <<serverVars, pageVars, subscribers, queue, owed, breaks>>

\* handleNewMessage: an id the page shows already is dropped.
HandleNewMessage(list, id) == IF id \in ToSet(list) THEN list ELSE Append(list, id)

Receive(v) ==
  /\ stream[v] = "open" /\ queue[v] # <<>>
  /\ shown' = Set(shown, v, HandleNewMessage(shown[v], Head(queue[v])))
  /\ queue' = Set(queue, v, Tail(queue[v]))
  /\ UNCHANGED <<serverVars, page, room, history, error, draft, sending, subscribers, stream, owed, breaks>>

-----------------------------------------------------------------------------
(* Sending *)

\* The box is typed into, or emptied, at any time: while a send is under way too.
Type(v) ==
  /\ v \in Writers /\ Conversation(v)
  /\ draft' = Set(draft, v, ~draft[v])
  /\ UNCHANGED <<serverVars, page, room, history, error, shown, sending, streamVars, owed, breaks>>

\* handleSend: not while a send is under way, and not an empty text.
HandleSend(v) ==
  /\ Conversation(v) /\ draft[v] /\ sending[v] = 0
  /\ Len(posts) < MaxMessages
  /\ posts' = Append(posts, [by |-> v, st |-> "sent"])
  /\ sending' = Set(sending, v, Len(posts) + 1)
  /\ UNCHANGED <<saved, read, strays, page, room, history, error, shown, draft, streamVars, owed,
                 breaks>>

\* send_message in process p: the message is flushed and announced to the
\* room's streams of that process.
Announce(id, p) ==
  /\ posts[id].st = "sent"
  /\ posts' = [posts EXCEPT ![id].st = "announced"]
  /\ queue' = [v \in Viewers |-> IF v \in subscribers[p] THEN Append(queue[v], id) ELSE queue[v]]
  /\ owed' = [v \in Viewers |-> IF v \in subscribers[p] /\ history[v].st = "done"
                                 THEN owed[v] \cup {id} ELSE owed[v]]
  /\ UNCHANGED <<saved, read, strays, pageVars, subscribers, stream, breaks>>

\* get_db commits after the handler.  A history request still to be handled
\* will carry the message.
CommitMessage(id) ==
  /\ posts[id].st = "announced"
  /\ posts' = [posts EXCEPT ![id].st = "committed"]
  /\ saved' = Append(saved, id)
  /\ owed' = [v \in Viewers |-> IF history[v].st = "asked" THEN owed[v] \cup {id} ELSE owed[v]]
  /\ UNCHANGED <<read, strays, pageVars, streamVars, breaks>>

\* The request fails: refused before the insert, or at the commit.
RefuseMessage(id) ==
  /\ posts[id].st \in {"sent", "announced"}
  /\ breaks < MaxBreaks /\ breaks' = breaks + 1
  /\ posts' = [posts EXCEPT ![id].st = "refused"]
  /\ UNCHANGED <<saved, read, strays, pageVars, streamVars, owed>>

\* The answer of a send: the message is appended as it is, the box emptied
\* whatever has been typed since.
Sent(v) ==
  /\ sending[v] # 0 /\ posts[sending[v]].st = "committed"
  /\ shown' = Set(shown, v, Append(shown[v], sending[v]))
  /\ draft' = Set(draft, v, FALSE)
  /\ sending' = Set(sending, v, 0)
  /\ owed' = Set(owed, v, owed[v] \cup {sending[v]})
  /\ UNCHANGED <<serverVars, page, room, history, error, streamVars, breaks>>

\* No answer, or an error: the box stays as it is, nothing is said.
SendFailed(v) ==
  /\ sending[v] # 0
  /\ \/ posts[sending[v]].st = "refused" /\ UNCHANGED breaks
     \/ breaks < MaxBreaks /\ breaks' = breaks + 1
  /\ sending' = Set(sending, v, 0)
  /\ UNCHANGED <<serverVars, page, room, history, error, shown, draft, streamVars, owed>>

-----------------------------------------------------------------------------

ChatNext ==
  \/ \E v \in Viewers :
       \/ RoomListDesktop(v) \/ RoomListMobile(v)
       \/ GoBack(v) \/ LeaveForQuote(v)
       \/ GotRoom(v) \/ ReadHistory(v) \/ ReadHistoryForNobody(v) \/ GotHistory(v) \/ HistoryFailed(v)
       \/ ConnectFails(v) \/ Break(v) \/ Reconnect(v) \/ Receive(v)
       \/ Type(v) \/ HandleSend(v) \/ Sent(v) \/ SendFailed(v)
       \/ \E p \in Processes : Connect(v, p)
  \/ \E id \in Ids : \/ CommitMessage(id) \/ RefuseMessage(id)
                     \/ \E p \in Processes : Announce(id, p)

ChatSpec == ChatInit /\ [][ChatNext]_chatVars

-----------------------------------------------------------------------------
(* Properties *)

\* Type invariant.
ChatTypeOK ==
  /\ posts \in Seq([by : Viewers, st : {"sent", "announced", "committed", "refused"}])
  /\ ToSet(saved) \subseteq Ids /\ read \subseteq Ids /\ strays \subseteq Viewers
  /\ subscribers \in [Processes -> SUBSET Viewers]
  /\ page \in [Viewers -> {"list", "room", "quote"}]
  /\ room \in [Viewers -> {"asked", "loaded", "failed"}]
  /\ stream \in [Viewers -> {"off", "connecting", "open", "waiting", "dead"}]
  /\ sending \in [Viewers -> 0 .. Len(posts)]
  /\ error \in [Viewers -> BOOLEAN] /\ draft \in [Viewers -> BOOLEAN]
  /\ \A v \in Viewers :
       ToSet(queue[v]) \cup ToSet(shown[v]) \cup ToSet(history[v].items) \cup owed[v] \subseteq Ids

\* A page whose history has come has every message it was promised, on the
\* page or on its way: those committed before its history request was handled,
\* those its own process announced since the history came, and its own that
\* were answered.  Only a stream that breaks takes along what it carried, and
\* what the page got while the history was under way, before the commit, is
\* replaced with it.
NothingLostWhileOpen ==
  \A v \in Viewers :
    history[v].st = "done" => owed[v] \subseteq ToSet(shown[v]) \cup ToSet(queue[v])

=============================================================================

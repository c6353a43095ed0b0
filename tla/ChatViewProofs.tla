--------------------------- MODULE ChatViewProofs ---------------------------
(* Theorems about ChatView, for any number of viewers and messages.        *)
EXTENDS ChatView, SequenceTheorems, TLAPS

-----------------------------------------------------------------------------
(* The invariant *)

PostStates == {"sent", "announced", "committed", "refused"}
Posts == [by : Viewers, st : PostStates]
Histories(ids) == [st : {"none", "asked", "read", "done", "failed"}, items : Seq(ids)]

\* The types, with the sequences the type invariant speaks of as sets.
Shapes ==
  /\ posts \in Seq(Posts) /\ saved \in Seq(Ids) /\ read \subseteq Ids
  /\ strays \subseteq Viewers /\ subscribers \in [Processes -> SUBSET Viewers]
  /\ page \in [Viewers -> {"list", "room", "quote"}]
  /\ room \in [Viewers -> {"asked", "loaded", "failed"}]
  /\ stream \in [Viewers -> {"off", "connecting", "open", "waiting", "dead"}]
  /\ sending \in [Viewers -> 0 .. Len(posts)]
  /\ error \in [Viewers -> BOOLEAN] /\ draft \in [Viewers -> BOOLEAN]
  /\ history \in [Viewers -> Histories(Ids)]
  /\ queue \in [Viewers -> Seq(Ids)] /\ shown \in [Viewers -> Seq(Ids)]
  /\ owed \in [Viewers -> SUBSET Ids]

\* NothingLostWhileOpen is not inductive: it must be known what a page is
\* promised before its history comes.  The history will carry that: first
\* because it is committed, then because it is in the answer.
Kept(v) ==
  /\ history[v].st = "asked" => owed[v] \subseteq ToSet(saved)
  /\ history[v].st = "read" => owed[v] \subseteq ToSet(history[v].items)
  /\ history[v].st = "done" => owed[v] \subseteq ToSet(shown[v]) \cup ToSet(queue[v])

PromisesKept == \A v \in Viewers : Kept(v)

\* The history's answer replaces what is shown, so nothing may be promised by
\* the answer to a send meanwhile: nobody sends while the history is under way,
\* for a room that could not be loaded shows its error instead.
FailureShown == \A v \in Viewers : room[v] = "failed" => error[v] = TRUE

SendsInRoom ==
  \A v \in Viewers :
    sending[v] # 0 => page[v] = "room" /\ history[v].st \notin {"asked", "read"}

\* What a send waits for is in the room's history once it is committed.
CommittedIsSaved == \A id \in Ids : posts[id].st = "committed" => id \in ToSet(saved)

ChatInv == Shapes /\ PromisesKept /\ FailureShown /\ SendsInRoom /\ CommittedIsSaved

-----------------------------------------------------------------------------
(* Lemmas about sequences as sets *)

LEMMA ToSetMember ==
  ASSUME NEW S, NEW s \in Seq(S) PROVE ToSet(s) \subseteq S
BY DEF ToSet

LEMMA ToSetAppend ==
  ASSUME NEW S, NEW s \in Seq(S), NEW e \in S
  PROVE  ToSet(Append(s, e)) = ToSet(s) \cup {e}
<1>1. /\ Append(s, e) \in Seq(S) /\ Len(Append(s, e)) = Len(s) + 1 /\ Len(s) \in Nat
      /\ \A i \in 1 .. Len(s) : Append(s, e)[i] = s[i]
      /\ Append(s, e)[Len(s) + 1] = e
  BY AppendProperties, LenProperties
<1>2. DOMAIN s = 1 .. Len(s) /\ DOMAIN Append(s, e) = 1 .. Len(s) + 1
  BY <1>1, LenProperties
<1>3. 1 .. Len(s) + 1 = 1 .. Len(s) \cup {Len(s) + 1}
  BY <1>1
<1> QED BY <1>1, <1>2, <1>3 DEF ToSet

LEMMA ToSetHeadTail ==
  ASSUME NEW S, NEW s \in Seq(S), s # <<>>
  PROVE  ToSet(s) = {Head(s)} \cup ToSet(Tail(s))
<1>1. /\ Len(s) \in Nat /\ Len(s) # 0 /\ DOMAIN s = 1 .. Len(s) /\ Head(s) = s[1]
      /\ DOMAIN Tail(s) = 1 .. Len(s) - 1
      /\ \A i \in 1 .. Len(s) - 1 : Tail(s)[i] = s[i + 1]
  BY LenProperties, HeadTailProperties, EmptySeq
<1>2. \A i \in 1 .. Len(s) : i = 1 \/ i - 1 \in 1 .. Len(s) - 1
  BY <1>1
<1>4. ToSet(s) \subseteq {Head(s)} \cup ToSet(Tail(s))
  <2> SUFFICES ASSUME NEW i \in 1 .. Len(s)
               PROVE  s[i] \in {Head(s)} \cup ToSet(Tail(s))
    BY <1>1 DEF ToSet
  <2>1. CASE s[i] = Head(s)
    BY <2>1
  <2>2. CASE i # 1
    <3>1. i - 1 \in DOMAIN Tail(s) /\ Tail(s)[i - 1] = s[i]
      BY <1>1, <1>2, <2>2
    <3> QED BY <3>1 DEF ToSet
  <2> QED BY <1>1, <2>1, <2>2
<1>5. \A i \in 1 .. Len(s) - 1 : i + 1 \in DOMAIN s
  BY <1>1
<1>6. Head(s) \in ToSet(s) /\ ToSet(Tail(s)) \subseteq ToSet(s)
  BY <1>1, <1>5 DEF ToSet
<1> QED BY <1>4, <1>6

\* A message is added to the page, or is there.
LEMMA Handled ==
  ASSUME NEW S, NEW list \in Seq(S), NEW id \in S
  PROVE  /\ HandleNewMessage(list, id) \in Seq(S)
         /\ ToSet(HandleNewMessage(list, id)) = ToSet(list) \cup {id}
BY ToSetAppend DEF HandleNewMessage

LEMMA PostStatus ==
  ASSUME NEW p \in Posts, NEW st \in PostStates
  PROVE  [p EXCEPT !.st = st] \in Posts /\ [p EXCEPT !.st = st].st = st
BY DEF Posts

\* The numbers of the messages, while posts only change their state.
LEMMA SameIds ==
  ASSUME Shapes, NEW id \in Ids, NEW st \in PostStates,
         posts' = [posts EXCEPT ![id].st = st]
  PROVE  /\ Ids' = Ids /\ posts' \in Seq(Posts) /\ Len(posts') = Len(posts)
         /\ \A i \in Ids : posts'[i].st = IF i = id THEN st ELSE posts[i].st
<1>1. posts \in Seq(Posts) /\ id \in 1 .. Len(posts)
  BY DEF Shapes, Ids
<1>2. posts[id] \in Posts
  BY <1>1, ElementOfSeq
<1>4. [posts[id] EXCEPT !.st = st] \in Posts /\ [posts[id] EXCEPT !.st = st].st = st
  BY <1>2, PostStatus
<1>3. posts' = [posts EXCEPT ![id] = [posts[id] EXCEPT !.st = st]]
  BY <1>1
<1> QED BY <1>1, <1>3, <1>4, ExceptSeq DEF Ids

-----------------------------------------------------------------------------
(* The invariant is inductive *)

LEMMA ChatInitial == ChatInit => ChatInv
<1> SUFFICES ASSUME ChatInit PROVE ChatInv
  OBVIOUS
<1>1. Len(posts) = 0 /\ Ids = {} /\ <<>> \in Seq({}) /\ posts \in Seq(Posts)
  BY EmptySeq DEF ChatInit, Ids
<1>2. Shapes
  BY <1>1 DEF ChatInit, Shapes, Histories, NoHistory
<1>3. PromisesKept /\ FailureShown /\ SendsInRoom
  BY DEF ChatInit, PromisesKept, Kept, FailureShown, SendsInRoom, NoHistory
<1>4. CommittedIsSaved
  BY <1>1 DEF CommittedIsSaved
<1> QED BY <1>2, <1>3, <1>4 DEF ChatInv

\* A stream ends, in whichever process it is.
LEMMA WithoutType ==
  ASSUME Shapes, NEW v PROVE Without(v) \in [Processes -> SUBSET Viewers]
BY DEF Shapes, Without

\* What viewer v does: the rooms of the others stay as they are.
LEMMA OpenStep ==
  ASSUME ChatInv, NEW v \in Viewers, OpenRoom(v)
  PROVE  ChatInv'
<1>0. ToSet(saved) \subseteq Ids
  BY ToSetMember DEF ChatInv, Shapes
<1>1. Shapes'
  BY <1>0, EmptySeq DEF ChatInv, Shapes, OpenRoom, Set, Ids, Histories, serverVars
<1>2. PromisesKept'
  BY DEF ChatInv, Shapes, OpenRoom, Set, PromisesKept, Kept, serverVars
<1>3. FailureShown' /\ SendsInRoom' /\ CommittedIsSaved'
  BY DEF ChatInv, Shapes, OpenRoom, Set, Ids, FailureShown, SendsInRoom, CommittedIsSaved, serverVars
<1> QED BY <1>1, <1>2, <1>3 DEF ChatInv

LEMMA LeaveStep ==
  ASSUME ChatInv, NEW v \in Viewers, NEW to \in {"list", "quote"}, Leave(v, to)
  PROVE  ChatInv'
<1>1. Shapes'
  BY EmptySeq, WithoutType
  DEF ChatInv, Shapes, Leave, Set, Ids, Histories, NoHistory
<1>2. PromisesKept'
  BY DEF ChatInv, Shapes, Leave, Set, PromisesKept, Kept, NoHistory
<1>3. FailureShown' /\ SendsInRoom' /\ CommittedIsSaved'
  BY DEF ChatInv, Shapes, Leave, Set, Ids, FailureShown, SendsInRoom, CommittedIsSaved
<1> QED BY <1>1, <1>2, <1>3 DEF ChatInv

LEMMA GotRoomStep ==
  ASSUME ChatInv, NEW v \in Viewers, GotRoom(v)
  PROVE  ChatInv'
<1>1. Shapes'
  BY EmptySeq DEF ChatInv, Shapes, GotRoom, Set, Ids, Histories, serverVars, pageVars, streamVars
<1>2. PromisesKept'
  BY DEF ChatInv, Shapes, GotRoom, Set, PromisesKept, Kept, serverVars, pageVars, streamVars
<1>3. FailureShown' /\ SendsInRoom' /\ CommittedIsSaved'
  BY DEF ChatInv, Shapes, GotRoom, Set, Ids, FailureShown, SendsInRoom, CommittedIsSaved,
         serverVars, pageVars, streamVars
<1> QED BY <1>1, <1>2, <1>3 DEF ChatInv

LEMMA HistoryFailedStep ==
  ASSUME ChatInv, NEW v \in Viewers, HistoryFailed(v)
  PROVE  ChatInv'
<1>1. Shapes'
  BY EmptySeq DEF ChatInv, Shapes, HistoryFailed, Set, Ids, Histories, serverVars, pageVars, streamVars
<1>2. PromisesKept'
  BY DEF ChatInv, Shapes, HistoryFailed, Set, PromisesKept, Kept, serverVars, pageVars, streamVars
<1>3. FailureShown' /\ SendsInRoom' /\ CommittedIsSaved'
  BY DEF ChatInv, Shapes, HistoryFailed, Set, Ids, FailureShown, SendsInRoom, CommittedIsSaved,
         serverVars, pageVars, streamVars
<1> QED BY <1>1, <1>2, <1>3 DEF ChatInv

LEMMA ConnectStep ==
  ASSUME ChatInv, NEW v \in Viewers, NEW p \in Processes, Connect(v, p)
  PROVE  ChatInv'
<1>1. Shapes'
  BY EmptySeq DEF ChatInv, Shapes, Connect, Set, Ids, Histories, serverVars, pageVars, streamVars
<1>2. PromisesKept'
  BY DEF ChatInv, Shapes, Connect, Set, PromisesKept, Kept, serverVars, pageVars, streamVars
<1>3. FailureShown' /\ SendsInRoom' /\ CommittedIsSaved'
  BY DEF ChatInv, Shapes, Connect, Set, Ids, FailureShown, SendsInRoom, CommittedIsSaved,
         serverVars, pageVars, streamVars
<1> QED BY <1>1, <1>2, <1>3 DEF ChatInv

LEMMA ConnectFailsStep ==
  ASSUME ChatInv, NEW v \in Viewers, ConnectFails(v)
  PROVE  ChatInv'
<1>0. stream' \in [Viewers -> {"off", "connecting", "open", "waiting", "dead"}]
  <2>1. CASE stream' = Set(stream, v, "dead")
    BY <2>1 DEF ChatInv, Shapes, Set
  <2>2. CASE stream' = Set(stream, v, "waiting")
    BY <2>2 DEF ChatInv, Shapes, Set
  <2> QED BY <2>1, <2>2 DEF ConnectFails
<1>1. Shapes'
  BY <1>0 DEF ChatInv, Shapes, ConnectFails, Ids, serverVars, pageVars
<1>2. PromisesKept'
  BY DEF ChatInv, Shapes, ConnectFails, Set, PromisesKept, Kept, serverVars, pageVars, streamVars
<1>3. FailureShown' /\ SendsInRoom' /\ CommittedIsSaved'
  BY DEF ChatInv, Shapes, ConnectFails, Set, Ids, FailureShown, SendsInRoom, CommittedIsSaved,
         serverVars, pageVars, streamVars
<1> QED BY <1>1, <1>2, <1>3 DEF ChatInv

LEMMA ReconnectStep ==
  ASSUME ChatInv, NEW v \in Viewers, Reconnect(v)
  PROVE  ChatInv'
<1>1. Shapes'
  BY EmptySeq DEF ChatInv, Shapes, Reconnect, Set, Ids, Histories, serverVars, pageVars, streamVars
<1>2. PromisesKept'
  BY DEF ChatInv, Shapes, Reconnect, Set, PromisesKept, Kept, serverVars, pageVars, streamVars
<1>3. FailureShown' /\ SendsInRoom' /\ CommittedIsSaved'
  BY DEF ChatInv, Shapes, Reconnect, Set, Ids, FailureShown, SendsInRoom, CommittedIsSaved,
         serverVars, pageVars, streamVars
<1> QED BY <1>1, <1>2, <1>3 DEF ChatInv

LEMMA BreakStep ==
  ASSUME ChatInv, NEW v \in Viewers, Break(v)
  PROVE  ChatInv'
<1>0. stream' \in [Viewers -> {"off", "connecting", "open", "waiting", "dead"}]
  <2>1. CASE stream' = Set(stream, v, "dead")
    BY <2>1 DEF ChatInv, Shapes, Set
  <2>2. CASE stream' = Set(stream, v, "waiting")
    BY <2>2 DEF ChatInv, Shapes, Set
  <2> QED BY <2>1, <2>2 DEF Break
<1>5. subscribers' \in [Processes -> SUBSET Viewers]
  BY WithoutType DEF ChatInv, Break
<1>6. queue' \in [Viewers -> Seq(Ids)] /\ owed' \in [Viewers -> SUBSET Ids]
  BY EmptySeq DEF ChatInv, Shapes, Break, Set
<1>1. Shapes'
  BY <1>0, <1>5, <1>6 DEF ChatInv, Shapes, Break, Ids, serverVars, pageVars
<1>2. PromisesKept'
  BY DEF ChatInv, Shapes, Break, Set, PromisesKept, Kept, serverVars, pageVars, streamVars
<1>3. FailureShown' /\ SendsInRoom' /\ CommittedIsSaved'
  BY DEF ChatInv, Shapes, Break, Set, Ids, FailureShown, SendsInRoom, CommittedIsSaved,
         serverVars, pageVars, streamVars
<1> QED BY <1>1, <1>2, <1>3 DEF ChatInv

LEMMA TypeStep ==
  ASSUME ChatInv, NEW v \in Viewers, Type(v)
  PROVE  ChatInv'
<1>1. Shapes'
  BY EmptySeq DEF ChatInv, Shapes, Type, Set, Ids, Histories, serverVars, pageVars, streamVars
<1>2. PromisesKept'
  BY DEF ChatInv, Shapes, Type, Set, PromisesKept, Kept, serverVars, pageVars, streamVars
<1>3. FailureShown' /\ SendsInRoom' /\ CommittedIsSaved'
  BY DEF ChatInv, Shapes, Type, Set, Ids, FailureShown, SendsInRoom, CommittedIsSaved,
         serverVars, pageVars, streamVars
<1> QED BY <1>1, <1>2, <1>3 DEF ChatInv

LEMMA SendFailedStep ==
  ASSUME ChatInv, NEW v \in Viewers, SendFailed(v)
  PROVE  ChatInv'
<1>1. Shapes'
  BY EmptySeq DEF ChatInv, Shapes, SendFailed, Set, Ids, Histories, serverVars, pageVars, streamVars
<1>2. PromisesKept'
  BY DEF ChatInv, Shapes, SendFailed, Set, PromisesKept, Kept, serverVars, pageVars, streamVars
<1>3. FailureShown' /\ SendsInRoom' /\ CommittedIsSaved'
  BY DEF ChatInv, Shapes, SendFailed, Set, Ids, FailureShown, SendsInRoom, CommittedIsSaved,
         serverVars, pageVars, streamVars
<1> QED BY <1>1, <1>2, <1>3 DEF ChatInv

LEMMA ReadHistoryForNobodyStep ==
  ASSUME ChatInv, NEW v \in Viewers, ReadHistoryForNobody(v)
  PROVE  ChatInv'
<1>1. ToSet(saved) \subseteq Ids
  BY ToSetMember DEF ChatInv, Shapes
<1>2. Shapes'
  BY <1>1 DEF ChatInv, Shapes, ReadHistoryForNobody, MarkRead, Ids, pageVars, streamVars
<1>3. PromisesKept' /\ FailureShown' /\ SendsInRoom' /\ CommittedIsSaved'
  BY DEF ChatInv, ReadHistoryForNobody, PromisesKept, Kept, FailureShown, SendsInRoom,
         CommittedIsSaved, Ids, pageVars, streamVars
<1> QED BY <1>2, <1>3 DEF ChatInv

\* What is promised is committed, and so in the answer.
LEMMA ReadHistoryStep ==
  ASSUME ChatInv, NEW v \in Viewers, ReadHistory(v)
  PROVE  ChatInv'
<1>1. ToSet(saved) \subseteq Ids /\ saved \in Seq(Ids)
  BY ToSetMember DEF ChatInv, Shapes
<1>2. Shapes'
  BY <1>1 DEF ChatInv, Shapes, ReadHistory, MarkRead, Set, Ids, Histories, streamVars
<1>3. PromisesKept'
  BY DEF ChatInv, Shapes, ReadHistory, Set, PromisesKept, Kept, streamVars
<1>4. FailureShown' /\ SendsInRoom' /\ CommittedIsSaved'
  BY DEF ChatInv, Shapes, ReadHistory, Set, Ids, FailureShown, SendsInRoom, CommittedIsSaved, streamVars
<1> QED BY <1>2, <1>3, <1>4 DEF ChatInv

\* What is promised is in the answer, and so on the page.
LEMMA GotHistoryStep ==
  ASSUME ChatInv, NEW v \in Viewers, GotHistory(v)
  PROVE  ChatInv'
<1>1. Shapes'
  BY EmptySeq DEF ChatInv, Shapes, GotHistory, Set, Ids, Histories, serverVars, pageVars, streamVars
<1>2. PromisesKept'
  BY DEF ChatInv, Shapes, GotHistory, Set, PromisesKept, Kept, serverVars, pageVars, streamVars
<1>3. FailureShown' /\ SendsInRoom' /\ CommittedIsSaved'
  BY DEF ChatInv, Shapes, GotHistory, Set, Ids, FailureShown, SendsInRoom, CommittedIsSaved,
         serverVars, pageVars, streamVars
<1> QED BY <1>1, <1>2, <1>3 DEF ChatInv

\* What leaves the queue is on the page.
LEMMA ReceiveStep ==
  ASSUME ChatInv, NEW v \in Viewers, Receive(v)
  PROVE  ChatInv'
<1> DEFINE id == Head(queue[v])
<1>1. queue[v] \in Seq(Ids) /\ shown[v] \in Seq(Ids) /\ queue[v] # <<>>
  BY DEF ChatInv, Shapes, Receive
<1>2. id \in Ids /\ Tail(queue[v]) \in Seq(Ids)
  BY <1>1, HeadTailProperties
<1>3. ToSet(queue[v]) = {id} \cup ToSet(Tail(queue[v]))
  BY <1>1, ToSetHeadTail
<1>4. /\ HandleNewMessage(shown[v], id) \in Seq(Ids)
      /\ ToSet(HandleNewMessage(shown[v], id)) = ToSet(shown[v]) \cup {id}
  <2> DEFINE list == shown[v]
  <2>1. list \in Seq(Ids) /\ id \in Ids
    BY <1>1, <1>2
  <2> HIDE DEF id, list
  <2>2. /\ HandleNewMessage(list, id) \in Seq(Ids)
        /\ ToSet(HandleNewMessage(list, id)) = ToSet(list) \cup {id}
    BY <2>1, Handled
  <2> QED BY <2>2 DEF list
<1>5. Shapes'
  BY <1>2, <1>4 DEF ChatInv, Shapes, Receive, Set, Ids, serverVars
<1>6. FailureShown' /\ SendsInRoom' /\ CommittedIsSaved'
  BY DEF ChatInv, Receive, Ids, FailureShown, SendsInRoom, CommittedIsSaved, serverVars
<1>7. PromisesKept'
  <2> SUFFICES ASSUME NEW w \in Viewers PROVE Kept(w)'
    BY DEF PromisesKept
  <2>1. Kept(w) /\ UNCHANGED <<owed, history, saved>>
    BY DEF ChatInv, PromisesKept, Receive, serverVars
  <2>2. ToSet(shown[w]) \cup ToSet(queue[w]) = ToSet(shown'[w]) \cup ToSet(queue'[w])
    <3>1. CASE w = v
      <4>1. shown'[v] = HandleNewMessage(shown[v], id) /\ queue'[v] = Tail(queue[v])
        BY DEF ChatInv, Shapes, Receive, Set
      <4> QED BY <3>1, <4>1, <1>3, <1>4
    <3>2. CASE w # v
      BY <3>2 DEF ChatInv, Shapes, Receive, Set
    <3> QED BY <3>1, <3>2
  <2> QED BY <2>1, <2>2 DEF Kept
<1> QED BY <1>5, <1>6, <1>7 DEF ChatInv

\* A number is added: what was a sequence of numbers is one still.
LEMMA HandleSendStep ==
  ASSUME ChatInv, NEW v \in Viewers, HandleSend(v)
  PROVE  ChatInv'
<1> DEFINE new == [by |-> v, st |-> "sent"]
<1>1. new \in Posts /\ posts \in Seq(Posts) /\ posts' = Append(posts, new)
  BY DEF ChatInv, Shapes, HandleSend, Posts, PostStates
<1>2. /\ posts' \in Seq(Posts) /\ Len(posts') = Len(posts) + 1 /\ Len(posts) \in Nat
      /\ \A i \in 1 .. Len(posts) : posts'[i] = posts[i]
      /\ posts'[Len(posts) + 1] = new
  BY <1>1, AppendProperties, LenProperties
<1>3. Ids \subseteq Ids' /\ Ids' = Ids \cup {Len(posts) + 1}
  BY <1>2 DEF Ids
<1>4. Seq(Ids) \subseteq Seq(Ids')
  BY <1>3
<1>5. Histories(Ids) \subseteq Histories(Ids')
  BY <1>4 DEF Histories
<1>6. \A w \in Viewers : sending'[w] \in 0 .. Len(posts')
  BY <1>2 DEF ChatInv, Shapes, HandleSend, Set
<1>7. Shapes'
  BY <1>2, <1>3, <1>4, <1>5, <1>6 DEF ChatInv, Shapes, HandleSend, Set, streamVars
<1>8. PromisesKept' /\ FailureShown'
  BY DEF ChatInv, HandleSend, PromisesKept, Kept, FailureShown, streamVars
<1>9. CommittedIsSaved'
  BY <1>1, <1>2, <1>3 DEF ChatInv, HandleSend, CommittedIsSaved, Ids
<1>10. SendsInRoom'
  <2>1. page[v] = "room" /\ history[v].st \notin {"asked", "read"}
    BY DEF ChatInv, FailureShown, HandleSend, Conversation, ConversationDesktop, ConversationMobile,
           Loading
  <2> QED BY <2>1 DEF ChatInv, Shapes, SendsInRoom, HandleSend, Set
<1> QED BY <1>7, <1>8, <1>9, <1>10 DEF ChatInv

\* What is promised from now on is in the queue of a stream of the process.
LEMMA AnnounceStep ==
  ASSUME ChatInv, NEW id \in Ids, NEW p \in Processes, Announce(id, p)
  PROVE  ChatInv'
<1>1. /\ Ids' = Ids /\ posts' \in Seq(Posts) /\ Len(posts') = Len(posts)
      /\ \A i \in Ids : posts'[i].st = IF i = id THEN "announced" ELSE posts[i].st
  BY SameIds DEF ChatInv, Announce, PostStates
<1>2. \A v \in Viewers : /\ Append(queue[v], id) \in Seq(Ids)
                          /\ ToSet(Append(queue[v], id)) = ToSet(queue[v]) \cup {id}
  BY ToSetAppend, AppendProperties DEF ChatInv, Shapes
<1>3. \A v \in Viewers : queue'[v] \in Seq(Ids) /\ owed'[v] \subseteq Ids
  BY <1>2 DEF ChatInv, Shapes, Announce
<1>4. queue' \in [Viewers -> Seq(Ids)] /\ owed' \in [Viewers -> SUBSET Ids]
  BY <1>3 DEF Announce
<1>5. Shapes'
  BY <1>1, <1>4 DEF ChatInv, Shapes, Announce, pageVars
<1>6. FailureShown' /\ SendsInRoom'
  BY DEF ChatInv, Announce, FailureShown, SendsInRoom, pageVars
<1>7. PromisesKept'
  <2> SUFFICES ASSUME NEW w \in Viewers PROVE Kept(w)'
    BY DEF PromisesKept
  <2>1. Kept(w) /\ UNCHANGED <<shown, history, saved>>
    BY DEF ChatInv, PromisesKept, Announce, pageVars
  <2>2. CASE w \in subscribers[p] /\ history[w].st = "done"
    <3>1. queue'[w] = Append(queue[w], id) /\ owed'[w] = owed[w] \cup {id}
      BY <2>2 DEF Announce
    <3> QED BY <2>1, <2>2, <3>1, <1>2 DEF Kept
  <2>3. CASE ~(w \in subscribers[p] /\ history[w].st = "done")
    <3>1. ToSet(queue[w]) \subseteq ToSet(queue'[w]) /\ owed'[w] = owed[w]
      BY <1>2, <2>3 DEF Announce
    <3> QED BY <2>1, <3>1 DEF Kept
  <2> QED BY <2>2, <2>3
<1>8. CommittedIsSaved'
  BY <1>1 DEF ChatInv, Announce, CommittedIsSaved
<1> QED BY <1>5, <1>6, <1>7, <1>8 DEF ChatInv

LEMMA CommitMessageStep ==
  ASSUME ChatInv, NEW id \in Ids, CommitMessage(id)
  PROVE  ChatInv'
<1>1. /\ Ids' = Ids /\ posts' \in Seq(Posts) /\ Len(posts') = Len(posts)
      /\ \A i \in Ids : posts'[i].st = IF i = id THEN "committed" ELSE posts[i].st
  BY SameIds DEF ChatInv, CommitMessage, PostStates
<1>2. saved' \in Seq(Ids) /\ ToSet(saved') = ToSet(saved) \cup {id}
  BY ToSetAppend, AppendProperties DEF ChatInv, Shapes, CommitMessage
<1>3. owed' \in [Viewers -> SUBSET Ids]
  BY DEF ChatInv, Shapes, CommitMessage
<1>4. Shapes'
  BY <1>1, <1>2, <1>3 DEF ChatInv, Shapes, CommitMessage, pageVars, streamVars
<1>5. FailureShown' /\ SendsInRoom'
  BY DEF ChatInv, CommitMessage, FailureShown, SendsInRoom, pageVars
<1>6. PromisesKept'
  BY <1>2 DEF ChatInv, CommitMessage, PromisesKept, Kept, pageVars, streamVars
<1>7. CommittedIsSaved'
  BY <1>1, <1>2 DEF ChatInv, CommittedIsSaved
<1> QED BY <1>4, <1>5, <1>6, <1>7 DEF ChatInv

LEMMA RefuseMessageStep ==
  ASSUME ChatInv, NEW id \in Ids, RefuseMessage(id)
  PROVE  ChatInv'
<1>1. /\ Ids' = Ids /\ posts' \in Seq(Posts) /\ Len(posts') = Len(posts)
      /\ \A i \in Ids : posts'[i].st = IF i = id THEN "refused" ELSE posts[i].st
  BY SameIds DEF ChatInv, RefuseMessage, PostStates
<1>2. Shapes'
  BY <1>1 DEF ChatInv, Shapes, RefuseMessage, pageVars, streamVars
<1>3. PromisesKept' /\ FailureShown' /\ SendsInRoom'
  BY DEF ChatInv, RefuseMessage, PromisesKept, Kept, FailureShown, SendsInRoom, pageVars, streamVars
<1>4. CommittedIsSaved'
  BY <1>1 DEF ChatInv, RefuseMessage, CommittedIsSaved
<1> QED BY <1>2, <1>3, <1>4 DEF ChatInv

\* The answer is on the page, and no history is under way to replace it.
LEMMA SentStep ==
  ASSUME ChatInv, NEW v \in Viewers, Sent(v)
  PROVE  ChatInv'
<1>1. sending[v] \in Ids
  BY LenProperties DEF ChatInv, Shapes, Sent, Ids
<1>2. /\ Append(shown[v], sending[v]) \in Seq(Ids)
      /\ ToSet(Append(shown[v], sending[v])) = ToSet(shown[v]) \cup {sending[v]}
  BY <1>1, ToSetAppend, AppendProperties DEF ChatInv, Shapes
<1>3. \A w \in Viewers : sending'[w] \in 0 .. Len(posts)
  BY LenProperties DEF ChatInv, Shapes, Sent, Set
<1>4. Shapes'
  BY <1>1, <1>2, <1>3 DEF ChatInv, Shapes, Sent, Set, Ids, serverVars, streamVars
<1>5. FailureShown' /\ SendsInRoom' /\ CommittedIsSaved'
  BY DEF ChatInv, Shapes, Sent, Set, Ids, FailureShown, SendsInRoom, CommittedIsSaved,
         serverVars, streamVars
<1>6. PromisesKept'
  <2> SUFFICES ASSUME NEW w \in Viewers PROVE Kept(w)'
    BY DEF PromisesKept
  <2>1. Kept(w) /\ UNCHANGED <<history, queue, saved>>
    BY DEF ChatInv, PromisesKept, Sent, serverVars, streamVars
  <2>2. CASE w = v
    <3>1. history[v].st \notin {"asked", "read"}
      BY DEF ChatInv, SendsInRoom, Sent
    <3>2. owed'[v] = owed[v] \cup {sending[v]} /\ shown'[v] = Append(shown[v], sending[v])
      BY DEF ChatInv, Shapes, Sent, Set
    <3> QED BY <2>1, <2>2, <3>1, <3>2, <1>2 DEF Kept
  <2>3. CASE w # v
    <3>1. owed'[w] = owed[w] /\ shown'[w] = shown[w]
      BY <2>3 DEF ChatInv, Shapes, Sent, Set
    <3> QED BY <2>1, <3>1 DEF Kept
  <2> QED BY <2>2, <2>3
<1> QED BY <1>4, <1>5, <1>6 DEF ChatInv

LEMMA ChatStep == ChatInv /\ [ChatNext]_chatVars => ChatInv'
<1> SUFFICES ASSUME ChatInv, [ChatNext]_chatVars PROVE ChatInv'
  OBVIOUS
<1>1. CASE UNCHANGED chatVars
  BY <1>1 DEF ChatInv, Shapes, PromisesKept, Kept, FailureShown, SendsInRoom,
              CommittedIsSaved, Ids, chatVars, serverVars, pageVars, streamVars
<1>2. ASSUME NEW v \in Viewers,
             RoomListDesktop(v) \/ RoomListMobile(v) \/ GoBack(v) \/ LeaveForQuote(v)
      PROVE  ChatInv'
  BY <1>2, OpenStep, LeaveStep DEF RoomListDesktop, RoomListMobile, GoBack, LeaveForQuote
<1>3. ASSUME NEW v \in Viewers,
             \/ GotRoom(v) \/ ReadHistory(v) \/ ReadHistoryForNobody(v)
             \/ GotHistory(v) \/ HistoryFailed(v)
      PROVE  ChatInv'
  BY <1>3, GotRoomStep, ReadHistoryStep, ReadHistoryForNobodyStep, GotHistoryStep, HistoryFailedStep
<1>4. ASSUME NEW v \in Viewers,
             \/ ConnectFails(v) \/ Break(v) \/ Reconnect(v) \/ Receive(v)
             \/ \E p \in Processes : Connect(v, p)
      PROVE  ChatInv'
  BY <1>4, ConnectStep, ConnectFailsStep, BreakStep, ReconnectStep, ReceiveStep
<1>5. ASSUME NEW v \in Viewers, Type(v) \/ HandleSend(v) \/ Sent(v) \/ SendFailed(v)
      PROVE  ChatInv'
  BY <1>5, TypeStep, HandleSendStep, SentStep, SendFailedStep
<1>6. ASSUME NEW id \in Ids,
             \/ CommitMessage(id) \/ RefuseMessage(id)
             \/ \E p \in Processes : Announce(id, p)
      PROVE  ChatInv'
  BY <1>6, AnnounceStep, CommitMessageStep, RefuseMessageStep
<1> QED BY <1>1, <1>2, <1>3, <1>4, <1>5, <1>6 DEF ChatNext

LEMMA ChatInvariance == ChatSpec => []ChatInv
BY ChatInitial, ChatStep, PTL DEF ChatSpec

-----------------------------------------------------------------------------
(* The theorems *)

\* The room's state has its shape: every message a queue, a page, a history
\* or a receipt speaks of has been sent.
THEOREM ChatTypeCorrect == ChatSpec => []ChatTypeOK
<1>1. ChatInv => ChatTypeOK
  BY ToSetMember DEF ChatInv, Shapes, ChatTypeOK, Posts, PostStates, Histories
<1> QED BY <1>1, ChatInvariance, PTL

\* Whatever a page was promised it shows once its history has come, or is about
\* to: the history carries what was committed before it was read, the stream
\* what its process announced since, and the answer of a send its own message.
THEOREM AnnouncedStays == ChatSpec => []NothingLostWhileOpen
<1>1. ChatInv => NothingLostWhileOpen
  BY DEF ChatInv, PromisesKept, Kept, NothingLostWhileOpen
<1> QED BY <1>1, ChatInvariance, PTL

=============================================================================

----------------------------- MODULE QueryCache -----------------------------
(***************************************************************************)
(* One entry of the browser's query cache (React Query, a library), as the *)
(* screens use it: what it holds, whether that is still fresh, the fetch   *)
(* under way, and whether the last one failed.  Values are numbers: the    *)
(* version of what the server held when the fetch was served.              *)
(***************************************************************************)
EXTENDS Integers

NoData == -1

EntryType(values) ==
  [data : values \cup {NoData}, fresh : BOOLEAN, fetch : {"idle", "asked", "read"},
   got : values \cup {NoData}, failed : BOOLEAN]

NoEntry == [data |-> NoData, fresh |-> FALSE, fetch |-> "idle", got |-> NoData, failed |-> FALSE]

\* A fetch from the start; one under way is cancelled.
Fetch(e) == [e EXCEPT !.fetch = "asked", !.got = NoData]

\* A screen that uses the entry mounts: data that is missing or not fresh is
\* fetched, unless a fetch is under way.
Mount(e) == IF e.fresh \/ e.fetch # "idle" THEN e ELSE Fetch(e)

\* staleTime is over.
Age(e) == [e EXCEPT !.fresh = FALSE]

\* The server serves the request; the answer arrives; or the request and its
\* one retry fail, and the data stays.
Serve(e, value) == [e EXCEPT !.fetch = "read", !.got = value]
Answer(e) == [data |-> e.got, fresh |-> TRUE, fetch |-> "idle", got |-> NoData, failed |-> FALSE]
Fail(e) == [e EXCEPT !.fetch = "idle", !.got = NoData, !.failed = TRUE]

\* invalidateQueries: an entry in use is fetched again at once, another one
\* when it is next used; its fetch under way, if any, goes on.
Invalidate(e, used) == IF used THEN Fetch(Age(e)) ELSE Age(e)

\* Nothing under way and nothing to fetch: what is shown stays.
Settled(e) == e.fetch = "idle" /\ e.fresh

\* isLoading: the first fetch has not answered.
IsLoading(e) == e.data = NoData /\ e.fetch # "idle"
HasData(e) == e.data # NoData

=============================================================================

---------------------------- MODULE TraceUpload -----------------------------
(***************************************************************************)
(* How the trace of a home gets into the system: the page of a participant *)
(* asks for it (fe_upload_trace) and waits until Location.pending_trace is *)
(* cleared; the Home I/O connector sees the flag when it polls and sends   *)
(* its trace in chunks (hio_upload_trace); analysis views read the cached  *)
(* trace, or rebuild it from the StateLogs (get_trace_for_location).       *)
(* The connector is a program of its own that is not in this repository:   *)
(* it sends one chunk after the other, sends a chunk again when the answer *)
(* is lost, and gives up or tries again when it is an error. Every request *)
(* has a thread; each statement on the database or a cache is a step. Only *)
(* homes that are not templates have the flag: this is one.                *)
(***************************************************************************)
EXTENDS Naturals, SequencesExt

CONSTANTS
    Thread,     \* threads that handle the requests of the connector
    Reader,     \* threads that handle analysis views
    Chunks,     \* a trace is sent in this many chunks ...
    Size,       \* ... of this many entries
    MaxIncidents   \* bound: how often the page asks for the trace and a view
                   \* rebuilds it, and lost answers, failures, expiries, time-outs

ASSUME UploadAssumption ==
    /\ Chunks \in Nat \ {0} /\ Size \in Nat \ {0}
    /\ MaxIncidents \in Nat

VARIABLES
    log,        \* table StateLog, by id
    cache,      \* the default cache: token -> log_list
    tokens,     \* tokens that have been made
    trace,      \* the cache of traces: the log_list it was made from
    pending,    \* Location.pending_trace
    up,         \* hio_upload_trace in each thread: its local state
    reader,     \* get_trace_for_location in each thread: its local state
    conn,       \* the connector
    page,       \* the page of the participant
    incidents,
    resent,     \* history: was a request sent again, "late" or before its answer ("early")?
    finished    \* history: uploads that have cleared the flag

vars == <<log, cache, tokens, trace, pending, up, reader, conn, page, incidents,
          resent, finished>>
-----------------------------------------------------------------------------
(* An entry: the upload it came with and its place in time.                *)
Entry == Nat \X (1..Chunks * Size)
(* Slip: chunks are counted from 0.                                        *)
EntriesBeyond(u, c) == [i \in 1..Size |-> <<u, c * Size + i>>]
Entries(u, c) == [i \in 1..Size |-> <<u, (c - 1) * Size + i>>]
Whole(u) == [i \in 1..Chunks * Size |-> <<u, i>>]

(* order_by('timestamp', 'id'): the n-th row has n - 1 rows before it.      *)
RowsBefore(i) ==
    {j \in DOMAIN log : log[j][2] < log[i][2] \/ (log[j][2] = log[i][2] /\ j < i)}
RowsByTime ==
    [n \in DOMAIN log |->
        log[CHOOSE i \in DOMAIN log : Cardinality(RowsBefore(i)) = n - 1]]

Idle == [pc |-> "idle", upload |-> 0, chunk |-> 1, token |-> 0,
         log_list |-> <<>>, done |-> 0, awaited |-> FALSE]

TypeOK ==
    /\ log \in Seq(Entry)
    /\ DOMAIN cache \subseteq 1..tokens
    /\ \A k \in DOMAIN cache : cache[k] \in Seq(Entry)
    /\ trace \in [made_from : {"none", "upload", "log"}, entries : Seq(Entry)]
    /\ pending \in BOOLEAN
    /\ up \in [Thread -> [pc : {"idle", "begin", "get", "entries", "trace",
                                "delete", "save", "answer", "error"},
                          upload : Nat, chunk : 1..Chunks, token : 0..tokens,
                          log_list : Seq(Entry), done : 0..Size, awaited : BOOLEAN]]
    /\ reader \in [Reader -> [pc : {"idle", "query", "set"}, entries : Seq(Entry)]]
    /\ conn \in [state : {"idle", "sending", "waiting"}, upload : Nat,
                 chunk : 1..Chunks, token : 0..tokens]
    /\ page \in {"idle", "waiting", "proceed"}
    /\ incidents \in 0..MaxIncidents /\ resent \in {"no", "late", "early"}

Init ==
    /\ log = <<>> /\ cache = <<>> /\ tokens = 0
    /\ trace = [made_from |-> "none", entries |-> <<>>]
    /\ pending = FALSE
    /\ up = [t \in Thread |-> Idle]
    /\ reader = [r \in Reader |-> [pc |-> "idle", entries |-> <<>>]]
    /\ conn = [state |-> "idle", upload |-> 0, chunk |-> 1, token |-> 0]
    /\ page = "idle"
    /\ incidents = 0 /\ resent = "no" /\ finished = {}

Incident == incidents < MaxIncidents /\ incidents' = incidents + 1
-----------------------------------------------------------------------------
(* hio_upload_trace, one statement after the other.                        *)

PutList(k, list) ==
    [other \in DOMAIN cache \cup {k} |-> IF other = k THEN list ELSE cache[other]]
WithoutList(k) == [other \in DOMAIN cache \ {k} |-> cache[other]]

Step(t, pc) == up' = [up EXCEPT ![t].pc = pc]
Client == <<reader, conn, page, incidents, resent>>

(* The first request of an upload has no token, and is given a new one.    *)
Begin(t) ==
    /\ up[t].pc = "begin"
    /\ IF up[t].token = 0
       THEN /\ tokens' = tokens + 1
            /\ cache' = PutList(tokens + 1, <<>>)
            /\ up' = [up EXCEPT ![t].pc = "get", ![t].token = tokens + 1]
       ELSE Step(t, "get") /\ UNCHANGED <<cache, tokens>>
    /\ UNCHANGED <<log, trace, pending, Client, finished>>

(* Slip: a token that is not known any more begins an empty list.          *)
GetListOrEmpty(t) ==
    /\ up[t].pc = "get"
    /\ LET k == up[t].token
       IN  up' = [up EXCEPT ![t].pc = "entries",
                            ![t].log_list = IF k \in DOMAIN cache THEN cache[k] ELSE <<>>]
    /\ UNCHANGED <<log, cache, tokens, trace, pending, Client, finished>>

(* Slip: the view waits for the entry.                                     *)
GetListWaiting(t) ==
    /\ up[t].pc = "get" /\ up[t].token \in DOMAIN cache
    /\ up' = [up EXCEPT ![t].pc = "entries", ![t].log_list = cache[up[t].token]]
    /\ UNCHANGED <<log, cache, tokens, trace, pending, Client, finished>>

(* Without the entry, None['log_list'] raises TypeError.                   *)
GetList(t) ==
    /\ up[t].pc = "get"
    /\ LET k == up[t].token
       IN  IF k \in DOMAIN cache
           THEN up' = [up EXCEPT ![t].pc = "entries", ![t].log_list = cache[k]]
           ELSE Step(t, "error")
    /\ UNCHANGED <<log, cache, tokens, trace, pending, Client, finished>>

(* Slip: the row is not made.                                              *)
LogEntryUnlogged(t) ==
    /\ up[t].pc = "entries" /\ up[t].done < Size
    /\ LET e == Entries(up[t].upload, up[t].chunk)[up[t].done + 1]
       IN  up' = [up EXCEPT ![t].log_list = Append(@, e), ![t].done = @ + 1]
    /\ UNCHANGED <<log, cache, tokens, trace, pending, Client, finished>>

(* StateLog.objects.create, then append.                                   *)
LogEntry(t) ==
    /\ up[t].pc = "entries" /\ up[t].done < Size
    /\ LET e == Entries(up[t].upload, up[t].chunk)[up[t].done + 1]
       IN  /\ log' = Append(log, e)
           /\ up' = [up EXCEPT ![t].log_list = Append(@, e), ![t].done = @ + 1]
    /\ UNCHANGED <<cache, tokens, trace, pending, Client, finished>>

SetList(t) ==
    /\ up[t].pc = "entries" /\ up[t].done = Size
    /\ cache' = PutList(up[t].token, up[t].log_list)
    /\ Step(t, IF up[t].chunk = Chunks THEN "trace" ELSE "answer")
    /\ UNCHANGED <<log, tokens, trace, pending, Client, finished>>

(* Slip: a trace that is there stays, as with rewrite=False.               *)
SetTraceOnce(t) ==
    /\ up[t].pc = "trace"
    /\ trace' = IF trace.made_from = "none"
                THEN [made_from |-> "upload", entries |-> up[t].log_list] ELSE trace
    /\ Step(t, "delete")
    /\ UNCHANGED <<log, cache, tokens, pending, Client, finished>>

(* initialize_trace_from_log_list                                          *)
SetTrace(t) ==
    /\ up[t].pc = "trace"
    /\ trace' = [made_from |-> "upload", entries |-> up[t].log_list]
    /\ Step(t, "delete")
    /\ UNCHANGED <<log, cache, tokens, pending, Client, finished>>

DeleteList(t) ==
    /\ up[t].pc = "delete"
    /\ cache' = WithoutList(up[t].token)
    /\ Step(t, "save")
    /\ UNCHANGED <<log, tokens, trace, pending, Client, finished>>

ClearPending(t) ==
    /\ up[t].pc = "save"
    /\ pending' = FALSE
    /\ finished' = finished \cup {up[t].upload}
    /\ Step(t, "answer")
    /\ UNCHANGED <<log, cache, tokens, trace, Client>>

(* An exception: the answer is 500.                                        *)
Fail(t) ==
    /\ up[t].pc \in {"begin", "get", "entries", "trace", "delete", "save"}
    /\ Incident /\ Step(t, "error")
    /\ UNCHANGED <<log, cache, tokens, trace, pending, reader, conn, page,
                   resent, finished>>

Handle(t) == \/ Begin(t) \/ GetList(t) \/ LogEntry(t) \/ SetList(t)
             \/ SetTrace(t) \/ DeleteList(t) \/ ClearPending(t)
-----------------------------------------------------------------------------
(* The connector.                                                          *)

Server == <<log, cache, tokens, trace, pending>>

(* hio_get_rules_and_devs shows the flag.                                  *)
Poll ==
    /\ conn.state = "idle" /\ pending
    /\ conn' = [state |-> "sending", upload |-> conn.upload + 1, chunk |-> 1, token |-> 0]
    /\ UNCHANGED <<Server, up, reader, page, incidents, resent, finished>>

Send(t) ==
    /\ conn.state = "sending" /\ up[t].pc = "idle"
    /\ up' = [up EXCEPT ![t] = [Idle EXCEPT !.pc = "begin", !.awaited = TRUE,
                  !.upload = conn.upload, !.chunk = conn.chunk, !.token = conn.token]]
    /\ conn' = [conn EXCEPT !.state = "waiting"]
    /\ UNCHANGED <<Server, reader, page, incidents, resent, finished>>

Answered(t) ==
    /\ up[t].pc = "answer" /\ up[t].awaited
    /\ up' = [up EXCEPT ![t] = Idle]
    /\ conn' = IF conn.chunk = Chunks THEN [conn EXCEPT !.state = "idle"]
               ELSE [conn EXCEPT !.state = "sending", !.chunk = @ + 1, !.token = up[t].token]
    /\ UNCHANGED <<Server, reader, page, incidents, resent, finished>>

GiveUp(t) ==
    /\ up[t].pc = "error" /\ up[t].awaited
    /\ up' = [up EXCEPT ![t] = Idle]
    /\ conn' = [conn EXCEPT !.state = "idle"]
    /\ UNCHANGED <<Server, reader, page, incidents, resent, finished>>

(* After an error, or when the answer is lost, the same is sent again.     *)
Resend(t) ==
    /\ up[t].pc \in {"answer", "error"} /\ up[t].awaited
    /\ Incident /\ resent' = IF resent = "early" THEN "early" ELSE "late"
    /\ up' = [up EXCEPT ![t] = Idle]
    /\ conn' = [conn EXCEPT !.state = "sending"]
    /\ UNCHANGED <<Server, reader, page, finished>>

(* The connector has waited long enough. The view goes on all the same.    *)
TimeOut(t) ==
    /\ up[t].pc # "idle" /\ up[t].awaited
    /\ Incident /\ resent' = "early"
    /\ up' = [up EXCEPT ![t].awaited = FALSE]
    /\ conn' = [conn EXCEPT !.state = "sending"]
    /\ UNCHANGED <<Server, reader, page, finished>>

Unheard(t) ==
    /\ up[t].pc \in {"answer", "error"} /\ ~ up[t].awaited
    /\ up' = [up EXCEPT ![t] = Idle]
    /\ UNCHANGED <<Server, reader, conn, page, incidents, resent, finished>>
-----------------------------------------------------------------------------
(* The page. It asks again when the participant comes back to it.          *)

Click ==
    /\ page # "waiting" /\ Incident
    /\ page' = "waiting"
    /\ pending' = TRUE
    /\ UNCHANGED <<log, cache, tokens, trace, up, reader, conn, resent, finished>>

(* The page does not look at the devices' part of the answer.             *)
fe_get_monitored_dev_status == [pending_trace |-> pending]

Proceed ==
    /\ page = "waiting" /\ ~ fe_get_monitored_dev_status.pending_trace
    /\ page' = "proceed"
    /\ UNCHANGED <<Server, up, reader, conn, incidents, resent, finished>>

Reload ==
    /\ page = "waiting" /\ incidents < MaxIncidents
    /\ page' = "idle"
    /\ UNCHANGED <<Server, up, reader, conn, incidents, resent, finished>>
-----------------------------------------------------------------------------
(* get_trace_for_location.                                                 *)

Look(r) ==
    /\ reader[r].pc = "idle" /\ trace.made_from = "none" /\ Incident
    /\ reader' = [reader EXCEPT ![r].pc = "query"]
    /\ UNCHANGED <<Server, up, conn, page, resent, finished>>

Query(r) ==
    /\ reader[r].pc = "query"
    /\ reader' = [reader EXCEPT ![r].pc = "set", ![r].entries = RowsByTime]
    /\ UNCHANGED <<Server, up, conn, page, incidents, resent, finished>>

Rebuild(r) ==
    /\ reader[r].pc = "set"
    /\ trace' = [made_from |-> "log", entries |-> reader[r].entries]
    /\ reader' = [reader EXCEPT ![r] = [pc |-> "idle", entries |-> <<>>]]
    /\ UNCHANGED <<log, cache, tokens, pending, up, conn, page, incidents,
                   resent, finished>>
-----------------------------------------------------------------------------
(* The default cache forgets after TIMEOUT seconds; clearcache empties both.*)

Expire(k) ==
    /\ k \in DOMAIN cache /\ Incident
    /\ cache' = WithoutList(k)
    /\ UNCHANGED <<log, tokens, trace, pending, up, reader, conn, page,
                   resent, finished>>

ClearTrace ==
    /\ trace.made_from # "none" /\ Incident
    /\ trace' = [made_from |-> "none", entries |-> <<>>]
    /\ UNCHANGED <<log, cache, tokens, pending, up, reader, conn, page,
                   resent, finished>>

Connector(t) == \/ Send(t) \/ Answered(t) \/ GiveUp(t) \/ Unheard(t)
Next ==
    \/ \E t \in Thread : Handle(t) \/ Fail(t) \/ Connector(t) \/ Resend(t) \/ TimeOut(t)
    \/ \E r \in Reader : Look(r) \/ Query(r) \/ Rebuild(r)
    \/ \E k \in 1..tokens : Expire(k)
    \/ Poll \/ Click \/ Proceed \/ Reload \/ ClearTrace

Spec == Init /\ [][Next]_vars

(* Threads of the server run, the connector polls and sends, and the page  *)
(* polls.                                                                  *)
FairSpec ==
    /\ Spec /\ WF_vars(Poll) /\ WF_vars(Proceed)
    /\ \A t \in Thread : WF_vars(Handle(t)) /\ WF_vars(Answered(t) \/ GiveUp(t) \/ Unheard(t))
    /\ WF_vars(\E t \in Thread : Send(t))
-----------------------------------------------------------------------------
(* A list of chunks of one upload: the chunks are those of c.              *)
MadeOf(list, u, c) ==
    /\ Len(list) = Len(c) * Size
    /\ \A n \in DOMAIN c : \A i \in 1..Size :
          list[(n - 1) * Size + i] = Entries(u, c[n])[i]

(* What hio_upload_trace keeps in the cache and makes into a trace is      *)
(* whole chunks of one upload: a chunk that failed half-way leaves nothing *)
(* there, although its first rows are in the table.                        *)
WholeChunks(list) ==
    \E c \in [1..(Len(list) \div Size) -> 1..Chunks] : MadeOf(list, list[1][1], c)
ChunksWhole ==
    /\ \A k \in DOMAIN cache : WholeChunks(cache[k])
    /\ trace.made_from = "upload" => WholeChunks(trace.entries)

(* No entry is only in a cache: what is lost there can be rebuilt from the *)
(* StateLogs.                                                              *)
CachedIsLogged ==
    /\ \A k \in DOMAIN cache : ToSet(cache[k]) \subseteq ToSet(log)
    /\ trace.made_from = "upload" => ToSet(trace.entries) \subseteq ToSet(log)

(* The trace an upload makes has every chunk, in order, when requests are  *)
(* handled one after the other, whatever is lost, fails or expires; and    *)
(* exactly once, when none was sent again.                                 *)
EveryChunkInOrder ==
    trace.made_from = "upload" /\ resent # "early" =>
       LET u == trace.entries[1][1]
           last == Len(trace.entries) \div Size
       IN  /\ \E c \in [1..last -> 1..Chunks] :
                 /\ MadeOf(trace.entries, u, c)
                 /\ c[1] = 1 /\ c[last] = Chunks
                 /\ \A n \in 1..(last - 1) : c[n + 1] \in {c[n], c[n] + 1}
           /\ resent = "no" => trace.entries = Whole(u)

(* What a view gets of an upload is as complete as it can be.              *)
UploadComplete == ChunksWhole /\ EveryChunkInOrder

(* Unless a chunk is sent again while it is handled, the flag is cleared by*)
(* an upload that has begun since the flag was set, and views get a trace  *)
(* that covers it, or one of them was rebuilding the trace meanwhile. (When*)
(* a trace has one chunk only, sending it again starts it anew, and clears *)
(* the flag for a click after the trace was taken.)                        *)
TraceShown == IF trace.made_from = "none" THEN RowsByTime ELSE trace.entries
FlagClearedCovered ==
    [][pending /\ ~ pending' /\ (resent = "no" \/ (resent = "late" /\ Chunks # 1)) =>
          \/ trace.made_from = "log"
          \/ \E u \in (1..conn.upload) \ finished : ToSet(Whole(u)) \subseteq ToSet(TraceShown)]_vars

(* A page that waits can proceed sometime, however the upload failed.      *)
ClickAnswered == (page = "waiting") ~> (page # "waiting")
=============================================================================

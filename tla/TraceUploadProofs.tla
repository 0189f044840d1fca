-------------------------- MODULE TraceUploadProofs -------------------------
(***************************************************************************)
(* Theorems about TraceUpload, for any number of threads, chunks, clicks   *)
(* and incidents.                                                          *)
(***************************************************************************)
EXTENDS TraceUpload, SequenceTheorems, FiniteSetTheorems, WellFoundedInduction, TLAPS

(* A list of entries that all have a row in the table.                     *)
Backed(list) == list \in Seq(ToSet(log))

(* The inductive invariant: the lists that threads hold, which are what    *)
(* they will put into a cache, are backed too.                             *)
CacheBacked == \A k \in DOMAIN cache : Backed(cache[k])
ThreadsBacked ==
    /\ DOMAIN up = Thread
    /\ \A t \in Thread :
          /\ DOMAIN up[t] = {"pc", "upload", "chunk", "token", "log_list", "done", "awaited"}
          /\ Backed(up[t].log_list)
TraceBacked == trace.made_from = "upload" => Backed(trace.entries)
IInv == Backed(log) /\ CacheBacked /\ ThreadsBacked /\ TraceBacked

(* A backed list has no element that is not a row.                         *)
LEMMA BackedIsLogged ==
  ASSUME NEW list, Backed(list)
  PROVE  ToSet(list) \subseteq ToSet(log)
BY DEF Backed, ToSet

(* A new row keeps every list backed.                                      *)
LEMMA BackedGrows ==
  ASSUME Backed(log), NEW e, log' = Append(log, e)
  PROVE  /\ e \in ToSet(log)'
         /\ \A list : Backed(list) => list \in Seq(ToSet(log)')
         /\ Backed(log)'
<1> DEFINE S == ToSet(log)
           T == S \cup {e}
<1>1. log \in Seq(T) /\ e \in T
  BY SeqMonotonic DEF Backed
<1>2. ToSet(log') = T
  <2>1. /\ Append(log, e) \in Seq(T) /\ Len(Append(log, e)) = Len(log) + 1
        /\ Append(log, e)[Len(log) + 1] = e /\ Len(log) \in Nat
        /\ \A i \in 1..Len(log) : Append(log, e)[i] = log[i]
    BY <1>1
  <2>2. DOMAIN log' = 1..(Len(log) + 1) /\ DOMAIN log = 1..Len(log)
    BY <1>1, <2>1
  <2>3. QED
    BY <2>1, <2>2 DEF ToSet
<1>3. QED
  BY <1>1, <1>2, SeqMonotonic DEF Backed

(* The empty list is backed.                                               *)
LEMMA EmptyBacked == Backed(<<>>)
BY DEF Backed

(* A thread that goes on with a backed list leaves all lists backed.       *)
LEMMA ThreadBacked ==
  ASSUME ThreadsBacked, NEW t \in Thread, NEW me,
         DOMAIN me = {"pc", "upload", "chunk", "token", "log_list", "done", "awaited"},
         up' = [up EXCEPT ![t] = me], UNCHANGED log, Backed(me.log_list)
  PROVE  ThreadsBacked'
BY DEF ThreadsBacked, Backed

(* Every step of the system leaves the lists backed.                       *)
LEMMA BackedStep ==
  ASSUME IInv, [Next]_vars
  PROVE  IInv'
<1> USE DEF IInv
<1>1. CASE UNCHANGED vars
  BY <1>1 DEF vars, Backed, CacheBacked, ThreadsBacked, TraceBacked
<1>2. ASSUME NEW t \in Thread, Begin(t)
      PROVE  IInv'
  <2>1. UNCHANGED <<log, trace>>
    BY <1>2 DEF Begin
  <2>2. ThreadsBacked'
    <3>1. CASE up[t].token = 0
      BY <1>2, <2>1, <3>1 DEF Begin, ThreadsBacked, Backed
    <3>2. CASE up[t].token # 0
      BY <1>2, <2>1, <3>2 DEF Begin, Step, ThreadsBacked, Backed
    <3>3. QED
      BY <3>1, <3>2
  <2>3. CacheBacked'
    BY <1>2, EmptyBacked DEF Begin, PutList, CacheBacked, Backed
  <2>4. QED
    BY <2>1, <2>2, <2>3 DEF Backed, TraceBacked
<1>3. ASSUME NEW t \in Thread, GetList(t)
      PROVE  IInv'
  <2>1. UNCHANGED <<log, cache, trace>>
    BY <1>3 DEF GetList
  <2>2. ThreadsBacked'
    <3>1. CASE up[t].token \in DOMAIN cache
      <4> DEFINE me == [up[t] EXCEPT !.pc = "entries", !.log_list = cache[up[t].token]]
      <4>1. up' = [up EXCEPT ![t] = me]
        BY <1>3, <3>1 DEF GetList
      <4>2. DOMAIN me = DOMAIN up[t] /\ Backed(me.log_list)
        BY <3>1 DEF ThreadsBacked, CacheBacked
      <4> HIDE DEF me
      <4>3. QED
        BY <4>1, <4>2, <2>1, ThreadBacked DEF ThreadsBacked
    <3>2. CASE up[t].token \notin DOMAIN cache
      BY <1>3, <3>2, <2>1 DEF GetList, Step, ThreadsBacked, Backed
    <3>3. QED
      BY <3>1, <3>2
  <2>3. QED
    BY <2>1, <2>2 DEF CacheBacked, Backed, TraceBacked
<1>4. ASSUME NEW t \in Thread, LogEntry(t)
      PROVE  IInv'
  <2> DEFINE e == Entries(up[t].upload, up[t].chunk)[up[t].done + 1]
  <2>1. log' = Append(log, e) /\ UNCHANGED <<cache, trace>>
    BY <1>4 DEF LogEntry
  <2>2. up' = [up EXCEPT ![t].log_list = Append(@, e), ![t].done = @ + 1]
    BY <1>4 DEF LogEntry
  <2> HIDE DEF e
  <2>3. /\ e \in ToSet(log)'
        /\ \A list : Backed(list) => list \in Seq(ToSet(log)')
        /\ Backed(log)'
    BY <2>1, BackedGrows
  <2>4. CacheBacked' /\ TraceBacked'
    BY <2>1, <2>3 DEF CacheBacked, TraceBacked, Backed
  <2>5. ThreadsBacked'
    <3>1. Append(up[t].log_list, e) \in Seq(ToSet(log)')
      BY <2>3 DEF ThreadsBacked
    <3>2. QED
      BY <2>2, <2>3, <3>1 DEF ThreadsBacked, Backed
  <2>6. QED
    BY <2>3, <2>4, <2>5
<1>5. ASSUME NEW t \in Thread, SetList(t)
      PROVE  IInv'
  <2>1. ThreadsBacked' /\ UNCHANGED <<log, trace>>
    BY <1>5 DEF SetList, Step, ThreadsBacked, Backed
  <2>2. CacheBacked'
    BY <1>5 DEF SetList, PutList, CacheBacked, ThreadsBacked, Backed
  <2>3. QED
    BY <2>1, <2>2 DEF Backed, TraceBacked
<1>6. ASSUME NEW t \in Thread, SetTrace(t)
      PROVE  IInv'
  <2>1. ThreadsBacked' /\ UNCHANGED <<log, cache>>
    BY <1>6 DEF SetTrace, Step, ThreadsBacked, Backed
  <2>2. TraceBacked'
    BY <1>6 DEF SetTrace, TraceBacked, ThreadsBacked, Backed
  <2>3. QED
    BY <2>1, <2>2 DEF Backed, CacheBacked
<1>7. ASSUME NEW t \in Thread, DeleteList(t)
      PROVE  IInv'
  <2>1. ThreadsBacked' /\ UNCHANGED <<log, trace>>
    BY <1>7 DEF DeleteList, Step, ThreadsBacked, Backed
  <2>2. CacheBacked'
    BY <1>7 DEF DeleteList, WithoutList, CacheBacked, Backed
  <2>3. QED
    BY <2>1, <2>2 DEF Backed, TraceBacked
<1>8. ASSUME NEW t \in Thread, ClearPending(t) \/ Fail(t)
      PROVE  IInv'
  BY <1>8 DEF ClearPending, Fail, Step, ThreadsBacked, Backed, CacheBacked, TraceBacked
<1>9. ASSUME NEW t \in Thread, Connector(t) \/ Resend(t)
      PROVE  IInv'
  <2>1. UNCHANGED <<log, cache, trace>>
    BY <1>9 DEF Connector, Send, Answered, GiveUp, Unheard, Resend, Server
  <2>2. ThreadsBacked'
    <3>1. DOMAIN Idle = {"pc", "upload", "chunk", "token", "log_list", "done", "awaited"}
          /\ Idle.log_list = <<>>
      BY DEF Idle
    <3>2. CASE Send(t)
      <4> DEFINE me == [Idle EXCEPT !.pc = "begin", !.awaited = TRUE,
                  !.upload = conn.upload, !.chunk = conn.chunk, !.token = conn.token]
      <4>1. up' = [up EXCEPT ![t] = me]
        BY <3>2 DEF Send
      <4>2. DOMAIN me = DOMAIN Idle /\ me.log_list = <<>>
        BY DEF Idle
      <4> HIDE DEF me
      <4>3. QED
        BY <4>1, <4>2, <3>1, <2>1, EmptyBacked, ThreadBacked
    <3>3. CASE ~ Send(t)
      <4>1. up' = [up EXCEPT ![t] = Idle]
        BY <1>9, <3>3 DEF Connector, Answered, GiveUp, Unheard, Resend
      <4>2. QED
        BY <4>1, <3>1, <2>1, EmptyBacked, ThreadBacked
    <3>4. QED
      BY <3>2, <3>3
  <2>3. QED
    BY <2>1, <2>2 DEF CacheBacked, Backed, TraceBacked
<1>10. ASSUME NEW t \in Thread, TimeOut(t)
       PROVE  IInv'
  BY <1>10 DEF TimeOut, Server, ThreadsBacked, Backed, CacheBacked, TraceBacked
<1>11. ASSUME NEW r \in Reader, Look(r) \/ Query(r) \/ Rebuild(r)
       PROVE  IInv'
  <2>1. UNCHANGED <<log, cache, up>>
    BY <1>11 DEF Look, Query, Rebuild, Server
  <2>2. TraceBacked'
    BY <1>11 DEF Look, Query, Rebuild, Server, TraceBacked, Backed
  <2>3. QED
    BY <2>1, <2>2 DEF CacheBacked, Backed, ThreadsBacked
<1>12. ASSUME NEW k \in 1..tokens, Expire(k)
       PROVE  IInv'
  BY <1>12 DEF Expire, WithoutList, CacheBacked, Backed, ThreadsBacked, TraceBacked
<1>13. CASE ClearTrace
  BY <1>13 DEF ClearTrace, CacheBacked, Backed, ThreadsBacked, TraceBacked
<1>14. CASE Poll \/ Click \/ Proceed \/ Reload
  BY <1>14 DEF Poll, Click, Proceed, Reload, Server, CacheBacked, Backed,
               ThreadsBacked, TraceBacked
<1>15. QED
  BY <1>1, <1>2, <1>3, <1>4, <1>5, <1>6, <1>7, <1>8, <1>9, <1>10, <1>11, <1>12,
     <1>13, <1>14 DEF Next, Handle

(* At first there are no lists.                                            *)
LEMMA InitBacked == Init => IInv
<1> SUFFICES ASSUME Init PROVE IInv
  OBVIOUS
<1>1. DOMAIN cache = {} /\ ThreadsBacked
  BY EmptyBacked DEF Init, ThreadsBacked, Idle
<1>2. Backed(log) /\ TraceBacked
  BY EmptyBacked DEF Init, TraceBacked
<1>3. QED
  BY <1>1, <1>2 DEF IInv, CacheBacked

(* No entry is only in a cache (the rows are created before the lists are  *)
(* stored), however the requests of any number of threads interleave.      *)
THEOREM NothingOnlyCached == Spec => []CachedIsLogged
<1>1. IInv => CachedIsLogged
  BY BackedIsLogged DEF IInv, CacheBacked, TraceBacked, CachedIsLogged
<1>2. QED
  BY <1>1, InitBacked, BackedStep, PTL DEF Spec
-----------------------------------------------------------------------------
(* The rows in the order of time.                                          *)

(* The numbers below n, of which there are n, are those from 1 to n less 1.*)
LEMMA NumbersBelow ==
  ASSUME NEW n \in Nat
  PROVE  /\ IsFiniteSet(0..(n - 1)) /\ Cardinality(0..(n - 1)) = n
         /\ \A m \in 0..(n - 1) : m + 1 \in 1..n /\ (m + 1) - 1 = m
<1>1. IsFiniteSet(0..(n - 1)) /\ Cardinality(0..(n - 1)) = IF 0 > n - 1 THEN 0 ELSE (n - 1) - 0 + 1
  BY FS_Interval
<1>2. QED
  BY <1>1

(* The rows before a row: of two rows, one is before the other.            *)
LEMMA RowRanks ==
  ASSUME NEW list \in Seq(Entry), NEW before,
         before = [i \in DOMAIN list |->
            {j \in DOMAIN list : list[j][2] < list[i][2] \/ (list[j][2] = list[i][2] /\ j < i)}]
  PROVE  /\ \A i \in DOMAIN list : Cardinality(before[i]) \in 0..(Len(list) - 1)
         /\ \A i, j \in DOMAIN list : Cardinality(before[i]) = Cardinality(before[j]) => i = j
         /\ \A n \in DOMAIN list : \E i \in DOMAIN list : Cardinality(before[i]) = n - 1
<1> DEFINE D == 1..Len(list)
<1>1. /\ Len(list) \in Nat /\ DOMAIN list = D
      /\ IsFiniteSet(D) /\ Cardinality(D) = Len(list)
  BY FS_Interval
<1>2. \A i \in D : list[i][2] \in Nat
  <2>1. \A i \in D : list[i] \in Entry
    BY <1>1
  <2>2. Chunks * Size \in Nat
    BY UploadAssumption
  <2>3. \A e \in Entry : e[2] \in Nat
    BY <2>2 DEF Entry
  <2>4. QED
    BY <2>1, <2>3
<1>3. ASSUME NEW i \in D
      PROVE  /\ IsFiniteSet(before[i]) /\ Cardinality(before[i]) \in 0..(Len(list) - 1)
  <2>1. before[i] \subseteq D \ {i} /\ before[i] \subseteq D
    BY <1>1, <1>2
  <2>2. IsFiniteSet(D \ {i}) /\ Cardinality(D \ {i}) = Len(list) - 1
    BY <1>1, FS_RemoveElement
  <2> DEFINE others == D \ {i}
  <2>3. IsFiniteSet(before[i]) /\ Cardinality(before[i]) <= Len(list) - 1
    <3>1. before[i] \in SUBSET others /\ IsFiniteSet(others) /\ Cardinality(others) = Len(list) - 1
      BY <2>1, <2>2
    <3> HIDE DEF others
    <3>2. QED
      BY <3>1, FS_Subset
  <2>4. Cardinality(before[i]) \in Nat
    BY <2>3, FS_CardinalityType
  <2>5. QED
    BY <1>1, <2>3, <2>4
<1>4. ASSUME NEW i \in D, NEW j \in D, i \in before[j]
      PROVE  Cardinality(before[i]) # Cardinality(before[j])
  <2>1. before[i] \subseteq before[j] /\ i \notin before[i]
    BY <1>1, <1>2, <1>4
  <2>2. QED
    BY <1>3, <1>4, <2>1, FS_Subset
<1>5. ASSUME NEW i \in D, NEW j \in D, i # j
      PROVE  i \in before[j] \/ j \in before[i]
  <2>1. list[i][2] \in Nat /\ list[j][2] \in Nat
    BY <1>2
  <2>2. QED
    BY <1>1, <1>5, <2>1
<1>6. \A i, j \in D : Cardinality(before[i]) = Cardinality(before[j]) => i = j
  BY <1>4, <1>5
<1> DEFINE rank == [i \in D |-> Cardinality(before[i])]
<1>7. rank \in Injection(D, 0..(Len(list) - 1))
  BY <1>3, <1>6 DEF Injection, IsInjective
<1>8. IsFiniteSet(0..(Len(list) - 1)) /\ Cardinality(0..(Len(list) - 1)) = Len(list)
  BY <1>1, NumbersBelow
<1> HIDE DEF rank
<1>9. rank \in Surjection(D, 0..(Len(list) - 1))
  BY <1>1, <1>7, <1>8, FS_Injection
<1>10. ASSUME NEW n \in D PROVE \E i \in D : Cardinality(before[i]) = n - 1
  <2>1. n - 1 \in 0..(Len(list) - 1)
    BY <1>1
  <2>2. PICK i \in D : rank[i] = n - 1
    BY <1>9, <2>1 DEF Surjection
  <2>3. QED
    BY <2>2 DEF rank
<1>11. QED
  BY <1>1, <1>3, <1>6, <1>10

(* A view gets every row, and nothing else.                                *)
LEMMA RowsByTimeRows ==
  ASSUME log \in Seq(Entry)
  PROVE  RowsByTime \in Seq(Entry) /\ ToSet(log) \subseteq ToSet(RowsByTime)
<1> DEFINE before == [i \in DOMAIN log |-> RowsBefore(i)]
           row(n) == CHOOSE i \in DOMAIN log : Cardinality(RowsBefore(i)) = n - 1
<1>1. /\ \A i \in DOMAIN log : Cardinality(RowsBefore(i)) \in 0..(Len(log) - 1)
      /\ \A i, j \in DOMAIN log : Cardinality(RowsBefore(i)) = Cardinality(RowsBefore(j)) => i = j
      /\ \A n \in DOMAIN log : \E i \in DOMAIN log : Cardinality(RowsBefore(i)) = n - 1
  <2>1. before = [i \in DOMAIN log |->
            {j \in DOMAIN log : log[j][2] < log[i][2] \/ (log[j][2] = log[i][2] /\ j < i)}]
    BY DEF RowsBefore
  <2>2. \A i \in DOMAIN log : before[i] = RowsBefore(i)
    OBVIOUS
  <2> HIDE DEF before
  <2>3. /\ \A i \in DOMAIN log : Cardinality(before[i]) \in 0..(Len(log) - 1)
        /\ \A i, j \in DOMAIN log : Cardinality(before[i]) = Cardinality(before[j]) => i = j
        /\ \A n \in DOMAIN log : \E i \in DOMAIN log : Cardinality(before[i]) = n - 1
    BY <2>1, RowRanks
  <2>4. QED
    BY <2>2, <2>3
<1>2. Len(log) \in Nat /\ DOMAIN log = 1..Len(log) /\ \A i \in DOMAIN log : log[i] \in Entry
  OBVIOUS
<1>3. \A n \in DOMAIN log : row(n) \in DOMAIN log /\ Cardinality(RowsBefore(row(n))) = n - 1
  BY <1>1
<1>4. RowsByTime = [n \in DOMAIN log |-> log[row(n)]]
  BY DEF RowsByTime
<1> HIDE DEF row
<1>5. RowsByTime \in [1..Len(log) -> Entry]
  BY <1>2, <1>3, <1>4
<1>6. RowsByTime \in Seq(Entry)
  BY <1>2, <1>5
<1>7. ASSUME NEW i \in DOMAIN log PROVE \E n \in DOMAIN RowsByTime : RowsByTime[n] = log[i]
  <2> DEFINE n == Cardinality(RowsBefore(i)) + 1
  <2>1. n \in DOMAIN log /\ n - 1 = Cardinality(RowsBefore(i))
    BY <1>1, <1>2, NumbersBelow
  <2>2. row(n) = i
    BY <1>1, <1>3, <2>1
  <2>3. DOMAIN RowsByTime = DOMAIN log
    BY <1>4
  <2>4. QED
    BY <1>4, <2>1, <2>2, <2>3
<1>8. QED
  BY <1>6, <1>7 DEF ToSet
-----------------------------------------------------------------------------
(* Types.                                                                  *)

(* A thread's local state, when n tokens have been made.                   *)
UpType(n) ==
    [pc : {"idle", "begin", "get", "entries", "trace", "delete", "save", "answer", "error"},
     upload : Nat, chunk : 1..Chunks, token : 0..n,
     log_list : Seq(Entry), done : 0..Size, awaited : BOOLEAN]

(* A thread has a token when it looks for its list, and makes a trace of it*)
(* in the last chunk only.                                                 *)
Kept(me) ==
    /\ me.pc \in {"get", "entries", "trace", "delete", "save", "answer"} => me.token # 0
    /\ me.pc \in {"trace", "delete", "save"} => me.chunk = Chunks
    /\ me.pc = "idle" => me.token = 0 /\ ~ me.awaited
Tokens == TypeOK /\ tokens \in Nat /\ \A t \in Thread : Kept(up[t])

(* Products of numbers.                                                    *)
LEMMA Products ==
  ASSUME NEW m \in Nat, NEW n \in Nat, NEW s \in Nat, m <= n
  PROVE  /\ m * s \in Nat /\ m * s <= n * s
         /\ (m + 1) * s = m * s + s
<1>1. (m + 1) * s = m * s + s /\ m * s \in Nat /\ n * s \in Nat
  OBVIOUS
<1>2. n * s = m * s + (n - m) * s /\ (n - m) * s \in Nat
  OBVIOUS
<1>3. QED
  BY <1>1, <1>2

(* The tokens there are, when there is one more.                           *)
LEMMA MoreTokens ==
  ASSUME NEW n \in Nat
  PROVE  /\ 0..n \subseteq 0..(n + 1) /\ 1..n \subseteq 1..(n + 1)
         /\ n + 1 \in 0..(n + 1) /\ n + 1 \in 1..(n + 1) /\ n + 1 \notin 0..n
         /\ n + 1 \in Nat \ {0}
         /\ 0 \in 0..n /\ \A k \in 0..n : k # 0 => k \in 1..n
         /\ UpType(n) \subseteq UpType(n + 1)
<1>1. /\ 0..n \subseteq 0..(n + 1) /\ 1..n \subseteq 1..(n + 1)
      /\ n + 1 \in 0..(n + 1) /\ n + 1 \in 1..(n + 1) /\ n + 1 \notin 0..n
      /\ n + 1 \in Nat \ {0}
      /\ 0 \in 0..n /\ \A k \in 0..n : k # 0 => k \in 1..n
  OBVIOUS
<1>2. UpType(n) \subseteq UpType(n + 1)
  BY <1>1 DEF UpType
<1>3. QED
  BY <1>1, <1>2

(* The numbers of chunks and entries.                                      *)
LEMMA ChunkNumbers ==
  /\ 1 \in 1..Chunks /\ Chunks \in 1..Chunks /\ 0 \in 0..Size
  /\ \A c \in 1..Chunks : c # Chunks => c + 1 \in 1..Chunks
  /\ \A d \in 0..Size : d < Size => d + 1 \in 0..Size /\ d + 1 \in 1..Size
  BY UploadAssumption

(* An entry of a chunk.                                                    *)
LEMMA EntriesTyped ==
  ASSUME NEW u \in Nat, NEW c \in 1..Chunks, NEW i \in 1..Size
  PROVE  Entries(u, c)[i] = <<u, (c - 1) * Size + i>> /\ Entries(u, c)[i] \in Entry
<1>1. c - 1 \in Nat /\ Size \in Nat /\ Chunks \in Nat /\ c \in Nat /\ c <= Chunks
  BY UploadAssumption
<1>2. (c - 1) * Size + Size = c * Size /\ (c - 1) * Size \in Nat
  <2>1. ((c - 1) + 1) * Size = (c - 1) * Size + Size /\ (c - 1) * Size \in Nat
    BY <1>1, Products
  <2>2. (c - 1) + 1 = c
    BY <1>1
  <2>3. QED
    BY <2>1, <2>2
<1>3. c * Size <= Chunks * Size /\ Chunks * Size \in Nat /\ c * Size \in Nat
  BY <1>1, Products
<1>4. (c - 1) * Size + i \in 1..Chunks * Size
  BY <1>1, <1>2, <1>3
<1>5. QED
  BY <1>4 DEF Entries, Entry

(* A thread that has nothing to do.                                        *)
LEMMA IdleTyped == ASSUME NEW n \in Nat PROVE Idle \in UpType(n) /\ Kept(Idle)
<1>1. <<>> \in Seq(Entry)
  OBVIOUS
<1>2. QED
  BY <1>1, ChunkNumbers, MoreTokens DEF Idle, UpType, Kept

(* The types of the threads, one by one.                                   *)
LEMMA ThreadTyped ==
  ASSUME Tokens, NEW t \in Thread
  PROVE  up[t] \in UpType(tokens) /\ Kept(up[t]) /\ up \in [Thread -> UpType(tokens)]
BY DEF Tokens, TypeOK, UpType

(* A thread that takes a step.                                             *)
LEMMA ThreadStepTyped ==
  ASSUME Tokens, NEW t \in Thread, tokens' \in {tokens, tokens + 1},
         NEW me \in UpType(tokens'), Kept(me), up' = [up EXCEPT ![t] = me]
  PROVE  /\ up' \in [Thread -> UpType(tokens')] /\ \A s \in Thread : Kept(up'[s])
         /\ up'[t] = me /\ \A s \in Thread \ {t} : up'[s] = up[s]
<1>1. tokens \in Nat /\ up \in [Thread -> UpType(tokens)] /\ \A s \in Thread : Kept(up[s])
  BY ThreadTyped DEF Tokens
<1>2. UpType(tokens) \subseteq UpType(tokens')
  BY <1>1, MoreTokens
<1> DEFINE T == UpType(tokens')
<1>3. up \in [Thread -> T] /\ me \in T
  BY <1>1, <1>2
<1> HIDE DEF T
<1>4. up' \in [Thread -> T]
  BY <1>3
<1>5. QED
  BY <1>1, <1>3, <1>4 DEF T

(* What types the rest has, and that they suffice.                         *)
RestTyped ==
    /\ pending \in BOOLEAN
    /\ reader \in [Reader -> [pc : {"idle", "query", "set"}, entries : Seq(Entry)]]
    /\ conn \in [state : {"idle", "sending", "waiting"}, upload : Nat,
                 chunk : 1..Chunks, token : 0..tokens]
    /\ page \in {"idle", "waiting", "proceed"}
    /\ incidents \in 0..MaxIncidents /\ resent \in {"no", "late", "early"}
CacheTyped == DOMAIN cache \subseteq 1..tokens /\ \A k \in DOMAIN cache : cache[k] \in Seq(Entry)
TraceTyped == trace \in [made_from : {"none", "upload", "log"}, entries : Seq(Entry)]
LEMMA TypedParts ==
  Tokens <=> /\ log \in Seq(Entry) /\ CacheTyped /\ TraceTyped /\ RestTyped /\ tokens \in Nat
             /\ up \in [Thread -> UpType(tokens)] /\ \A s \in Thread : Kept(up[s])
BY DEF Tokens, TypeOK, RestTyped, CacheTyped, TraceTyped, UpType

(* They suffice after a step, too.                                         *)
LEMMA TypedAfter ==
  ASSUME log' \in Seq(Entry), CacheTyped', TraceTyped', RestTyped', tokens' \in Nat,
         up' \in [Thread -> UpType(tokens')], \A s \in Thread : Kept(up'[s])
  PROVE  Tokens'
BY DEF Tokens, TypeOK, RestTyped, CacheTyped, TraceTyped, UpType

(* What the rest is when only the threads, the tables and caches change.   *)
LEMMA RestStays ==
  ASSUME Tokens, UNCHANGED <<pending, reader, conn, page, resent>>,
         incidents' = incidents \/ Incident, tokens' \in {tokens, tokens + 1}
  PROVE  RestTyped' /\ tokens' \in Nat
<1>1. tokens \in Nat /\ RestTyped
  BY TypedParts
<1>2. incidents' \in 0..MaxIncidents
  BY <1>1, UploadAssumption DEF RestTyped, Incident
<1>3. conn \in [state : {"idle", "sending", "waiting"}, upload : Nat,
                chunk : 1..Chunks, token : 0..tokens']
  <2>1. 0..tokens \subseteq 0..tokens'
    BY <1>1, MoreTokens
  <2>2. QED
    BY <1>1, <2>1 DEF RestTyped
<1>4. QED
  BY <1>1, <1>3, <1>2 DEF RestTyped

(* A step of a thread that makes no token.                                 *)
LEMMA HandlingTyped ==
  ASSUME Tokens, UNCHANGED <<tokens, pending, reader, conn, page, resent>>,
         incidents' = incidents \/ Incident,
         log' \in Seq(Entry), CacheTyped', TraceTyped',
         NEW t \in Thread, NEW me \in UpType(tokens), Kept(me), up' = [up EXCEPT ![t] = me]
  PROVE  Tokens'
<1>1. RestTyped' /\ tokens' \in Nat
  BY RestStays
<1>2. up' \in [Thread -> UpType(tokens')] /\ \A s \in Thread : Kept(up'[s])
  BY ThreadStepTyped
<1>3. QED
  BY <1>1, <1>2, TypedAfter

(* The connector takes a step, and a thread is given something to do, goes *)
(* on unheard or is done.                                                  *)
LEMMA ConnectingTyped ==
  ASSUME Tokens, UNCHANGED <<log, cache, trace, tokens, pending, reader, page>>,
         incidents' = incidents \/ Incident, resent' \in {resent, "late", "early"},
         conn' \in [state : {"idle", "sending", "waiting"}, upload : Nat,
                    chunk : 1..Chunks, token : 0..tokens],
         NEW t \in Thread, NEW me \in UpType(tokens), Kept(me), up' = [up EXCEPT ![t] = me]
  PROVE  Tokens'
<1>1. log \in Seq(Entry) /\ CacheTyped /\ TraceTyped /\ RestTyped /\ tokens \in Nat
  BY TypedParts
<1>2. incidents' \in 0..MaxIncidents
  BY <1>1, UploadAssumption DEF RestTyped, Incident
<1>3. RestTyped'
  BY <1>1, <1>2 DEF RestTyped
<1>4. up' \in [Thread -> UpType(tokens')] /\ \A s \in Thread : Kept(up'[s])
  BY ThreadStepTyped
<1>5. log' \in Seq(Entry) /\ CacheTyped' /\ TraceTyped'
  BY <1>1 DEF CacheTyped, TraceTyped
<1>6. QED
  BY <1>1, <1>3, <1>4, <1>5, TypedAfter

(* A new token.                                                            *)
LEMMA BeginTyped ==
  ASSUME Tokens, NEW t \in Thread, Begin(t)
  PROVE  Tokens'
<1>0. /\ log \in Seq(Entry) /\ CacheTyped /\ TraceTyped /\ tokens \in Nat
      /\ up \in [Thread -> UpType(tokens)] /\ up[t] \in UpType(tokens) /\ Kept(up[t])
  BY TypedParts, ThreadTyped
<1>1. UNCHANGED <<log, trace, pending, reader, conn, page, incidents, resent>>
  BY DEF Begin, Client
<1>2. CASE up[t].token = 0
  <2> DEFINE me == [up[t] EXCEPT !.pc = "get", !.token = tokens + 1]
  <2>1. tokens' = tokens + 1 /\ cache' = PutList(tokens + 1, <<>>)
        /\ up' = [up EXCEPT ![t] = me]
    BY <1>2 DEF Begin
  <2>2. me \in UpType(tokens') /\ Kept(me)
    BY <1>0, <2>1, MoreTokens DEF UpType, Kept
  <2> HIDE DEF me
  <2>3. up' \in [Thread -> UpType(tokens')] /\ \A s \in Thread : Kept(up'[s])
    BY <2>1, <2>2, ThreadStepTyped
  <2>4. CacheTyped'
    <3>1. 1..tokens \subseteq 1..tokens' /\ tokens + 1 \in 1..tokens' /\ <<>> \in Seq(Entry)
      BY <1>0, <2>1, MoreTokens
    <3>2. QED
      BY <1>0, <2>1, <3>1 DEF CacheTyped, PutList
  <2>5. RestTyped' /\ tokens' \in Nat
    BY <1>1, <2>1, RestStays
  <2>6. log' \in Seq(Entry) /\ TraceTyped'
    BY <1>0, <1>1 DEF TraceTyped
  <2>7. QED
    BY <2>3, <2>4, <2>5, <2>6, TypedAfter
<1>3. CASE up[t].token # 0
  <2> DEFINE me == [up[t] EXCEPT !.pc = "get"]
  <2>1. UNCHANGED <<cache, tokens>> /\ up' = [up EXCEPT ![t] = me]
    BY <1>3 DEF Begin, Step
  <2>2. me \in UpType(tokens) /\ Kept(me)
    BY <1>0, <1>3 DEF UpType, Kept
  <2> HIDE DEF me
  <2>3. log' \in Seq(Entry) /\ TraceTyped' /\ CacheTyped'
    BY <1>0, <1>1, <2>1 DEF TraceTyped, CacheTyped
  <2>4. QED
    BY <1>1, <2>1, <2>2, <2>3, HandlingTyped
<1>4. QED
  BY <1>2, <1>3

(* The list, its entries, and the trace.                                   *)
LEMMA HandleTyped ==
  ASSUME Tokens, NEW t \in Thread, Handle(t) \/ Fail(t)
  PROVE  Tokens'
<1>0. /\ log \in Seq(Entry) /\ CacheTyped /\ TraceTyped /\ tokens \in Nat
      /\ up \in [Thread -> UpType(tokens)] /\ up[t] \in UpType(tokens) /\ Kept(up[t])
  BY TypedParts, ThreadTyped
<1>1. CASE GetList(t)
  <2> DEFINE me == IF up[t].token \in DOMAIN cache
                   THEN [up[t] EXCEPT !.pc = "entries", !.log_list = cache[up[t].token]]
                   ELSE [up[t] EXCEPT !.pc = "error"]
  <2>1. /\ UNCHANGED <<log, cache, tokens, trace, pending, reader, conn, page, incidents, resent>>
        /\ up' = [up EXCEPT ![t] = me]
    BY <1>1 DEF GetList, Step, Client
  <2>2. me \in UpType(tokens) /\ Kept(me)
    <3>1. up[t].token # 0
      BY <1>0, <1>1 DEF Kept, GetList
    <3>2. CASE up[t].token \in DOMAIN cache
      <4>1. cache[up[t].token] \in Seq(Entry)
        BY <1>0, <3>2 DEF CacheTyped
      <4>2. me = [up[t] EXCEPT !.pc = "entries", !.log_list = cache[up[t].token]]
        BY <3>2
      <4> HIDE DEF me
      <4>3. QED
        BY <1>0, <3>1, <4>1, <4>2 DEF UpType, Kept
    <3>3. CASE up[t].token \notin DOMAIN cache
      <4>1. me = [up[t] EXCEPT !.pc = "error"]
        BY <3>3
      <4> HIDE DEF me
      <4>2. QED
        BY <1>0, <4>1 DEF UpType, Kept
    <3>4. QED
      BY <3>2, <3>3
  <2> HIDE DEF me
  <2>3. log' \in Seq(Entry) /\ TraceTyped' /\ CacheTyped'
    BY <1>0, <2>1 DEF TraceTyped, CacheTyped
  <2>4. QED
    BY <2>1, <2>2, <2>3, HandlingTyped
<1>2. CASE LogEntry(t)
  <2> DEFINE e == Entries(up[t].upload, up[t].chunk)[up[t].done + 1]
             me == [up[t] EXCEPT !.log_list = Append(@, e), !.done = @ + 1]
  <2>1. /\ UNCHANGED <<cache, tokens, trace, pending, reader, conn, page, incidents, resent>>
        /\ log' = Append(log, e) /\ up' = [up EXCEPT ![t] = me]
    BY <1>2 DEF LogEntry, Client
  <2>2. up[t].done + 1 \in 0..Size /\ up[t].done + 1 \in 1..Size
    BY <1>0, <1>2, ChunkNumbers DEF UpType, LogEntry
  <2>3. e \in Entry
    BY <1>0, <2>2, EntriesTyped DEF UpType
  <2> HIDE DEF e
  <2>4. me \in UpType(tokens) /\ Kept(me)
    <3> DEFINE list == Append(up[t].log_list, e)
               done == up[t].done + 1
    <3>1. list \in Seq(Entry) /\ done \in 0..Size
      BY <1>0, <2>2, <2>3 DEF UpType
    <3>2. me = [up[t] EXCEPT !.log_list = list, !.done = done]
      OBVIOUS
    <3> HIDE DEF me, list, done
    <3>3. QED
      BY <1>0, <3>1, <3>2 DEF UpType, Kept
  <2> HIDE DEF me
  <2>5. log' \in Seq(Entry) /\ TraceTyped' /\ CacheTyped'
    BY <1>0, <2>1, <2>3 DEF TraceTyped, CacheTyped
  <2>6. QED
    BY <2>1, <2>4, <2>5, HandlingTyped
<1>3. CASE SetList(t)
  <2> DEFINE me == [up[t] EXCEPT !.pc = IF up[t].chunk = Chunks THEN "trace" ELSE "answer"]
  <2>1. /\ UNCHANGED <<log, tokens, trace, pending, reader, conn, page, incidents, resent>>
        /\ cache' = PutList(up[t].token, up[t].log_list) /\ up' = [up EXCEPT ![t] = me]
    BY <1>3 DEF SetList, Step, Client
  <2>2. me \in UpType(tokens) /\ Kept(me)
    BY <1>0, <1>3 DEF UpType, Kept, SetList
  <2>3. up[t].token \in 1..tokens /\ up[t].log_list \in Seq(Entry)
    BY <1>0, <1>3, MoreTokens DEF UpType, Kept, SetList
  <2> HIDE DEF me
  <2>4. log' \in Seq(Entry) /\ TraceTyped'
    BY <1>0, <2>1 DEF TraceTyped
  <2>5. CacheTyped'
    BY <1>0, <2>1, <2>3 DEF CacheTyped, PutList
  <2>6. QED
    BY <2>1, <2>2, <2>4, <2>5, HandlingTyped
<1>4. CASE SetTrace(t)
  <2> DEFINE me == [up[t] EXCEPT !.pc = "delete"]
  <2>1. /\ UNCHANGED <<log, cache, tokens, pending, reader, conn, page, incidents, resent>>
        /\ trace' = [made_from |-> "upload", entries |-> up[t].log_list]
        /\ up' = [up EXCEPT ![t] = me]
    BY <1>4 DEF SetTrace, Step, Client
  <2>2. me \in UpType(tokens) /\ Kept(me) /\ up[t].log_list \in Seq(Entry)
    BY <1>0, <1>4 DEF UpType, Kept, SetTrace
  <2> HIDE DEF me
  <2>3. log' \in Seq(Entry) /\ TraceTyped' /\ CacheTyped'
    BY <1>0, <2>1, <2>2 DEF TraceTyped, CacheTyped
  <2>4. QED
    BY <2>1, <2>2, <2>3, HandlingTyped
<1>5. CASE DeleteList(t)
  <2> DEFINE me == [up[t] EXCEPT !.pc = "save"]
  <2>1. /\ UNCHANGED <<log, trace, tokens, pending, reader, conn, page, incidents, resent>>
        /\ cache' = WithoutList(up[t].token) /\ up' = [up EXCEPT ![t] = me]
    BY <1>5 DEF DeleteList, Step, Client
  <2>2. me \in UpType(tokens) /\ Kept(me)
    BY <1>0, <1>5 DEF UpType, Kept, DeleteList
  <2> HIDE DEF me
  <2>3. log' \in Seq(Entry) /\ TraceTyped' /\ CacheTyped'
    BY <1>0, <2>1 DEF TraceTyped, CacheTyped, WithoutList
  <2>4. QED
    BY <2>1, <2>2, <2>3, HandlingTyped
<1>6. CASE ClearPending(t)
  <2> DEFINE me == [up[t] EXCEPT !.pc = "answer"]
  <2>1. /\ UNCHANGED <<log, cache, trace, tokens, reader, conn, page, incidents, resent>>
        /\ pending' = FALSE /\ up' = [up EXCEPT ![t] = me]
    BY <1>6 DEF ClearPending, Step, Client
  <2>2. me \in UpType(tokens) /\ Kept(me)
    BY <1>0, <1>6 DEF UpType, Kept, ClearPending
  <2> HIDE DEF me
  <2>3. log' \in Seq(Entry) /\ TraceTyped' /\ CacheTyped'
    BY <1>0, <2>1 DEF TraceTyped, CacheTyped
  <2>4. tokens \in {tokens, tokens + 1}
    OBVIOUS
  <2>5. up' \in [Thread -> UpType(tokens')] /\ \A s \in Thread : Kept(up'[s])
    BY <2>1, <2>2, ThreadStepTyped
  <2>6. RestTyped' /\ tokens' \in Nat
    BY <1>0, <2>1, TypedParts DEF RestTyped
  <2>7. QED
    BY <2>3, <2>5, <2>6, TypedAfter
<1>7. CASE Fail(t)
  <2> DEFINE me == [up[t] EXCEPT !.pc = "error"]
  <2>1. /\ UNCHANGED <<log, cache, trace, tokens, pending, reader, conn, page, resent>>
        /\ Incident /\ up' = [up EXCEPT ![t] = me]
    BY <1>7 DEF Fail, Step
  <2>2. me \in UpType(tokens) /\ Kept(me)
    BY <1>0 DEF UpType, Kept
  <2> HIDE DEF me
  <2>3. log' \in Seq(Entry) /\ TraceTyped' /\ CacheTyped'
    BY <1>0, <2>1 DEF TraceTyped, CacheTyped
  <2>4. QED
    BY <2>1, <2>2, <2>3, HandlingTyped
<1>8. QED
  BY <1>1, <1>2, <1>3, <1>4, <1>5, <1>6, <1>7, BeginTyped DEF Handle

(* The connector.                                                          *)
LEMMA ConnectorTyped ==
  ASSUME Tokens, NEW t \in Thread, Connector(t) \/ Resend(t) \/ TimeOut(t)
  PROVE  Tokens'
<1> DEFINE ConnType == [state : {"idle", "sending", "waiting"}, upload : Nat,
                        chunk : 1..Chunks, token : 0..tokens]
<1>0. /\ tokens \in Nat /\ up[t] \in UpType(tokens) /\ Kept(up[t]) /\ conn \in ConnType
  BY TypedParts, ThreadTyped DEF RestTyped
<1>1. CASE Send(t)
  <2> DEFINE me == [Idle EXCEPT !.pc = "begin", !.awaited = TRUE,
                  !.upload = conn.upload, !.chunk = conn.chunk, !.token = conn.token]
  <2>1. /\ UNCHANGED <<log, cache, trace, tokens, pending, reader, page, incidents, resent>>
        /\ conn' = [conn EXCEPT !.state = "waiting"] /\ up' = [up EXCEPT ![t] = me]
    BY <1>1 DEF Send, Server
  <2>2. me \in UpType(tokens) /\ Kept(me)
    BY <1>0, IdleTyped DEF UpType, Kept
  <2> HIDE DEF me
  <2>3. conn' \in ConnType
    BY <1>0, <2>1
  <2>4. QED
    BY <2>1, <2>2, <2>3, ConnectingTyped
<1>2. CASE Answered(t)
  <2>1. /\ UNCHANGED <<log, cache, trace, tokens, pending, reader, page, incidents, resent>>
        /\ up' = [up EXCEPT ![t] = Idle]
        /\ conn' = IF conn.chunk = Chunks THEN [conn EXCEPT !.state = "idle"]
               ELSE [conn EXCEPT !.state = "sending", !.chunk = @ + 1, !.token = up[t].token]
    BY <1>2 DEF Answered, Server
  <2>2. conn.chunk # Chunks => conn.chunk + 1 \in 1..Chunks
    BY <1>0, ChunkNumbers
  <2>3. conn' \in ConnType
    <3>1. up[t].token \in 0..tokens
      BY <1>0 DEF UpType
    <3>2. QED
      BY <1>0, <2>1, <2>2, <3>1
  <2>4. QED
    BY <1>0, <2>1, <2>3, IdleTyped, ConnectingTyped
<1>3. CASE GiveUp(t) \/ Unheard(t) \/ Resend(t)
  <2>1. /\ UNCHANGED <<log, cache, trace, tokens, pending, reader, page>>
        /\ incidents' = incidents \/ Incident
        /\ resent' \in {resent, "late", "early"}
        /\ up' = [up EXCEPT ![t] = Idle]
        /\ \/ conn' = [conn EXCEPT !.state = "idle"]
           \/ conn' = [conn EXCEPT !.state = "sending"]
           \/ conn' = conn
    BY <1>3 DEF GiveUp, Unheard, Resend, Server
  <2>2. conn' \in ConnType
    BY <1>0, <2>1
  <2>3. QED
    BY <1>0, <2>1, <2>2, IdleTyped, ConnectingTyped
<1>4. CASE TimeOut(t)
  <2> DEFINE me == [up[t] EXCEPT !.awaited = FALSE]
  <2>1. /\ UNCHANGED <<log, cache, trace, tokens, pending, reader, page>>
        /\ Incident /\ resent' = "early"
        /\ conn' = [conn EXCEPT !.state = "sending"] /\ up' = [up EXCEPT ![t] = me]
    BY <1>4 DEF TimeOut, Server
  <2>2. me \in UpType(tokens) /\ Kept(me)
    BY <1>0 DEF UpType, Kept
  <2> HIDE DEF me
  <2>3. conn' \in ConnType
    BY <1>0, <2>1
  <2>4. QED
    BY <2>1, <2>2, <2>3, ConnectingTyped
<1>5. QED
  BY <1>1, <1>2, <1>3, <1>4 DEF Connector

(* The views, the page and the caches.                                     *)
LEMMA OthersTyped ==
  ASSUME Tokens, \/ \E r \in Reader : Look(r) \/ Query(r) \/ Rebuild(r)
                 \/ \E k \in 1..tokens : Expire(k)
                 \/ Poll \/ Click \/ Proceed \/ Reload \/ ClearTrace
  PROVE  Tokens'
<1>0. /\ log \in Seq(Entry) /\ CacheTyped /\ TraceTyped /\ RestTyped /\ tokens \in Nat
      /\ up \in [Thread -> UpType(tokens)] /\ \A s \in Thread : Kept(up[s])
  BY TypedParts
<1>1. Incident => incidents' \in 0..MaxIncidents
  BY <1>0, UploadAssumption DEF RestTyped, Incident
<1>2. 0 \in 0..tokens /\ <<>> \in Seq(Entry)
  BY <1>0, MoreTokens
<1>3. ASSUME NEW r \in Reader, Look(r) \/ Query(r) \/ Rebuild(r)
      PROVE  Tokens'
  <2>1. UNCHANGED <<log, cache, tokens, pending, up, conn, page, resent>>
        /\ (incidents' = incidents \/ Incident)
    BY <1>3 DEF Look, Query, Rebuild, Server
  <2>2. incidents' \in 0..MaxIncidents
    BY <1>0, <1>1, <2>1 DEF RestTyped
  <2>3. reader[r] \in [pc : {"idle", "query", "set"}, entries : Seq(Entry)]
    BY <1>0 DEF RestTyped
  <2>4. reader' \in [Reader -> [pc : {"idle", "query", "set"}, entries : Seq(Entry)]]
    <3>1. CASE Look(r)
      BY <1>0, <2>3, <3>1 DEF Look, RestTyped
    <3>2. CASE Query(r)
      <4>1. RowsByTime \in Seq(Entry)
        BY <1>0, RowsByTimeRows
      <4>2. reader' = [reader EXCEPT ![r] = [reader[r] EXCEPT !.pc = "set", !.entries = RowsByTime]]
        BY <1>0, <3>2 DEF Query, RestTyped
      <4> DEFINE new == [reader[r] EXCEPT !.pc = "set", !.entries = RowsByTime]
      <4>3. new \in [pc : {"idle", "query", "set"}, entries : Seq(Entry)]
        BY <2>3, <4>1
      <4> HIDE DEF new
      <4>4. QED
        BY <1>0, <4>2, <4>3 DEF RestTyped, new
    <3>3. CASE Rebuild(r)
      BY <1>0, <1>2, <3>3 DEF Rebuild, RestTyped
    <3>4. QED
      BY <1>3, <3>1, <3>2, <3>3
  <2>5. TraceTyped'
    BY <1>0, <1>3, <2>3 DEF Look, Query, Rebuild, Server, TraceTyped
  <2>6. RestTyped' /\ CacheTyped' /\ log' \in Seq(Entry)
    BY <1>0, <2>1, <2>2, <2>4 DEF RestTyped, CacheTyped
  <2>7. QED
    BY <1>0, <2>1, <2>5, <2>6, TypedAfter
<1>4. ASSUME NEW k \in 1..tokens, Expire(k)
      PROVE  Tokens'
  <2>1. UNCHANGED <<log, tokens, trace, pending, up, reader, conn, page, resent>> /\ Incident
        /\ cache' = WithoutList(k)
    BY <1>4 DEF Expire
  <2>2. RestTyped' /\ TraceTyped' /\ CacheTyped' /\ log' \in Seq(Entry)
    BY <1>0, <1>1, <2>1 DEF RestTyped, TraceTyped, CacheTyped, WithoutList
  <2>3. QED
    BY <1>0, <2>1, <2>2, TypedAfter
<1>5. CASE ClearTrace
  <2>1. UNCHANGED <<log, cache, tokens, pending, up, reader, conn, page, resent>> /\ Incident
        /\ trace' = [made_from |-> "none", entries |-> <<>>]
    BY <1>5 DEF ClearTrace
  <2>2. RestTyped' /\ TraceTyped' /\ CacheTyped' /\ log' \in Seq(Entry)
    BY <1>0, <1>1, <1>2, <2>1 DEF RestTyped, TraceTyped, CacheTyped
  <2>3. QED
    BY <1>0, <2>1, <2>2, TypedAfter
<1>6. CASE Poll
  <2>1. UNCHANGED <<log, cache, tokens, trace, pending, up, reader, page, incidents, resent>>
        /\ conn' = [state |-> "sending", upload |-> conn.upload + 1, chunk |-> 1, token |-> 0]
    BY <1>6 DEF Poll, Server
  <2>2. RestTyped' /\ TraceTyped' /\ CacheTyped' /\ log' \in Seq(Entry)
    BY <1>0, <1>2, <2>1, ChunkNumbers DEF RestTyped, TraceTyped, CacheTyped
  <2>3. QED
    BY <1>0, <2>1, <2>2, TypedAfter
<1>7. CASE Click \/ Proceed \/ Reload
  <2>1. UNCHANGED <<log, cache, tokens, trace, up, reader, conn, resent>>
        /\ (incidents' = incidents \/ Incident) /\ (pending' = pending \/ pending' = TRUE)
        /\ page' \in {"idle", "waiting", "proceed"}
    BY <1>7 DEF Click, Proceed, Reload, Server
  <2>2. RestTyped' /\ TraceTyped' /\ CacheTyped' /\ log' \in Seq(Entry)
    BY <1>0, <1>1, <2>1 DEF RestTyped, TraceTyped, CacheTyped
  <2>3. QED
    BY <1>0, <2>1, <2>2, TypedAfter
<1>8. QED
  BY <1>3, <1>4, <1>5, <1>6, <1>7

(* Every step of the system keeps the types.                               *)
LEMMA TypedStep ==
  ASSUME Tokens, [Next]_vars
  PROVE  Tokens'
<1>1. CASE UNCHANGED vars
  <2>1. /\ log \in Seq(Entry) /\ CacheTyped /\ TraceTyped /\ RestTyped /\ tokens \in Nat
        /\ up \in [Thread -> UpType(tokens)] /\ \A s \in Thread : Kept(up[s])
    BY TypedParts
  <2>2. log' \in Seq(Entry) /\ CacheTyped' /\ TraceTyped' /\ RestTyped'
    BY <1>1, <2>1 DEF vars, CacheTyped, TraceTyped, RestTyped
  <2>3. UNCHANGED <<tokens, up>>
    BY <1>1 DEF vars
  <2>4. QED
    BY <2>1, <2>2, <2>3, TypedAfter
<1>2. CASE Next
  BY <1>2, HandleTyped, ConnectorTyped, OthersTyped, Zenon DEF Next
<1>3. QED
  BY <1>1, <1>2

(* The initial state has its types.                                        *)
LEMMA InitTyped == Init => Tokens
<1> SUFFICES ASSUME Init PROVE Tokens
  OBVIOUS
<1>1. <<>> \in Seq(Entry) /\ DOMAIN <<>> = {} /\ 0 \in Nat /\ 0 \in 0..0 /\ 0 \in 0..MaxIncidents
  BY UploadAssumption
<1>2. Idle \in UpType(0) /\ Kept(Idle)
  BY IdleTyped
<1>3. RestTyped
  BY <1>1, ChunkNumbers DEF Init, RestTyped
<1>4. CacheTyped /\ TraceTyped
  BY <1>1 DEF Init, CacheTyped, TraceTyped
<1>5. up \in [Thread -> UpType(tokens)] /\ \A s \in Thread : Kept(up[s])
  BY <1>2 DEF Init
<1>6. QED
  BY <1>1, <1>3, <1>4, <1>5, TypedParts DEF Init

(* The tables, the caches and every participant have their types: the lists*)
(* that are cached, shown or rebuilt are lists of entries, and no request  *)
(* has a token that was not made (TypeOK).                                 *)
THEOREM TypeCorrect == Spec => []TypeOK
<1>1. Tokens => TypeOK
  BY DEF Tokens
<1>2. QED
  BY <1>1, InitTyped, TypedStep, PTL DEF Spec
-----------------------------------------------------------------------------
(* The connector and the thread it waits for.                              *)

(* The thread it waits for handles what it has sent.                       *)
Expected(me) ==
    me.awaited =>
        /\ conn.state = "waiting" /\ me.upload = conn.upload /\ me.chunk = conn.chunk
        /\ conn.token # 0 => me.token = conn.token
        /\ me.pc = "begin" => me.token = conn.token
Waits ==
    /\ \A t \in Thread : Expected(up[t])
    /\ \A s, t \in Thread : up[s].awaited /\ up[t].awaited => s = t
    /\ (conn.token = 0) <=> (conn.chunk = 1)
    /\ conn.state # "idle" => conn.upload # 0

OthersSame(t) == DOMAIN up' = Thread /\ \A s \in Thread \ {t} : up'[s] = up[s]

(* What the statements of a request leave alone.                           *)
LEMMA HandleSteps ==
  ASSUME Tokens, NEW t \in Thread, Handle(t) \/ Fail(t)
  PROVE  /\ UNCHANGED <<conn, resent>> /\ OthersSame(t)
         /\ up[t].pc \notin {"idle", "answer", "error"}
         /\ up'[t].pc \notin {"idle", "begin"}
         /\ up'[t].upload = up[t].upload /\ up'[t].chunk = up[t].chunk
         /\ up'[t].awaited = up[t].awaited
         /\ \/ up'[t].token = up[t].token /\ tokens' = tokens
            \/ /\ Begin(t) /\ up[t].token = 0
               /\ up'[t].token = tokens + 1 /\ tokens' = tokens + 1
<1>0. up[t] \in UpType(tokens) /\ DOMAIN up = Thread
  BY ThreadTyped
<1>1. CASE Begin(t) /\ up[t].token = 0
  BY <1>0, <1>1 DEF Begin, Client, UpType, OthersSame
<1>2. CASE Begin(t) /\ up[t].token # 0
  BY <1>0, <1>2 DEF Begin, Step, Client, UpType, OthersSame
<1>3. CASE GetList(t)
  BY <1>0, <1>3 DEF GetList, Step, Client, UpType, OthersSame
<1>4. CASE LogEntry(t)
  BY <1>0, <1>4 DEF LogEntry, Step, Client, UpType, OthersSame
<1>5. CASE SetList(t)
  BY <1>0, <1>5 DEF SetList, Step, Client, UpType, OthersSame
<1>6. CASE SetTrace(t)
  BY <1>0, <1>6 DEF SetTrace, Step, Client, UpType, OthersSame
<1>7. CASE DeleteList(t)
  BY <1>0, <1>7 DEF DeleteList, Step, Client, UpType, OthersSame
<1>8. CASE ClearPending(t)
  BY <1>0, <1>8 DEF ClearPending, Step, Client, UpType, OthersSame
<1>9. CASE Fail(t)
  BY <1>0, <1>9 DEF Fail, Step, UpType, OthersSame
<1>10. QED
  BY <1>1, <1>2, <1>3, <1>4, <1>5, <1>6, <1>7, <1>8, <1>9 DEF Handle

(* What the connector does with a thread.                                  *)
LEMMA ConnectorSteps ==
  ASSUME Tokens, NEW t \in Thread, Connector(t) \/ Resend(t) \/ TimeOut(t)
  PROVE  /\ UNCHANGED <<log, cache, trace, tokens, pending, finished>> /\ OthersSame(t)
         /\ \/ /\ Send(t) /\ conn' = [conn EXCEPT !.state = "waiting"] /\ conn.state = "sending"
               /\ up[t].pc = "idle" /\ up'[t].pc = "begin" /\ up'[t].awaited
               /\ up'[t].upload = conn.upload /\ up'[t].chunk = conn.chunk
               /\ up'[t].token = conn.token /\ resent' = resent
            \/ /\ ~ Send(t) /\ ~ TimeOut(t) /\ up[t].pc \in {"answer", "error"} /\ up'[t] = Idle
               /\ Answered(t) \/ GiveUp(t) \/ Unheard(t) \/ Resend(t)
            \/ /\ TimeOut(t) /\ up[t].pc # "idle" /\ up'[t] = [up[t] EXCEPT !.awaited = FALSE]
               /\ up[t].awaited
               /\ conn' = [conn EXCEPT !.state = "sending"] /\ resent' = "early"
<1>0. up[t] \in UpType(tokens) /\ DOMAIN up = Thread
  BY ThreadTyped
<1>1. CASE Send(t)
  <2> DEFINE me == [Idle EXCEPT !.pc = "begin", !.awaited = TRUE,
                  !.upload = conn.upload, !.chunk = conn.chunk, !.token = conn.token]
  <2>1. /\ up' = [up EXCEPT ![t] = me] /\ UNCHANGED <<log, cache, trace, tokens, pending, finished, resent>>
        /\ conn.state = "sending" /\ up[t].pc = "idle" /\ conn' = [conn EXCEPT !.state = "waiting"]
    BY <1>1 DEF Send, Server
  <2>2. me.pc = "begin" /\ me.awaited /\ me.upload = conn.upload /\ me.chunk = conn.chunk
        /\ me.token = conn.token
    BY DEF Idle
  <2> HIDE DEF me
  <2>3. up'[t] = me /\ OthersSame(t)
    BY <1>0, <2>1 DEF OthersSame
  <2>4. QED
    BY <1>1, <2>1, <2>2, <2>3
<1>2. CASE (Connector(t) \/ Resend(t)) /\ ~ Send(t)
  <2>1. /\ up' = [up EXCEPT ![t] = Idle] /\ UNCHANGED <<log, cache, trace, tokens, pending, finished>>
        /\ up[t].pc \in {"answer", "error"} /\ (Answered(t) \/ GiveUp(t) \/ Unheard(t) \/ Resend(t))
    BY <1>2 DEF Connector, Answered, GiveUp, Unheard, Resend, Server
  <2>2. up'[t] = Idle /\ OthersSame(t)
    BY <1>0, <2>1 DEF OthersSame
  <2>3. up'[t].pc # up[t].pc
    BY <2>1, <2>2 DEF Idle
  <2>4. ~ TimeOut(t)
    BY <1>0, <2>3 DEF TimeOut, UpType
  <2>5. QED
    BY <1>2, <2>1, <2>2, <2>4
<1>3. CASE TimeOut(t)
  BY <1>0, <1>3 DEF TimeOut, OthersSame, Server
<1>4. QED
  BY <1>1, <1>2, <1>3

(* What the views, the page and the caches leave alone.                    *)
LEMMA OthersSteps ==
  ASSUME \/ \E r \in Reader : Look(r) \/ Query(r) \/ Rebuild(r)
         \/ \E k \in 1..tokens : Expire(k)
         \/ Poll \/ Click \/ Proceed \/ Reload \/ ClearTrace
  PROVE  /\ UNCHANGED <<log, tokens, up, resent, finished>>
         /\ \/ conn' = conn
            \/ Poll /\ conn.state = "idle" /\ UNCHANGED <<cache, trace>>
               /\ conn' = [state |-> "sending", upload |-> conn.upload + 1, chunk |-> 1, token |-> 0]
         /\ cache' = cache \/ \E k \in DOMAIN cache : cache' = WithoutList(k)
         /\ \/ trace' = trace \/ trace'.made_from # "upload"
         /\ ~ (pending /\ ~ pending')
<1>1. ASSUME NEW r \in Reader, Look(r) \/ Query(r)
      PROVE  UNCHANGED <<log, tokens, up, resent, finished, conn, cache, trace, pending>>
  BY <1>1 DEF Look, Query, Server
<1>2. ASSUME NEW r \in Reader, Rebuild(r)
      PROVE  UNCHANGED <<log, tokens, up, resent, finished, conn, cache, pending>>
             /\ trace'.made_from = "log"
  BY <1>2 DEF Rebuild
<1>3. ASSUME NEW k \in 1..tokens, Expire(k)
      PROVE  UNCHANGED <<log, tokens, up, resent, finished, conn, trace, pending>>
             /\ k \in DOMAIN cache /\ cache' = WithoutList(k)
  BY <1>3 DEF Expire
<1>4. CASE Poll
  BY <1>4 DEF Poll, Server
<1>5. CASE Click \/ Proceed \/ Reload
  BY <1>5 DEF Click, Proceed, Reload, Server
<1>6. CASE ClearTrace
  BY <1>6 DEF ClearTrace
<1>7. QED
  BY <1>1, <1>2, <1>3, <1>4, <1>5, <1>6, Zenon

(* Every step keeps them together.                                         *)
LEMMA WaitsStep ==
  ASSUME Tokens, Waits, [Next]_vars
  PROVE  Waits'
<1>0. /\ conn \in [state : {"idle", "sending", "waiting"}, upload : Nat,
                   chunk : 1..Chunks, token : 0..tokens]
      /\ \A s \in Thread : up[s] \in UpType(tokens) /\ Kept(up[s])
      /\ DOMAIN up = Thread /\ Chunks \in Nat
  BY TypedParts, ThreadTyped, UploadAssumption DEF RestTyped
<1>1. CASE UNCHANGED vars
  BY <1>1 DEF vars, Waits, Expected
<1>2. ASSUME NEW t \in Thread, Handle(t) \/ Fail(t)
      PROVE  Waits'
  <2>1. /\ conn' = conn /\ OthersSame(t) /\ up'[t].pc # "begin"
        /\ up'[t].upload = up[t].upload /\ up'[t].chunk = up[t].chunk
        /\ up'[t].awaited = up[t].awaited
        /\ up'[t].token = up[t].token \/ (up[t].pc = "begin" /\ up[t].token = 0)
    BY <1>2, HandleSteps DEF Begin
  <2>2. Expected(up[t])'
    BY <2>1 DEF Waits, Expected
  <2>3. QED
    BY <2>1, <2>2 DEF Waits, Expected, OthersSame
<1>3. ASSUME NEW t \in Thread, Connector(t) \/ Resend(t) \/ TimeOut(t)
      PROVE  Waits'
  <2>1. OthersSame(t)
    BY <1>3, ConnectorSteps
  <2>2. CASE Send(t)
    <3>1. /\ conn' = [conn EXCEPT !.state = "waiting"] /\ conn.state = "sending"
          /\ up'[t].upload = conn.upload /\ up'[t].chunk = conn.chunk /\ up'[t].token = conn.token
      BY <1>3, <2>2, ConnectorSteps DEF Send
    <3>2. \A s \in Thread : ~ up[s].awaited
      BY <3>1 DEF Waits, Expected
    <3>3. conn'.token = conn.token /\ conn'.chunk = conn.chunk /\ conn'.upload = conn.upload
          /\ conn'.state = "waiting"
      BY <1>0, <3>1
    <3>4. Expected(up[t])'
      BY <3>1, <3>3 DEF Expected
    <3>5. QED
      BY <2>1, <3>1, <3>2, <3>3, <3>4 DEF Waits, Expected, OthersSame
  <2>3. CASE Unheard(t)
    <3>1. ~ Send(t)
      BY <2>3 DEF Unheard, Send
    <3>2. up'[t] = Idle /\ conn' = conn
      BY <1>0, <2>3 DEF Unheard
    <3>3. ~ Idle.awaited
      BY DEF Idle
    <3>4. QED
      BY <2>1, <3>2, <3>3 DEF Waits, Expected, OthersSame
  <2>4. CASE Answered(t) \/ GiveUp(t) \/ Resend(t) \/ TimeOut(t)
    <3>1. up[t].awaited
      BY <2>4 DEF Answered, GiveUp, Resend, TimeOut
    <3>2. ~ up'[t].awaited
      BY <1>0, <2>4 DEF Answered, GiveUp, Resend, TimeOut, Idle, UpType
    <3>3. \A s \in Thread : ~ up'[s].awaited
      BY <2>1, <3>1, <3>2 DEF Waits, OthersSame
    <3>4. /\ (conn'.token = 0) <=> (conn'.chunk = 1)
          /\ conn'.upload = conn.upload
      <4>1. CASE Answered(t) /\ conn.chunk # Chunks
        <5>1. conn' = [conn EXCEPT !.state = "sending", !.chunk = @ + 1, !.token = up[t].token]
              /\ up[t].pc = "answer"
          BY <4>1 DEF Answered
        <5>2. up[t].token # 0 /\ conn.chunk + 1 # 1
          BY <1>0, <5>1 DEF Kept
        <5>3. QED
          BY <1>0, <5>1, <5>2
      <4>2. CASE ~ (Answered(t) /\ conn.chunk # Chunks)
        <5>1. conn' = [conn EXCEPT !.state = "idle"] \/ conn' = [conn EXCEPT !.state = "sending"]
          BY <2>4, <4>2 DEF Answered, GiveUp, Resend, TimeOut
        <5>2. QED
          BY <1>0, <5>1 DEF Waits
      <4>3. QED
        BY <4>1, <4>2
    <3>5. conn.state # "idle"
      BY <3>1 DEF Waits, Expected
    <3>6. QED
      BY <3>3, <3>4, <3>5 DEF Waits, Expected
  <2>5. QED
    BY <1>3, <2>2, <2>3, <2>4 DEF Connector
<1>4. CASE \/ \E r \in Reader : Look(r) \/ Query(r) \/ Rebuild(r)
           \/ \E k \in 1..tokens : Expire(k)
           \/ Poll \/ Click \/ Proceed \/ Reload \/ ClearTrace
  <2>1. /\ up' = up
        /\ \/ conn' = conn
           \/ /\ conn.state = "idle"
              /\ conn' = [state |-> "sending", upload |-> conn.upload + 1, chunk |-> 1, token |-> 0]
    BY <1>4, OthersSteps
  <2>2. CASE conn' = conn
    BY <2>1, <2>2 DEF Waits, Expected
  <2>3. CASE conn' # conn
    <3>1. \A s \in Thread : ~ up[s].awaited
      BY <2>1, <2>3 DEF Waits, Expected
    <3>2. conn'.upload # 0 /\ conn'.chunk = 1 /\ conn'.token = 0
      BY <1>0, <2>1, <2>3
    <3>3. QED
      BY <2>1, <3>1, <3>2 DEF Waits, Expected
  <2>4. QED
    BY <2>2, <2>3
<1>5. QED
  BY <1>1, <1>2, <1>3, <1>4, Zenon DEF Next
-----------------------------------------------------------------------------
(* Lists of chunks.                                                        *)

(* Whole blocks of s elements: how many there are ...                      *)
LEMMA Blocks == ASSUME NEW m \in Nat, NEW s \in Nat \ {0} PROVE (m * s) \div s = m
BY SMT

(* ... and the block and the place in it that every index has.             *)
LEMMA BlockOf ==
  ASSUME NEW m \in Nat, NEW s \in Nat \ {0}, NEW k \in 1..(m * s)
  PROVE  \E n \in 1..m : \E i \in 1..s : k = (n - 1) * s + i
<1> DEFINE q == (k - 1) \div s
           r == (k - 1) % s
<1>1. m * s \in Nat /\ k \in Nat /\ k - 1 \in Nat /\ k <= m * s
  OBVIOUS
<1>2. k - 1 = q * s + r /\ r \in 0..(s - 1) /\ q \in Nat
  BY <1>1, SMT
<1> HIDE DEF q, r
<1>3. q + 1 <= m
  <2>1. SUFFICES ASSUME m <= q PROVE FALSE
    BY <1>2
  <2>2. m * s <= q * s
    BY <1>2, <2>1, Products
  <2>3. q * s \in Nat
    BY <1>2
  <2>4. QED
    BY <1>1, <1>2, <2>2, <2>3
<1>4. q + 1 \in 1..m /\ r + 1 \in 1..s /\ (q + 1) - 1 = q
  BY <1>2, <1>3
<1>5. k = ((q + 1) - 1) * s + (r + 1)
  <2>1. q * s \in Nat
    BY <1>2
  <2>2. QED
    BY <1>1, <1>2, <1>4, <2>1
<1>6. QED
  BY <1>4, <1>5

(* Every such index is there.                                              *)
LEMMA BlockIn ==
  ASSUME NEW m \in Nat, NEW s \in Nat \ {0}, NEW n \in 1..m, NEW i \in 1..s
  PROVE  (n - 1) * s + i \in 1..(m * s)
<1>1. n - 1 \in Nat /\ n \in Nat /\ n <= m /\ s \in Nat
  OBVIOUS
<1>2. n * s <= m * s /\ (n - 1) * s \in Nat /\ m * s \in Nat /\ n * s \in Nat
  BY <1>1, Products
<1>3. ((n - 1) + 1) * s = (n - 1) * s + s /\ (n - 1) + 1 = n
  BY <1>1, Products
<1>4. (n - 1) * s + s = n * s
  BY <1>3
<1>5. QED
  BY <1>2, <1>4

(* The first entries of a chunk.                                           *)
First(u, c, n) == [i \in 1..n |-> Entries(u, c)[i]]

(* They are entries.                                                       *)
LEMMA FirstTyped ==
  ASSUME NEW u \in Nat, NEW c \in 1..Chunks, NEW n \in 0..Size
  PROVE  First(u, c, n) \in Seq(Entry) /\ Len(First(u, c, n)) = n
<1>1. n \in Nat /\ \A i \in 1..n : i \in 1..Size
  BY UploadAssumption
<1>2. \A i \in 1..n : Entries(u, c)[i] \in Entry
  BY <1>1, EntriesTyped
<1>3. First(u, c, n) \in [1..n -> Entry]
  BY <1>2 DEF First
<1>4. QED
  BY <1>1, <1>3

(* A thread begins with none of them ...                                   *)
LEMMA FirstNone == ASSUME NEW u, NEW c, NEW base \in Seq(Entry) PROVE base \o First(u, c, 0) = base
<1>1. First(u, c, 0) = <<>>
  BY DEF First
<1>2. QED
  BY <1>1

(* ... and appends them one by one.                                        *)
LEMMA FirstMore ==
  ASSUME NEW u \in Nat, NEW c \in 1..Chunks, NEW n \in 0..Size, n < Size, NEW base \in Seq(Entry)
  PROVE  Append(base \o First(u, c, n), Entries(u, c)[n + 1]) = base \o First(u, c, n + 1)
<1> DEFINE e == Entries(u, c)[n + 1]
           F == First(u, c, n)
           G == First(u, c, n + 1)
<1>1. n + 1 \in 0..Size /\ n + 1 \in 1..Size /\ n \in Nat
  BY ChunkNumbers
<1>2. /\ F \in Seq(Entry) /\ Len(F) = n /\ G \in Seq(Entry) /\ Len(G) = n + 1
      /\ e \in Entry
  BY <1>1, FirstTyped, EntriesTyped
<1>3. \A i \in 1..n : G[i] = F[i]
  BY <1>1 DEF First
<1>4. G[n + 1] = e
  BY <1>1 DEF First
<1> HIDE DEF e, F, G
<1>5. G = Append(F, e)
  <2>1. Append(F, e) \in Seq(Entry) /\ Len(Append(F, e)) = n + 1
    BY <1>1, <1>2
  <2>2. \A i \in 1..(n + 1) : Append(F, e)[i] = G[i]
    BY <1>1, <1>2, <1>3, <1>4
  <2>3. QED
    BY <1>2, <2>1, <2>2, SeqEqual
<1>6. Append(base \o F, e) = base \o Append(F, e)
  <2> DEFINE left == Append(base \o F, e)
             right == base \o Append(F, e)
  <2>1. left \in Seq(Entry) /\ right \in Seq(Entry)
        /\ Len(left) = Len(base) + n + 1 /\ Len(right) = Len(base) + n + 1
    BY <1>1, <1>2
  <2>2. ASSUME NEW i \in 1..Len(left) PROVE left[i] = right[i]
    <3>1. i \in 1..(Len(base) + n + 1) /\ Len(base) \in Nat
      BY <2>1
    <3>2. CASE i <= Len(base)
      BY <1>1, <1>2, <3>1, <3>2
    <3>3. CASE i > Len(base) /\ i <= Len(base) + n
      BY <1>1, <1>2, <3>1, <3>3
    <3>4. CASE i = Len(base) + n + 1
      BY <1>1, <1>2, <3>1, <3>4
    <3>5. QED
      BY <1>1, <3>1, <3>2, <3>3, <3>4
  <2> HIDE DEF left, right
  <2>3. left = right
    BY <2>1, <2>2, SeqEqual
  <2>4. QED
    BY <2>3 DEF left, right
<1>7. QED
  BY <1>5, <1>6 DEF e, F, G

(* A list is made of whole chunks of an upload, and so it is with another  *)
(* one.                                                                    *)
Made(list, u) == \E c \in Seq(1..Chunks) : MadeOf(list, u, c)
LEMMA MadeOfMore ==
  ASSUME NEW u \in Nat, NEW ch \in 1..Chunks, NEW list \in Seq(Entry), NEW c \in Seq(1..Chunks),
         MadeOf(list, u, c)
  PROVE  MadeOf(list \o First(u, ch, Size), u, Append(c, ch))
<1> DEFINE F == First(u, ch, Size)
           d == Append(c, ch)
           all == list \o F
<1>1. /\ Size \in Nat \ {0} /\ Size \in 0..Size
      /\ F \in Seq(Entry) /\ Len(F) = Size
      /\ Len(c) \in Nat /\ Len(list) = Len(c) * Size /\ Len(list) \in Nat
  <2>1. Size \in Nat \ {0} /\ Size \in 0..Size
    BY UploadAssumption
  <2>2. F \in Seq(Entry) /\ Len(F) = Size
    BY <2>1, FirstTyped
  <2>3. Len(c) \in Nat /\ Len(list) \in Nat
    OBVIOUS
  <2>4. QED
    BY <2>1, <2>2, <2>3 DEF MadeOf
<1>2. /\ d \in Seq(1..Chunks) /\ Len(d) = Len(c) + 1 /\ d[Len(c) + 1] = ch
      /\ \A n \in 1..Len(c) : d[n] = c[n]
  OBVIOUS
<1>3. \A i \in 1..Size : F[i] = Entries(u, ch)[i]
  BY DEF First
<1> HIDE DEF F, d
<1>4. Len(all) = Len(d) * Size
  <2>1. (Len(c) + 1) * Size = Len(c) * Size + Size
    BY <1>1, Products
  <2>2. Len(all) = Len(list) + Size
    BY <1>1
  <2>3. QED
    BY <1>1, <1>2, <2>1, <2>2
<1>5. ASSUME NEW n \in DOMAIN d, NEW i \in 1..Size
      PROVE  all[(n - 1) * Size + i] = Entries(u, d[n])[i]
  <2>1. n \in 1..(Len(c) + 1)
    BY <1>2
  <2>2. CASE n = Len(c) + 1
    <3>1. n - 1 = Len(c) /\ i \in Nat \ {0}
      BY <1>1, <2>2
    <3>2. (n - 1) * Size + i = Len(list) + i
      BY <1>1, <3>1
    <3>3. all[Len(list) + i] = F[i]
      BY <1>1
    <3>4. QED
      BY <1>2, <1>3, <2>2, <3>2, <3>3
  <2>3. CASE n # Len(c) + 1
    <3>1. n \in 1..Len(c)
      BY <1>1, <2>1, <2>3
    <3>2. (n - 1) * Size + i \in 1..Len(list)
      BY <1>1, <3>1, BlockIn
    <3>3. all[(n - 1) * Size + i] = list[(n - 1) * Size + i]
      BY <1>1, <3>2
    <3>4. list[(n - 1) * Size + i] = Entries(u, c[n])[i]
      BY <3>1 DEF MadeOf
    <3>5. QED
      BY <1>2, <3>1, <3>3, <3>4
  <2>4. QED
    BY <2>2, <2>3
<1>6. MadeOf(all, u, d)
  BY <1>4, <1>5 DEF MadeOf
<1>7. QED
  BY <1>6 DEF F, d

(* So it is of a list without entries.                                     *)
LEMMA MadeNone == ASSUME NEW u PROVE MadeOf(<<>>, u, <<>>) /\ Made(<<>>, u) /\ <<>> \in Seq(1..Chunks)
<1>1. Len(<<>>) = 0 /\ DOMAIN <<>> = {} /\ <<>> \in Seq(1..Chunks) /\ 0 * Size = 0
  BY UploadAssumption
<1>2. MadeOf(<<>>, u, <<>>)
  BY <1>1 DEF MadeOf
<1>3. QED
  BY <1>1, <1>2 DEF Made

(* A chunk is added when all its entries are.                              *)
LEMMA MadeMore ==
  ASSUME NEW u \in Nat, NEW ch \in 1..Chunks, NEW list \in Seq(Entry), Made(list, u)
  PROVE  Made(list \o First(u, ch, Size), u)
<1>1. PICK c \in Seq(1..Chunks) : MadeOf(list, u, c)
  BY DEF Made
<1>2. MadeOf(list \o First(u, ch, Size), u, Append(c, ch)) /\ Append(c, ch) \in Seq(1..Chunks)
  BY <1>1, MadeOfMore
<1>3. QED
  BY <1>2 DEF Made

(* The number of chunks, and the upload they are of.                       *)
LEMMA MadeOfWhole ==
  ASSUME NEW u \in Nat, NEW list \in Seq(Entry), NEW c \in Seq(1..Chunks), MadeOf(list, u, c)
  PROVE  /\ Len(list) \div Size = Len(c)
         /\ c \in [1..(Len(list) \div Size) -> 1..Chunks]
         /\ c # <<>> => list[1][1] = u
         /\ MadeOf(list, list[1][1], c)
<1>1. Len(c) \in Nat /\ c \in [1..Len(c) -> 1..Chunks] /\ Len(list) = Len(c) * Size
      /\ Size \in Nat \ {0}
  BY UploadAssumption DEF MadeOf
<1>2. Len(list) \div Size = Len(c)
  BY <1>1, Blocks
<1>3. ASSUME c # <<>> PROVE list[1][1] = u
  <2>1. 1 \in 1..Len(c) /\ 1 \in 1..Size /\ c[1] \in 1..Chunks /\ 1 \in DOMAIN c
    BY <1>1, <1>3
  <2>2. list[(1 - 1) * Size + 1] = Entries(u, c[1])[1]
    BY <2>1 DEF MadeOf
  <2>3. (1 - 1) * Size + 1 = 1
    BY <1>1
  <2>4. Entries(u, c[1])[1] = <<u, (c[1] - 1) * Size + 1>>
    BY <2>1, EntriesTyped
  <2>5. QED
    BY <2>2, <2>3, <2>4
<1>4. MadeOf(list, list[1][1], c)
  <2>1. CASE c = <<>>
    BY <1>1, <2>1 DEF MadeOf
  <2>2. CASE c # <<>>
    BY <1>3, <2>2
  <2>3. QED
    BY <2>1, <2>2
<1>5. QED
  BY <1>1, <1>2, <1>3, <1>4

(* WholeChunks says the same, without the upload.                          *)
LEMMA MadeIsWhole ==
  ASSUME NEW u \in Nat, NEW list \in Seq(Entry), Made(list, u)
  PROVE  WholeChunks(list)
<1>1. PICK c \in Seq(1..Chunks) : MadeOf(list, u, c)
  BY DEF Made
<1>2. QED
  BY <1>1, MadeOfWhole DEF WholeChunks
-----------------------------------------------------------------------------
(* What is cached, and what becomes a trace, is whole chunks.              *)

(* Who has a token handles, or sends, the upload that it is of.            *)
Holds(k, u) ==
    /\ \A t \in Thread : up[t].token = k => up[t].upload = u
    /\ conn.token = k => conn.upload = u
Owned(k, u) ==
    \/ \E t \in Thread : up[t].token = k /\ up[t].upload = u
    \/ conn.token = k /\ conn.upload = u
Tied == \A k \in 1..tokens, u \in Nat : Owned(k, u) => Holds(k, u)

(* A list that is cached is of the upload its token is of.                 *)
CacheMade == \A k \in DOMAIN cache : \E u \in Nat : Made(cache[k], u) /\ Holds(k, u)

(* A thread has added the first entries of its chunk to a list.            *)
ThreadMade(me) ==
    /\ me.pc \in {"begin", "get"} => me.done = 0
    /\ me.pc = "entries" =>
          \E base \in Seq(Entry) :
             /\ Made(base, me.upload)
             /\ me.log_list = base \o First(me.upload, me.chunk, me.done)
    /\ me.pc = "trace" => Made(me.log_list, me.upload)
TraceMade == trace.made_from = "upload" => \E u \in Nat : Made(trace.entries, u)
MInv == /\ Tokens /\ Waits /\ Tied /\ CacheMade /\ TraceMade
        /\ \A t \in Thread : ThreadMade(up[t])

(* The upload of a token is the same as long as the token is there.        *)
LEMMA HoldsStep ==
  ASSUME Tokens, Waits, Tied, [Next]_vars, NEW k \in 1..tokens, NEW u \in Nat, Holds(k, u)
  PROVE  Holds(k, u)'
<1>0. /\ conn \in [state : {"idle", "sending", "waiting"}, upload : Nat,
                   chunk : 1..Chunks, token : 0..tokens]
      /\ \A s \in Thread : up[s] \in UpType(tokens)
      /\ tokens \in Nat /\ k # 0 /\ k # tokens + 1
  BY TypedParts, ThreadTyped, MoreTokens DEF RestTyped
<1>1. CASE UNCHANGED vars
  BY <1>1 DEF vars, Holds
<1>2. ASSUME NEW t \in Thread, Handle(t) \/ Fail(t)
      PROVE  Holds(k, u)'
  <2>1. /\ conn' = conn /\ OthersSame(t) /\ up'[t].upload = up[t].upload
        /\ up'[t].token = up[t].token \/ up'[t].token = tokens + 1
    BY <1>2, HandleSteps
  <2>2. QED
    BY <1>0, <2>1 DEF Holds, OthersSame
<1>3. ASSUME NEW t \in Thread, Connector(t) \/ Resend(t) \/ TimeOut(t)
      PROVE  Holds(k, u)'
  <2>1. OthersSame(t)
    BY <1>3, ConnectorSteps
  <2>2. up'[t].token = k => up'[t].upload = u
    <3>1. CASE Send(t)
      <4>1. up'[t].token = conn.token /\ up'[t].upload = conn.upload
        BY <1>3, <3>1, ConnectorSteps DEF TimeOut, Send
      <4>2. QED
        BY <4>1 DEF Holds
    <3>2. CASE ~ Send(t)
      <4>1. up'[t] = Idle \/ up'[t] = [up[t] EXCEPT !.awaited = FALSE]
        BY <1>3, <3>2, ConnectorSteps
      <4>2. Idle.token = 0
        BY DEF Idle
      <4>3. QED
        BY <1>0, <4>1, <4>2 DEF Holds, UpType
    <3>3. QED
      BY <3>1, <3>2
  <2>3. conn'.token = k => conn'.upload = u
    <3>1. CASE Answered(t) /\ conn.chunk # Chunks
      <4>1. /\ conn' = [conn EXCEPT !.state = "sending", !.chunk = @ + 1, !.token = up[t].token]
            /\ up[t].awaited
        BY <3>1 DEF Answered
      <4>2. up[t].upload = conn.upload
        BY <4>1 DEF Waits, Expected
      <4>3. conn'.token = up[t].token /\ conn'.upload = conn.upload
        BY <1>0, <4>1
      <4>4. QED
        BY <4>2, <4>3 DEF Holds
    <3>2. CASE ~ (Answered(t) /\ conn.chunk # Chunks)
      <4>1. \/ conn' = conn
            \/ conn' = [conn EXCEPT !.state = "idle"] \/ conn' = [conn EXCEPT !.state = "sending"]
            \/ conn' = [conn EXCEPT !.state = "waiting"]
        BY <1>3, <3>2 DEF Connector, Send, Answered, GiveUp, Unheard, Resend, TimeOut
      <4>2. conn'.token = conn.token /\ conn'.upload = conn.upload
        BY <1>0, <4>1
      <4>3. QED
        BY <4>2 DEF Holds
    <3>3. QED
      BY <3>1, <3>2
  <2>4. QED
    BY <2>1, <2>2, <2>3 DEF Holds, OthersSame
<1>4. CASE \/ \E r \in Reader : Look(r) \/ Query(r) \/ Rebuild(r)
           \/ \E j \in 1..tokens : Expire(j)
           \/ Poll \/ Click \/ Proceed \/ Reload \/ ClearTrace
  <2>1. up' = up /\ (conn' = conn \/ conn'.token = 0)
    BY <1>4, OthersSteps
  <2>2. QED
    BY <1>0, <2>1 DEF Holds
<1>5. QED
  BY <1>1, <1>2, <1>3, <1>4, Zenon DEF Next

(* A token that somebody has after a step was somebody's before, or is new.*)
LEMMA OwnedStep ==
  ASSUME Tokens, Waits, [Next]_vars, NEW k \in 1..tokens, NEW u \in Nat, Owned(k, u)'
  PROVE  Owned(k, u)
<1>0. /\ conn \in [state : {"idle", "sending", "waiting"}, upload : Nat,
                   chunk : 1..Chunks, token : 0..tokens]
      /\ \A s \in Thread : up[s] \in UpType(tokens)
      /\ tokens \in Nat /\ k # 0 /\ k # tokens + 1
  BY TypedParts, ThreadTyped, MoreTokens DEF RestTyped
<1>1. CASE UNCHANGED vars
  BY <1>1 DEF vars, Owned
<1>2. ASSUME NEW t \in Thread, Handle(t) \/ Fail(t)
      PROVE  Owned(k, u)
  <2>1. /\ conn' = conn /\ OthersSame(t) /\ up'[t].upload = up[t].upload
        /\ up'[t].token = up[t].token \/ up'[t].token = tokens + 1
    BY <1>2, HandleSteps
  <2>2. QED
    BY <1>0, <2>1 DEF Owned, OthersSame
<1>3. ASSUME NEW t \in Thread, Connector(t) \/ Resend(t) \/ TimeOut(t)
      PROVE  Owned(k, u)
  <2>1. OthersSame(t)
    BY <1>3, ConnectorSteps
  <2>2. up'[t].token = k /\ up'[t].upload = u => Owned(k, u)
    <3>1. CASE Send(t)
      <4>1. up'[t].token = conn.token /\ up'[t].upload = conn.upload
        BY <1>3, <3>1, ConnectorSteps DEF TimeOut, Send
      <4>2. QED
        BY <4>1 DEF Owned
    <3>2. CASE ~ Send(t)
      <4>1. up'[t] = Idle \/ up'[t] = [up[t] EXCEPT !.awaited = FALSE]
        BY <1>3, <3>2, ConnectorSteps
      <4>2. Idle.token = 0
        BY DEF Idle
      <4>3. QED
        BY <1>0, <4>1, <4>2 DEF Owned, UpType
    <3>3. QED
      BY <3>1, <3>2
  <2>3. conn'.token = k /\ conn'.upload = u => Owned(k, u)
    <3>1. CASE Answered(t) /\ conn.chunk # Chunks
      <4>1. /\ conn' = [conn EXCEPT !.state = "sending", !.chunk = @ + 1, !.token = up[t].token]
            /\ up[t].awaited
        BY <3>1 DEF Answered
      <4>2. up[t].upload = conn.upload
        BY <4>1 DEF Waits, Expected
      <4>3. conn'.token = up[t].token /\ conn'.upload = conn.upload
        BY <1>0, <4>1
      <4>4. QED
        BY <4>2, <4>3 DEF Owned
    <3>2. CASE ~ (Answered(t) /\ conn.chunk # Chunks)
      <4>1. \/ conn' = conn
            \/ conn' = [conn EXCEPT !.state = "idle"] \/ conn' = [conn EXCEPT !.state = "sending"]
            \/ conn' = [conn EXCEPT !.state = "waiting"]
        BY <1>3, <3>2 DEF Connector, Send, Answered, GiveUp, Unheard, Resend, TimeOut
      <4>2. conn'.token = conn.token /\ conn'.upload = conn.upload
        BY <1>0, <4>1
      <4>3. QED
        BY <4>2 DEF Owned
    <3>3. QED
      BY <3>1, <3>2
  <2>4. QED
    BY <2>1, <2>2, <2>3 DEF Owned, OthersSame
<1>4. CASE \/ \E r \in Reader : Look(r) \/ Query(r) \/ Rebuild(r)
           \/ \E j \in 1..tokens : Expire(j)
           \/ Poll \/ Click \/ Proceed \/ Reload \/ ClearTrace
  <2>1. up' = up /\ (conn' = conn \/ conn'.token = 0)
    BY <1>4, OthersSteps
  <2>2. QED
    BY <1>0, <2>1 DEF Owned
<1>5. QED
  BY <1>1, <1>2, <1>3, <1>4, Zenon DEF Next

(* A new token is the token of one thread.                                 *)
LEMMA NewToken ==
  ASSUME Tokens, [Next]_vars, tokens' # tokens
  PROVE  /\ tokens' = tokens + 1
         /\ \E t \in Thread :
               /\ Begin(t) /\ up[t].token = 0 /\ up'[t].token = tokens + 1
               /\ \A s \in Thread \ {t} : up'[s].token # tokens + 1
         /\ conn'.token # tokens + 1
<1>0. /\ conn \in [state : {"idle", "sending", "waiting"}, upload : Nat,
                   chunk : 1..Chunks, token : 0..tokens]
      /\ \A s \in Thread : up[s] \in UpType(tokens)
      /\ tokens \in Nat /\ tokens + 1 \notin 0..tokens
  BY TypedParts, ThreadTyped, MoreTokens DEF RestTyped
<1>1. PICK t \in Thread : Handle(t) \/ Fail(t)
  <2>1. ASSUME NEW t \in Thread, Connector(t) \/ Resend(t) \/ TimeOut(t)
        PROVE  FALSE
    BY <2>1, ConnectorSteps
  <2>2. CASE \/ \E r \in Reader : Look(r) \/ Query(r) \/ Rebuild(r)
             \/ \E j \in 1..tokens : Expire(j)
             \/ Poll \/ Click \/ Proceed \/ Reload \/ ClearTrace
    BY <2>2, OthersSteps
  <2>3. Next
    BY DEF vars
  <2>4. QED
    BY <2>1, <2>2, <2>3, Zenon DEF Next
<1>2. /\ UNCHANGED conn /\ OthersSame(t) /\ Begin(t) /\ up[t].token = 0
      /\ up'[t].token = tokens + 1 /\ tokens' = tokens + 1
  BY <1>1, HandleSteps
<1>3. QED
  BY <1>0, <1>2 DEF OthersSame, UpType

(* Hence everybody who has a token agrees on its upload.                   *)
LEMMA TiedStep ==
  ASSUME Tokens, Waits, Tied, [Next]_vars
  PROVE  Tied'
<1>1. SUFFICES ASSUME NEW k \in 1..tokens', NEW u \in Nat, Owned(k, u)'
               PROVE  Holds(k, u)'
  BY DEF Tied
<1>2. CASE k \in 1..tokens
  BY <1>1, <1>2, OwnedStep, HoldsStep DEF Tied
<1>3. CASE k \notin 1..tokens
  <2>1. tokens' # tokens
    BY <1>1, <1>3
  <2>2. tokens \in Nat /\ tokens' = tokens + 1
    BY <2>1, NewToken, TypedParts
  <2>3. k = tokens + 1
    BY <1>1, <1>3, <2>2
  <2>4. PICK t \in Thread : \A s \in Thread \ {t} : up'[s].token # k
    BY <2>1, <2>3, NewToken
  <2>5. conn'.token # k
    BY <2>1, <2>3, NewToken
  <2>6. QED
    BY <1>1, <2>4, <2>5 DEF Owned, Holds
<1>4. QED
  BY <1>2, <1>3

(* The lists of the cache, when those that are new are whole chunks of the *)
(* upload that their token is of.                                          *)
LEMMA CacheMadeAfter ==
  ASSUME MInv, [Next]_vars,
         \A k \in DOMAIN cache' : \/ k \in DOMAIN cache /\ cache'[k] = cache[k]
                                  \/ \E u \in Nat : Made(cache'[k], u) /\ Owned(k, u)'
  PROVE  CacheMade'
<1>1. Tokens' /\ Tied'
  BY TypedStep, TiedStep DEF MInv
<1>2. CacheTyped /\ CacheTyped'
  BY <1>1, TypedParts DEF MInv, Tokens, TypeOK, CacheTyped
<1>3. SUFFICES ASSUME NEW k \in DOMAIN cache'
               PROVE  \E u \in Nat : Made(cache'[k], u) /\ Holds(k, u)'
  BY DEF CacheMade
<1>4. CASE k \in DOMAIN cache /\ cache'[k] = cache[k]
  <2>1. PICK u \in Nat : Made(cache[k], u) /\ Holds(k, u)
    BY <1>4 DEF MInv, CacheMade
  <2>2. k \in 1..tokens
    BY <1>2, <1>4 DEF CacheTyped
  <2>3. Holds(k, u)'
    BY <2>1, <2>2, HoldsStep DEF MInv
  <2>4. QED
    BY <1>4, <2>1, <2>3
<1>5. CASE \E u \in Nat : Made(cache'[k], u) /\ Owned(k, u)'
  <2>1. k \in 1..tokens'
    BY <1>2 DEF CacheTyped
  <2>2. QED
    BY <1>1, <1>5, <2>1 DEF Tied
<1>6. QED
  BY <1>3, <1>4, <1>5

(* The lists of the threads, when one of them takes a step.                *)
LEMMA ThreadsMadeAfter ==
  ASSUME \A s \in Thread : ThreadMade(up[s]), NEW t \in Thread, OthersSame(t), ThreadMade(up[t])'
  PROVE  \A s \in Thread : ThreadMade(up[s])'
BY DEF OthersSame, ThreadMade

(* The statements of a request.                                            *)
LEMMA HandleMade ==
  ASSUME MInv, NEW t \in Thread, Handle(t) \/ Fail(t), [Next]_vars
  PROVE  CacheMade' /\ TraceMade' /\ ThreadMade(up[t])'
<1>0. /\ CacheTyped /\ tokens \in Nat /\ DOMAIN up = Thread
      /\ up[t] \in UpType(tokens) /\ Kept(up[t]) /\ ThreadMade(up[t])
  BY TypedParts, ThreadTyped DEF MInv
<1>a. /\ up[t].upload \in Nat /\ up[t].chunk \in 1..Chunks /\ up[t].log_list \in Seq(Entry)
      /\ up[t].done \in 0..Size
  BY <1>0 DEF UpType
<1>b. UNCHANGED cache => CacheMade'
  BY CacheMadeAfter
<1>c. UNCHANGED trace => TraceMade'
  BY DEF MInv, TraceMade
<1>1. CASE Begin(t) /\ up[t].token = 0
  <2>1. /\ cache' = PutList(tokens + 1, <<>>) /\ UNCHANGED trace
        /\ up' = [up EXCEPT ![t].pc = "get", ![t].token = tokens + 1] /\ up[t].pc = "begin"
    BY <1>1 DEF Begin
  <2>2. /\ up'[t].pc = "get" /\ up'[t].done = up[t].done
        /\ up'[t].token = tokens + 1 /\ up'[t].upload = up[t].upload
    BY <1>0, <2>1 DEF UpType
  <2>3. ThreadMade(up[t])'
    BY <1>0, <2>1, <2>2 DEF ThreadMade
  <2>4. ASSUME NEW k \in DOMAIN cache', k # tokens + 1
        PROVE  k \in DOMAIN cache /\ cache'[k] = cache[k]
    BY <2>1, <2>4 DEF PutList
  <2>5. ASSUME NEW k \in DOMAIN cache', k = tokens + 1
        PROVE  \E u \in Nat : Made(cache'[k], u) /\ Owned(k, u)'
    <3>1. cache'[k] = <<>>
      BY <2>1, <2>5 DEF PutList
    <3>2. Made(<<>>, up[t].upload)
      BY MadeNone
    <3> DEFINE u == up[t].upload
    <3>3. \E v \in Nat : v = u
      BY <1>a
    <3>4. PICK v \in Nat : v = u
      BY <3>3
    <3>5. Owned(k, v)'
      BY <2>2, <2>5, <3>4 DEF Owned
    <3>6. QED
      BY <3>1, <3>2, <3>4, <3>5
  <2>6. CacheMade'
    BY <2>4, <2>5, CacheMadeAfter
  <2>7. QED
    BY <1>c, <2>1, <2>3, <2>6
<1>2. CASE Begin(t) /\ up[t].token # 0
  <2>1. UNCHANGED <<cache, trace>> /\ up' = [up EXCEPT ![t].pc = "get"] /\ up[t].pc = "begin"
    BY <1>2 DEF Begin, Step
  <2>2. ThreadMade(up[t])'
    BY <1>0, <2>1 DEF ThreadMade, UpType
  <2>3. QED
    BY <1>b, <1>c, <2>1, <2>2
<1>3. CASE GetList(t)
  <2>1. UNCHANGED <<cache, trace>> /\ up[t].pc = "get"
    BY <1>3 DEF GetList
  <2>2. CASE up[t].token \in DOMAIN cache
    <3>1. up' = [up EXCEPT ![t].pc = "entries", ![t].log_list = cache[up[t].token]]
      BY <1>3, <2>2 DEF GetList
    <3>2. /\ up'[t].pc = "entries" /\ up'[t].log_list = cache[up[t].token]
          /\ up'[t].upload = up[t].upload /\ up'[t].chunk = up[t].chunk /\ up'[t].done = up[t].done
      BY <1>0, <3>1 DEF UpType
    <3>3. Made(cache[up[t].token], up[t].upload)
      BY <2>2 DEF MInv, CacheMade, Holds
    <3>4. cache[up[t].token] \in Seq(Entry)
      BY <1>0, <2>2 DEF CacheTyped
    <3>5. up[t].done = 0
      BY <1>0, <2>1 DEF ThreadMade
    <3>6. cache[up[t].token] \o First(up[t].upload, up[t].chunk, 0) = cache[up[t].token]
      BY <3>4, FirstNone
    <3>7. ThreadMade(up[t])'
      BY <3>2, <3>3, <3>4, <3>5, <3>6 DEF ThreadMade
    <3>8. QED
      BY <1>b, <1>c, <2>1, <3>7
  <2>3. CASE up[t].token \notin DOMAIN cache
    <3>1. up'[t].pc = "error"
      BY <1>0, <1>3, <2>3 DEF GetList, Step, UpType
    <3>2. QED
      BY <1>b, <1>c, <2>1, <3>1 DEF ThreadMade
  <2>4. QED
    BY <2>2, <2>3
<1>4. CASE LogEntry(t)
  <2> DEFINE e == Entries(up[t].upload, up[t].chunk)[up[t].done + 1]
  <2>1. /\ UNCHANGED <<cache, trace>> /\ up[t].pc = "entries" /\ up[t].done < Size
        /\ up' = [up EXCEPT ![t].log_list = Append(@, e), ![t].done = @ + 1]
    BY <1>4 DEF LogEntry
  <2>2. /\ up'[t].pc = "entries" /\ up'[t].log_list = Append(up[t].log_list, e)
        /\ up'[t].done = up[t].done + 1
        /\ up'[t].upload = up[t].upload /\ up'[t].chunk = up[t].chunk
    <3> HIDE DEF e
    <3>1. QED
      BY <1>0, <2>1 DEF UpType
  <2>3. PICK base \in Seq(Entry) :
          /\ Made(base, up[t].upload)
          /\ up[t].log_list = base \o First(up[t].upload, up[t].chunk, up[t].done)
    BY <1>0, <2>1 DEF ThreadMade
  <2>4. up'[t].log_list = base \o First(up[t].upload, up[t].chunk, up[t].done + 1)
    <3> DEFINE F == base \o First(up[t].upload, up[t].chunk, up[t].done)
    <3>1. Append(F, e) = base \o First(up[t].upload, up[t].chunk, up[t].done + 1)
      BY <1>a, <2>1, FirstMore
    <3>2. up'[t].log_list = Append(F, e)
      BY <2>2, <2>3
    <3> HIDE DEF F, e
    <3>3. QED
      BY <3>1, <3>2
  <2>5. ThreadMade(up[t])'
    BY <2>2, <2>3, <2>4 DEF ThreadMade
  <2>6. QED
    BY <1>b, <1>c, <2>1, <2>5
<1>5. CASE SetList(t)
  <2>1. /\ UNCHANGED trace /\ up[t].pc = "entries" /\ up[t].done = Size
        /\ cache' = PutList(up[t].token, up[t].log_list)
        /\ up' = [up EXCEPT ![t].pc = IF up[t].chunk = Chunks THEN "trace" ELSE "answer"]
    BY <1>5 DEF SetList, Step
  <2>2. /\ up'[t].pc \in {"trace", "answer"} /\ up'[t].log_list = up[t].log_list
        /\ up'[t].upload = up[t].upload /\ up'[t].token = up[t].token
    BY <1>0, <2>1 DEF UpType
  <2>3. Made(up[t].log_list, up[t].upload)
    <3>1. PICK base \in Seq(Entry) :
            /\ Made(base, up[t].upload)
            /\ up[t].log_list = base \o First(up[t].upload, up[t].chunk, Size)
      BY <1>0, <2>1 DEF ThreadMade
    <3>2. QED
      BY <1>a, <3>1, MadeMore
  <2>4. ThreadMade(up[t])'
    BY <2>2, <2>3 DEF ThreadMade
  <2>5. ASSUME NEW k \in DOMAIN cache', k # up[t].token
        PROVE  k \in DOMAIN cache /\ cache'[k] = cache[k]
    BY <2>1, <2>5 DEF PutList
  <2>6. ASSUME NEW k \in DOMAIN cache', k = up[t].token
        PROVE  \E u \in Nat : Made(cache'[k], u) /\ Owned(k, u)'
    <3>1. cache'[k] = up[t].log_list
      BY <2>1, <2>6 DEF PutList
    <3>2. PICK u \in Nat : u = up[t].upload
      BY <1>a
    <3>3. Owned(k, u)'
      BY <2>2, <2>6, <3>2 DEF Owned
    <3>4. QED
      BY <2>3, <3>1, <3>2, <3>3
  <2>7. CacheMade'
    BY <2>5, <2>6, CacheMadeAfter
  <2>8. QED
    BY <1>c, <2>1, <2>4, <2>7
<1>6. CASE SetTrace(t)
  <2>1. /\ UNCHANGED cache /\ up[t].pc = "trace"
        /\ trace' = [made_from |-> "upload", entries |-> up[t].log_list]
    BY <1>6 DEF SetTrace
  <2>2. up'[t].pc = "delete"
    BY <1>0, <1>6 DEF SetTrace, Step, UpType
  <2>3. TraceMade'
    BY <1>0, <1>a, <2>1 DEF ThreadMade, TraceMade
  <2>4. QED
    BY <1>b, <2>1, <2>2, <2>3 DEF ThreadMade
<1>7. CASE DeleteList(t)
  <2>1. UNCHANGED trace /\ cache' = WithoutList(up[t].token)
    BY <1>7 DEF DeleteList
  <2>2. up'[t].pc = "save"
    BY <1>0, <1>7 DEF DeleteList, Step, UpType
  <2>3. CacheMade'
    <3>1. \A k \in DOMAIN cache' : k \in DOMAIN cache /\ cache'[k] = cache[k]
      BY <2>1 DEF WithoutList
    <3>2. QED
      BY <3>1, CacheMadeAfter
  <2>4. QED
    BY <1>c, <2>1, <2>2, <2>3 DEF ThreadMade
<1>8. CASE ClearPending(t) \/ Fail(t)
  <2>1. UNCHANGED <<cache, trace>> /\ up'[t].pc \in {"answer", "error"}
    BY <1>0, <1>8 DEF ClearPending, Fail, Step, UpType
  <2>2. QED
    BY <1>b, <1>c, <2>1 DEF ThreadMade
<1>9. QED
  BY <1>1, <1>2, <1>3, <1>4, <1>5, <1>6, <1>7, <1>8 DEF Handle

(* Every step keeps the chunks whole.                                      *)
LEMMA MadeStep ==
  ASSUME MInv, [Next]_vars
  PROVE  MInv'
<1>1. Tokens' /\ Waits' /\ Tied'
  BY TypedStep, WaitsStep, TiedStep DEF MInv
<1>2. CASE UNCHANGED vars
  <2>1. UNCHANGED <<cache, trace, up>>
    BY <1>2 DEF vars
  <2>2. CacheMade'
    BY <2>1, CacheMadeAfter
  <2>3. QED
    BY <1>1, <2>1, <2>2 DEF MInv, TraceMade
<1>3. ASSUME NEW t \in Thread, Handle(t) \/ Fail(t)
      PROVE  MInv'
  <2>1. OthersSame(t)
    BY <1>3, HandleSteps DEF MInv
  <2>2. CacheMade' /\ TraceMade' /\ ThreadMade(up[t])'
    BY <1>3, HandleMade
  <2>3. QED
    BY <1>1, <2>1, <2>2, ThreadsMadeAfter DEF MInv
<1>4. ASSUME NEW t \in Thread, Connector(t) \/ Resend(t) \/ TimeOut(t)
      PROVE  MInv'
  <2>1. UNCHANGED <<cache, trace>> /\ OthersSame(t)
    BY <1>4, ConnectorSteps DEF MInv
  <2>2. ThreadMade(up[t])'
    <3>1. CASE Send(t)
      <4>1. up'[t].pc = "begin" /\ up'[t].done = 0
        <5>1. up' = [up EXCEPT ![t] = [Idle EXCEPT !.pc = "begin", !.awaited = TRUE,
                  !.upload = conn.upload, !.chunk = conn.chunk, !.token = conn.token]]
          BY <3>1 DEF Send
        <5>2. DOMAIN up = Thread
          BY ThreadTyped DEF MInv
        <5>3. QED
          BY <5>1, <5>2 DEF Idle
      <4>2. QED
        BY <4>1 DEF ThreadMade
    <3>2. CASE ~ Send(t)
      <4>1. up'[t] = Idle \/ up'[t] = [up[t] EXCEPT !.awaited = FALSE]
        BY <1>4, <3>2, ConnectorSteps DEF MInv
      <4>2. Idle.pc = "idle" /\ ThreadMade(up[t]) /\ up[t] \in UpType(tokens)
        BY ThreadTyped DEF Idle, MInv
      <4>3. QED
        BY <4>1, <4>2 DEF ThreadMade, UpType
    <3>3. QED
      BY <3>1, <3>2
  <2>3. CacheMade' /\ TraceMade'
    BY <2>1, CacheMadeAfter DEF MInv, TraceMade
  <2>4. QED
    BY <1>1, <2>1, <2>2, <2>3, ThreadsMadeAfter DEF MInv
<1>5. CASE \/ \E r \in Reader : Look(r) \/ Query(r) \/ Rebuild(r)
           \/ \E j \in 1..tokens : Expire(j)
           \/ Poll \/ Click \/ Proceed \/ Reload \/ ClearTrace
  <2>1. /\ up' = up
        /\ cache' = cache \/ \E k \in DOMAIN cache : cache' = WithoutList(k)
        /\ trace' = trace \/ trace'.made_from # "upload"
    BY <1>5, OthersSteps
  <2>2. \A k \in DOMAIN cache' : k \in DOMAIN cache /\ cache'[k] = cache[k]
    BY <2>1 DEF WithoutList
  <2>3. CacheMade' /\ TraceMade'
    BY <2>1, <2>2, CacheMadeAfter DEF MInv, TraceMade
  <2>4. QED
    BY <1>1, <2>1, <2>3 DEF MInv
<1>6. QED
  BY <1>2, <1>3, <1>4, <1>5, Zenon DEF Next

(* At first there are no lists.                                            *)
LEMMA InitMade == Init => MInv
<1> SUFFICES ASSUME Init PROVE MInv
  OBVIOUS
<1>1. Tokens
  BY InitTyped
<1>2. DOMAIN cache = {} /\ trace.made_from = "none" /\ tokens = 0 /\ conn.token = 0 /\ conn.chunk = 1
      /\ conn.state = "idle" /\ \A t \in Thread : up[t] = Idle
  BY DEF Init
<1>3. Idle.pc = "idle" /\ Idle.awaited = FALSE
  BY DEF Idle
<1>4. Waits
  BY <1>2, <1>3 DEF Waits, Expected
<1>5. Tied
  BY <1>2 DEF Tied
<1>6. CacheMade /\ TraceMade /\ \A t \in Thread : ThreadMade(up[t])
  BY <1>2, <1>3 DEF CacheMade, TraceMade, ThreadMade
<1>7. QED
  BY <1>1, <1>4, <1>5, <1>6 DEF MInv

(* What is in the cache of uploads, and the trace made of it, is whole     *)
(* chunks of one upload, however requests interleave, fail or are repeated.*)
THEOREM WholeChunksOnly == Spec => []ChunksWhole
<1>1. MInv => ChunksWhole
  <2> SUFFICES ASSUME MInv PROVE ChunksWhole
    OBVIOUS
  <2>1. CacheTyped /\ TraceTyped
    BY TypedParts DEF MInv
  <2>2. ASSUME NEW k \in DOMAIN cache PROVE WholeChunks(cache[k])
    BY <2>1, MadeIsWhole DEF MInv, CacheMade, CacheTyped
  <2>3. ASSUME trace.made_from = "upload" PROVE WholeChunks(trace.entries)
    BY <2>1, <2>3, MadeIsWhole DEF MInv, TraceMade, TraceTyped
  <2>4. QED
    BY <2>2, <2>3 DEF ChunksWhole
<1>2. QED
  BY <1>1, InitMade, MadeStep, PTL DEF Spec
-----------------------------------------------------------------------------
(* Every chunk, in order.                                                  *)

(* The chunks of a list up to the last one: none is left out, and none is  *)
(* there twice when everything was sent once.                              *)
Climbs(c, last, once) ==
    /\ c # <<>> /\ c[1] = 1 /\ c[Len(c)] = last
    /\ \A n \in 1..(Len(c) - 1) : c[n + 1] \in {c[n], c[n] + 1}
    /\ once => \A n \in 1..Len(c) : c[n] = n
Got(list, u, last, once) ==
    \E c \in Seq(1..Chunks) : MadeOf(list, u, c) /\ Climbs(c, last, once)

(* A list to which a chunk is to be added.                                 *)
Behind(list, u, chunk, once) ==
    \/ list = <<>> /\ chunk = 1
    \/ Got(list, u, chunk - 1, once)
    \/ ~ once /\ Got(list, u, chunk, once)

(* Once something was sent again, less is known.                           *)
LEMMA GotLater ==
  ASSUME NEW list, NEW u, NEW ch, NEW was \in BOOLEAN, NEW is \in BOOLEAN, is => was
  PROVE  /\ Got(list, u, ch, was) => Got(list, u, ch, is)
         /\ Behind(list, u, ch, was) => Behind(list, u, ch, is)
<1>1. \A c, last : Climbs(c, last, was) => Climbs(c, last, is)
  BY DEF Climbs
<1>2. \A last : Got(list, u, last, was) => Got(list, u, last, is)
  BY <1>1 DEF Got
<1>3. QED
  BY <1>2 DEF Behind

(* A list of the numbers of chunks.                                        *)
LEMMA NumbersOf ==
  ASSUME NEW c \in Seq(1..Chunks)
  PROVE  Len(c) \in Nat /\ DOMAIN c = 1..Len(c) /\ \A n \in 1..Len(c) : c[n] \in 1..Chunks
BY LenProperties, ElementOfSeq

(* The next chunk.                                                         *)
LEMMA ClimbsMore ==
  ASSUME NEW c \in Seq(1..Chunks), NEW ch \in 1..Chunks, NEW once \in BOOLEAN,
         \/ c = <<>> /\ ch = 1
         \/ Climbs(c, ch - 1, once)
         \/ ~ once /\ Climbs(c, ch, once)
  PROVE  Climbs(Append(c, ch), ch, once)
<1> DEFINE d == Append(c, ch)
<1>1. /\ Len(c) \in Nat /\ \A n \in 1..Len(c) : c[n] \in 1..Chunks
      /\ d \in Seq(1..Chunks) /\ Len(d) = Len(c) + 1 /\ d[Len(c) + 1] = ch
      /\ \A n \in 1..Len(c) : d[n] = c[n]
      /\ ch \in Nat /\ d # <<>>
  <2>1. ch \in Nat
    BY UploadAssumption
  <2>2. Len(c) \in Nat /\ \A n \in 1..Len(c) : c[n] \in 1..Chunks
    BY NumbersOf
  <2>3. /\ d \in Seq(1..Chunks) /\ Len(d) = Len(c) + 1 /\ d[Len(c) + 1] = ch
        /\ \A n \in 1..Len(c) : d[n] = c[n]
    BY AppendProperties
  <2>4. d # <<>>
    <3>1. Len(<<>>) = 0 /\ Len(d) # 0
      <4> HIDE DEF d
      <4>1. QED
        BY <2>2, <2>3
    <3>2. QED
      BY <3>1
  <2>5. QED
    BY <2>1, <2>2, <2>3, <2>4
<1> HIDE DEF d
<1>2. CASE c = <<>> /\ ch = 1
  <2>1. Len(d) = 1 /\ d[1] = 1
    BY <1>1, <1>2
  <2>2. QED
    BY <1>1, <2>1, <1>2 DEF Climbs, d
<1>3. CASE c # <<>> /\ (Climbs(c, ch - 1, once) \/ (~ once /\ Climbs(c, ch, once)))
  <2>1. Len(c) \in 1..Len(c) /\ 1 \in 1..Len(c)
    BY <1>1, <1>3
  <2>2. d[1] = 1 /\ c[Len(c)] \in {ch, ch - 1}
    BY <1>1, <1>3, <2>1 DEF Climbs
  <2>3. ASSUME NEW n \in 1..Len(c) PROVE d[n + 1] \in {d[n], d[n] + 1}
    <3>1. CASE n = Len(c)
      BY <1>1, <2>2, <3>1
    <3>2. CASE n # Len(c)
      <4>1. n \in 1..(Len(c) - 1) /\ n + 1 \in 1..Len(c)
        BY <1>1, <3>2
      <4>2. QED
        BY <1>1, <1>3, <4>1 DEF Climbs
    <3>3. QED
      BY <3>1, <3>2
  <2>4. ASSUME once, NEW n \in 1..Len(d) PROVE d[n] = n
    <3>1. \A i \in 1..Len(c) : c[i] = i
      BY <1>3, <2>4 DEF Climbs
    <3>2. ch - 1 = Len(c)
      BY <1>3, <2>1, <2>4, <3>1 DEF Climbs
    <3>3. CASE n \in 1..Len(c)
      BY <1>1, <3>1, <3>3
    <3>4. CASE n = Len(c) + 1
      BY <1>1, <3>2, <3>4
    <3>5. QED
      BY <1>1, <3>3, <3>4
  <2>5. 1..(Len(d) - 1) = 1..Len(c)
    BY <1>1
  <2>6. QED
    BY <1>1, <2>2, <2>3, <2>4, <2>5 DEF Climbs, d
<1>4. CASE c = <<>> /\ ~ (c = <<>> /\ ch = 1)
  BY <1>4 DEF Climbs
<1>5. QED
  BY <1>2, <1>3, <1>4

(* A list to which its chunk was added.                                    *)
LEMMA BehindMore ==
  ASSUME NEW u \in Nat, NEW ch \in 1..Chunks, NEW once \in BOOLEAN,
         NEW list \in Seq(Entry), Behind(list, u, ch, once)
  PROVE  Got(list \o First(u, ch, Size), u, ch, once)
<1>1. PICK c \in Seq(1..Chunks) :
        /\ MadeOf(list, u, c)
        /\ \/ c = <<>> /\ ch = 1
           \/ Climbs(c, ch - 1, once)
           \/ ~ once /\ Climbs(c, ch, once)
  <2>1. CASE list = <<>> /\ ch = 1
    BY <2>1, MadeNone
  <2>2. CASE Got(list, u, ch - 1, once)
    BY <2>2 DEF Got
  <2>3. CASE ~ once /\ Got(list, u, ch, once)
    BY <2>3 DEF Got
  <2>4. QED
    BY <2>1, <2>2, <2>3 DEF Behind
<1>2. MadeOf(list \o First(u, ch, Size), u, Append(c, ch))
  BY <1>1, MadeOfMore
<1>3. Climbs(Append(c, ch), ch, once)
  BY <1>1, ClimbsMore
<1>4. Append(c, ch) \in Seq(1..Chunks)
  OBVIOUS
<1>5. QED
  BY <1>2, <1>3, <1>4 DEF Got

(* The order of the natural numbers is well-founded, ...                   *)
LessThanNat == OpToRel(<, Nat)
LEMMA LessThanWellFounded == IsWellFoundedOn(LessThanNat, Nat)
  BY NatLessThanWellFounded, Zenon DEF LessThanNat

(* ... it is what it is called ...                                         *)
LEMMA LessThanPairs == LessThanNat = {ss \in Nat \X Nat : ss[1] < ss[2]}
  BY Zenon DEF OpToRel, LessThanNat

(* ... and a set of numbers with an element has a least one.               *)
LEMMA LeastElement ==
  ASSUME NEW S, S \subseteq Nat, S # {}
  PROVE  \E m \in S : \A n \in S : m <= n
<1>1. PICK m \in S : \A n \in S : <<n, m>> \notin LessThanNat
  BY LessThanWellFounded, WFMin
<1>2. \A n \in S : ~ (n < m)
  <2>1. TAKE n \in S
  <2>2. <<n, m>> \notin LessThanNat
    BY <1>1
  <2>3. QED
    BY <2>2, LessThanPairs
<1>3. QED
  BY <1>1, <1>2

(* Numbers that climb from 1 to the last one leave out none.               *)
LEMMA ClimbsAll ==
  ASSUME NEW c \in Seq(1..Chunks), NEW once, Climbs(c, Chunks, once), NEW ch \in 1..Chunks
  PROVE  \E n \in DOMAIN c : c[n] = ch
<1> DEFINE High == {n \in 1..Len(c) : c[n] >= ch}
<1>1. /\ Len(c) \in Nat /\ Len(c) \in 1..Len(c) /\ DOMAIN c = 1..Len(c)
      /\ \A n \in 1..Len(c) : c[n] \in Nat
      /\ Chunks \in Nat /\ ch \in Nat /\ ch <= Chunks /\ ch >= 1
  <2>1. Len(c) \in Nat /\ DOMAIN c = 1..Len(c) /\ \A n \in 1..Len(c) : c[n] \in 1..Chunks
    BY NumbersOf
  <2>2. Len(c) # 0
    BY <2>1 DEF Climbs
  <2>3. QED
    BY <2>1, <2>2, UploadAssumption
<1>2. Len(c) \in High /\ High \subseteq Nat
  BY <1>1 DEF Climbs
<1> HIDE DEF High
<1>3. PICK n \in High : \A m \in High : n <= m
  BY <1>2, LeastElement
<1>4. n \in 1..Len(c) /\ c[n] >= ch
  BY <1>3 DEF High
<1>5. CASE n = 1
  BY <1>1, <1>4, <1>5 DEF Climbs
<1>6. CASE n # 1
  <2>1. n - 1 \in 1..(Len(c) - 1) /\ n - 1 \in 1..Len(c) /\ (n - 1) + 1 = n /\ ~ (n <= n - 1)
    BY <1>1, <1>4, <1>6
  <2>2. ~ (c[n - 1] >= ch)
    BY <1>3, <2>1 DEF High
  <2>3. c[n] \in {c[n - 1], c[n - 1] + 1}
    BY <2>1 DEF Climbs
  <2>4. c[n] = ch
    BY <1>1, <1>4, <2>1, <2>2, <2>3
  <2>5. QED
    BY <1>1, <1>4, <2>4
<1>7. QED
  BY <1>5, <1>6

(* The entries of an upload.                                               *)
LEMMA WholeTyped ==
  ASSUME NEW u \in Nat
  PROVE  /\ Whole(u) \in Seq(Entry) /\ Len(Whole(u)) = Chunks * Size
         /\ \A ch \in 1..Chunks, i \in 1..Size :
               /\ (ch - 1) * Size + i \in 1..Chunks * Size
               /\ Whole(u)[(ch - 1) * Size + i] = Entries(u, ch)[i]
<1>1. Chunks \in Nat /\ Size \in Nat \ {0} /\ Chunks * Size \in Nat
  BY UploadAssumption
<1>2. \A k \in 1..Chunks * Size : <<u, k>> \in Entry
  BY DEF Entry
<1>3. Whole(u) \in [1..Chunks * Size -> Entry]
  BY <1>2 DEF Whole
<1>4. ASSUME NEW ch \in 1..Chunks, NEW i \in 1..Size
      PROVE  /\ (ch - 1) * Size + i \in 1..Chunks * Size
             /\ Whole(u)[(ch - 1) * Size + i] = Entries(u, ch)[i]
  <2>1. (ch - 1) * Size + i \in 1..Chunks * Size
    BY <1>1, BlockIn
  <2>2. QED
    BY <2>1, EntriesTyped DEF Whole
<1>5. QED
  BY <1>1, <1>3, <1>4

(* A trace of every chunk has every entry of the upload ...                *)
LEMMA GotCovers ==
  ASSUME NEW u \in Nat, NEW once, NEW list \in Seq(Entry), Got(list, u, Chunks, once)
  PROVE  ToSet(Whole(u)) \subseteq ToSet(list)
<1>1. PICK c \in Seq(1..Chunks) : MadeOf(list, u, c) /\ Climbs(c, Chunks, once)
  BY DEF Got
<1>2. /\ Chunks \in Nat /\ Size \in Nat \ {0} /\ Len(c) \in Nat /\ DOMAIN c = 1..Len(c)
      /\ DOMAIN Whole(u) = 1..Chunks * Size
      /\ DOMAIN list = 1..Len(list) /\ Len(list) = Len(c) * Size
  BY <1>1, UploadAssumption, WholeTyped DEF MadeOf
<1>3. ASSUME NEW k \in 1..Chunks * Size
      PROVE  \E j \in DOMAIN list : list[j] = Whole(u)[k]
  <2>1. PICK ch \in 1..Chunks, i \in 1..Size : k = (ch - 1) * Size + i
    BY <1>2, BlockOf
  <2>2. PICK n \in DOMAIN c : c[n] = ch
    BY <1>1, ClimbsAll
  <2>3. list[(n - 1) * Size + i] = Entries(u, ch)[i]
    BY <1>1, <2>2 DEF MadeOf
  <2>4. (n - 1) * Size + i \in DOMAIN list
    BY <1>2, BlockIn
  <2>5. Whole(u)[k] = Entries(u, ch)[i]
    BY <2>1, WholeTyped
  <2>6. QED
    BY <2>3, <2>4, <2>5
<1>4. QED
  BY <1>2, <1>3 DEF ToSet

(* ... and nothing else, when no chunk was sent again.                     *)
LEMMA GotOnce ==
  ASSUME NEW u \in Nat, NEW list \in Seq(Entry), Got(list, u, Chunks, TRUE)
  PROVE  list = Whole(u)
<1>1. PICK c \in Seq(1..Chunks) : MadeOf(list, u, c) /\ Climbs(c, Chunks, TRUE)
  BY DEF Got
<1>2. Chunks \in Nat /\ Size \in Nat \ {0} /\ Len(c) \in Nat /\ DOMAIN c = 1..Len(c) /\ c # <<>>
  BY <1>1, UploadAssumption DEF Climbs
<1>3. \A n \in 1..Len(c) : c[n] = n
  BY <1>1 DEF Climbs
<1>4. Len(c) = Chunks
  <2>1. Len(c) # 0
    BY <1>2
  <2>2. Len(c) \in 1..Len(c)
    BY <1>2, <2>1
  <2>3. QED
    BY <1>1, <1>3, <2>2 DEF Climbs
<1>5. Len(list) = Chunks * Size
  BY <1>1, <1>4 DEF MadeOf
<1>6. ASSUME NEW k \in 1..Len(list) PROVE list[k] = Whole(u)[k]
  <2>0. k \in 1..Chunks * Size
    BY <1>5
  <2>1. PICK ch \in 1..Chunks, i \in 1..Size : k = (ch - 1) * Size + i
    BY <1>2, <2>0, BlockOf
  <2>2. list[(ch - 1) * Size + i] = Entries(u, ch)[i]
    BY <1>1, <1>2, <1>3, <1>4 DEF MadeOf
  <2>3. Whole(u)[(ch - 1) * Size + i] = Entries(u, ch)[i]
    BY WholeTyped
  <2>4. QED
    BY <2>1, <2>2, <2>3
<1>7. QED
  BY <1>5, <1>6, WholeTyped, SeqEqual

(* What the trace is then.                                                 *)
LEMMA GotEvery ==
  ASSUME NEW u \in Nat, NEW once \in BOOLEAN, NEW list \in Seq(Entry), Got(list, u, Chunks, once)
  PROVE  /\ list[1][1] = u
         /\ \E c \in [1..(Len(list) \div Size) -> 1..Chunks] :
               /\ MadeOf(list, u, c)
               /\ c[1] = 1 /\ c[Len(list) \div Size] = Chunks
               /\ \A n \in 1..((Len(list) \div Size) - 1) : c[n + 1] \in {c[n], c[n] + 1}
         /\ once => list = Whole(u)
<1>1. PICK c \in Seq(1..Chunks) : MadeOf(list, u, c) /\ Climbs(c, Chunks, once)
  BY DEF Got
<1>2. /\ Len(list) \div Size = Len(c)
      /\ c \in [1..(Len(list) \div Size) -> 1..Chunks]
      /\ c # <<>> /\ list[1][1] = u
  BY <1>1, MadeOfWhole DEF Climbs
<1>3. once => list = Whole(u)
  BY GotOnce
<1>4. QED
  BY <1>1, <1>2, <1>3 DEF Climbs
-----------------------------------------------------------------------------
(* Requests that are handled one after the other.                          *)

Once == resent = "no"
Single == \A t \in Thread : up[t].pc # "idle" => up[t].awaited

(* The list that the next request asks for has the chunks before, or, when *)
(* it is sent again or was handled already, the chunk as well.             *)
SentRight ==
    conn.state # "idle" /\ conn.token \in DOMAIN cache =>
        \/ Got(cache[conn.token], conn.upload, conn.chunk - 1, Once)
        \/ /\ Got(cache[conn.token], conn.upload, conn.chunk, Once)
           /\ Once => /\ conn.state = "waiting"
                      /\ \A t \in Thread : up[t].pc \notin {"begin", "get", "entries"}

(* So it is with the list that a thread has.                               *)
ThreadRight(me) ==
    /\ me.pc = "get" /\ me.token \in DOMAIN cache =>
          Behind(cache[me.token], me.upload, me.chunk, Once)
    /\ me.pc = "entries" =>
          \E base \in Seq(Entry) :
             /\ Behind(base, me.upload, me.chunk, Once)
             /\ me.log_list = base \o First(me.upload, me.chunk, me.done)
    /\ me.pc \in {"trace", "delete", "save"} => Got(me.log_list, me.upload, me.chunk, Once)
    /\ me.pc = "answer" /\ me.chunk # Chunks /\ me.token \in DOMAIN cache =>
          Got(cache[me.token], me.upload, me.chunk, Once)
    /\ me.pc \in {"delete", "save"} /\ trace.made_from = "upload" => trace.entries = me.log_list
    /\ me.pc = "save" => me.token \notin DOMAIN cache
TraceRight == trace.made_from = "upload" => \E u \in Nat : Got(trace.entries, u, Chunks, Once)

(* An upload that has cleared the flag does not clear it again: its list is*)
(* deleted, and a chunk of it that is sent again ends in an error.         *)
Over ==
    /\ finished \subseteq 1..conn.upload
    /\ conn.state # "idle" /\ conn.upload \in finished /\ (Once \/ Chunks # 1) =>
          /\ conn.chunk = Chunks
          /\ \A t \in Thread : up[t].pc \in {"idle", "begin", "get", "answer", "error"}
          /\ Once => conn.state = "waiting" /\ \A t \in Thread : up[t].pc \in {"idle", "answer"}
          /\ Chunks # 1 => conn.token \notin DOMAIN cache
Right == /\ Single /\ SentRight /\ TraceRight /\ Over
         /\ \A t \in Thread : ThreadRight(up[t])
RInv == resent # "early" => Right

(* The thread that handles a request is the only one that does.            *)
LEMMA Alone ==
  ASSUME MInv, Right, NEW t \in Thread, up[t].pc # "idle"
  PROVE  /\ up[t].awaited /\ conn.state = "waiting" /\ conn.upload \in Nat \ {0}
         /\ up[t].upload = conn.upload /\ up[t].chunk = conn.chunk
         /\ conn.token # 0 => up[t].token = conn.token
         /\ up[t].pc = "begin" => up[t].token = conn.token
         /\ (conn.token = 0) <=> (conn.chunk = 1)
         /\ \A s \in Thread \ {t} : up[s].pc = "idle"
<1>1. up[t].awaited
  BY DEF Right, Single
<1>2. \A s \in Thread \ {t} : ~ up[s].awaited
  BY <1>1 DEF MInv, Waits
<1>3. conn.upload \in Nat
  BY TypedParts DEF MInv, RestTyped
<1>4. Waits
  BY DEF MInv
<1>5. \A s \in Thread \ {t} : up[s].pc = "idle"
  BY <1>2 DEF Right, Single
<1>6. QED
  BY <1>1, <1>3, <1>4, <1>5 DEF Waits, Expected

(* A thread without a request.                                             *)
LEMMA IdleRight == ASSUME NEW me, me.pc = "idle" PROVE ThreadRight(me)
BY DEF ThreadRight

(* The statements of a request.                                            *)
LEMMA HandleRight ==
  ASSUME MInv, Right, NEW t \in Thread, Handle(t) \/ Fail(t)
  PROVE  Right'
<1>0. /\ CacheTyped /\ TraceTyped /\ tokens \in Nat /\ DOMAIN up = Thread
      /\ up[t] \in UpType(tokens) /\ Kept(up[t]) /\ ThreadMade(up[t]) /\ ThreadRight(up[t])
  BY TypedParts, ThreadTyped DEF MInv, Right
<1>a. /\ up[t].upload \in Nat /\ up[t].chunk \in 1..Chunks /\ up[t].log_list \in Seq(Entry)
      /\ up[t].done \in 0..Size /\ 0 \notin DOMAIN cache /\ Once \in BOOLEAN
  BY <1>0 DEF UpType, CacheTyped, Once
<1>b. /\ UNCHANGED <<conn, resent>> /\ OthersSame(t)
      /\ up[t].pc \notin {"idle", "answer", "error"} /\ up'[t].pc \notin {"idle", "begin"}
      /\ up'[t].upload = up[t].upload /\ up'[t].chunk = up[t].chunk
      /\ up'[t].awaited = up[t].awaited
  BY HandleSteps DEF MInv
<1>c. /\ up[t].awaited /\ conn.state = "waiting" /\ conn.upload \in Nat \ {0}
      /\ up[t].upload = conn.upload /\ up[t].chunk = conn.chunk
      /\ conn.token # 0 => up[t].token = conn.token
      /\ up[t].pc = "begin" => up[t].token = conn.token
      /\ (conn.token = 0) <=> (conn.chunk = 1)
      /\ \A s \in Thread \ {t} : up[s].pc = "idle"
  BY <1>b, Alone
<1>d. Once' = Once
  BY <1>b DEF Once
<1>e. Single'
  BY <1>b, <1>c DEF Single, OthersSame
<1>f. \A s \in Thread \ {t} : ThreadRight(up[s])' /\ up'[s].pc = "idle"
  BY <1>b, <1>c, IdleRight DEF OthersSame, ThreadRight
<1>g. ASSUME SentRight', ThreadRight(up[t])', TraceRight', Over'
      PROVE  Right'
  BY <1>e, <1>f, <1>g DEF Right
<1>h. ASSUME UNCHANGED cache, \/ up[t].pc \in {"begin", "get", "entries"}
                              \/ up'[t].pc \notin {"begin", "get", "entries"}
      PROVE  SentRight'
  <2>1. SentRight
    BY DEF Right
  <2>2. QED
    BY <1>b, <1>c, <1>d, <1>f, <1>h, <2>1 DEF SentRight
<1>i. ASSUME UNCHANGED trace
      PROVE  TraceRight'
  BY <1>d, <1>i DEF Right, TraceRight
<1>j. conn.token \in DOMAIN cache /\ up[t].pc \in {"begin", "get", "entries"} =>
         Behind(cache[conn.token], conn.upload, conn.chunk, Once)
  BY <1>c DEF Right, SentRight, Behind
<1>k. ASSUME conn.upload \in finished, Once \/ Chunks # 1
      PROVE  /\ up[t].pc \in {"begin", "get"} /\ ~ Once /\ conn.chunk = Chunks
             /\ conn.token # 0 /\ up[t].token = conn.token /\ conn.token \notin DOMAIN cache
  <2>1. Over
    BY DEF Right
  <2>2. QED
    BY <1>b, <1>c, <1>k, <2>1 DEF Over
<1>l. ASSUME UNCHANGED finished,
             conn.upload \in finished /\ (Once \/ Chunks # 1) =>
                up'[t].pc \in {"get", "error"} /\ conn.token \notin DOMAIN cache'
      PROVE  Over'
  <2>1. finished' \subseteq 1..conn'.upload
    BY <1>b, <1>l DEF Right, Over
  <2>2. QED
    BY <1>b, <1>d, <1>f, <1>k, <1>l, <2>1 DEF Over
<1>1. CASE Begin(t) /\ up[t].token = 0
  <2>1. /\ cache' = PutList(tokens + 1, <<>>) /\ UNCHANGED <<trace, finished>>
        /\ up' = [up EXCEPT ![t].pc = "get", ![t].token = tokens + 1] /\ up[t].pc = "begin"
    BY <1>1 DEF Begin
  <2>2. up'[t].pc = "get" /\ up'[t].token = tokens + 1
    BY <1>0, <2>1 DEF UpType
  <2>3. conn.token = 0 /\ conn.chunk = 1 /\ 0 \notin DOMAIN cache'
    BY <1>0, <1>1, <1>a, <1>c, <2>1 DEF PutList
  <2>4. cache'[tokens + 1] = <<>>
    BY <2>1 DEF PutList
  <2>5. Behind(<<>>, up[t].upload, up[t].chunk, Once)
    BY <1>c, <2>3 DEF Behind
  <2>6. ThreadRight(up[t])'
    BY <1>b, <1>d, <2>2, <2>4, <2>5 DEF ThreadRight
  <2>7. SentRight'
    BY <1>b, <2>3 DEF SentRight
  <2>8. Over'
    BY <1>1, <1>k, <1>l, <2>1
  <2>9. QED
    BY <1>g, <1>i, <2>1, <2>6, <2>7, <2>8
<1>2. CASE Begin(t) /\ up[t].token # 0
  <2>1. /\ UNCHANGED <<cache, trace, finished>> /\ up' = [up EXCEPT ![t].pc = "get"]
        /\ up[t].pc = "begin"
    BY <1>2 DEF Begin, Step
  <2>2. up'[t].pc = "get" /\ up'[t].token = up[t].token
    BY <1>0, <2>1 DEF UpType
  <2>3. up[t].token = conn.token
    BY <1>c, <2>1
  <2>4. ThreadRight(up[t])'
    BY <1>b, <1>c, <1>d, <1>j, <2>1, <2>2, <2>3 DEF ThreadRight
  <2>5. Over'
    BY <1>k, <1>l, <2>1, <2>2
  <2>6. QED
    BY <1>g, <1>h, <1>i, <2>1, <2>4, <2>5
<1>3. CASE GetList(t)
  <2>1. UNCHANGED <<cache, trace, finished>> /\ up[t].pc = "get"
    BY <1>3 DEF GetList
  <2>2. SentRight' /\ TraceRight'
    BY <1>h, <1>i, <2>1
  <2>3. CASE up[t].token \in DOMAIN cache
    <3>1. up' = [up EXCEPT ![t].pc = "entries", ![t].log_list = cache[up[t].token]]
      BY <1>3, <2>3 DEF GetList
    <3>2. /\ up'[t].pc = "entries" /\ up'[t].log_list = cache[up[t].token]
          /\ up'[t].done = up[t].done
      BY <1>0, <3>1 DEF UpType
    <3>3. Behind(cache[up[t].token], up[t].upload, up[t].chunk, Once)
      BY <1>0, <2>1, <2>3 DEF ThreadRight
    <3>4. cache[up[t].token] \in Seq(Entry)
      BY <1>0, <2>3 DEF CacheTyped
    <3>5. up[t].done = 0
      BY <1>0, <2>1 DEF ThreadMade
    <3>6. cache[up[t].token] \o First(up[t].upload, up[t].chunk, 0) = cache[up[t].token]
      BY <3>4, FirstNone
    <3>7. ThreadRight(up[t])'
      BY <1>b, <1>d, <3>2, <3>3, <3>4, <3>5, <3>6 DEF ThreadRight
    <3>8. Over'
      BY <1>k, <1>l, <2>1, <2>3
    <3>9. QED
      BY <1>g, <2>2, <3>7, <3>8
  <2>4. CASE up[t].token \notin DOMAIN cache
    <3>1. up'[t].pc = "error"
      BY <1>0, <1>3, <2>4 DEF GetList, Step, UpType
    <3>2. ThreadRight(up[t])'
      BY <3>1 DEF ThreadRight
    <3>3. Over'
      BY <1>k, <1>l, <2>1, <3>1
    <3>4. QED
      BY <1>g, <2>2, <3>2, <3>3
  <2>5. QED
    BY <2>3, <2>4
<1>4. CASE LogEntry(t)
  <2> DEFINE e == Entries(up[t].upload, up[t].chunk)[up[t].done + 1]
  <2>1. /\ UNCHANGED <<cache, trace, finished>> /\ up[t].pc = "entries" /\ up[t].done < Size
        /\ up' = [up EXCEPT ![t].log_list = Append(@, e), ![t].done = @ + 1]
    BY <1>4 DEF LogEntry
  <2>2. /\ up'[t].pc = "entries" /\ up'[t].log_list = Append(up[t].log_list, e)
        /\ up'[t].done = up[t].done + 1
    <3> HIDE DEF e
    <3>1. QED
      BY <1>0, <2>1 DEF UpType
  <2>3. PICK base \in Seq(Entry) :
          /\ Behind(base, up[t].upload, up[t].chunk, Once)
          /\ up[t].log_list = base \o First(up[t].upload, up[t].chunk, up[t].done)
    BY <1>0, <2>1 DEF ThreadRight
  <2>4. up'[t].log_list = base \o First(up[t].upload, up[t].chunk, up[t].done + 1)
    <3> DEFINE F == base \o First(up[t].upload, up[t].chunk, up[t].done)
    <3>1. Append(F, e) = base \o First(up[t].upload, up[t].chunk, up[t].done + 1)
      BY <1>a, <2>1, FirstMore
    <3>2. up'[t].log_list = Append(F, e)
      BY <2>2, <2>3
    <3> HIDE DEF F, e
    <3>3. QED
      BY <3>1, <3>2
  <2>5. ThreadRight(up[t])'
    <3> HIDE DEF e
    <3>1. QED
      BY <1>b, <1>d, <2>2, <2>3, <2>4 DEF ThreadRight
  <2>6. Over'
    BY <1>k, <1>l, <2>1
  <2>7. QED
    BY <1>g, <1>h, <1>i, <2>1, <2>5, <2>6
<1>5. CASE SetList(t)
  <2>1. /\ UNCHANGED <<trace, finished>> /\ up[t].pc = "entries" /\ up[t].done = Size
        /\ cache' = PutList(up[t].token, up[t].log_list)
        /\ up' = [up EXCEPT ![t].pc = IF up[t].chunk = Chunks THEN "trace" ELSE "answer"]
    BY <1>5 DEF SetList, Step
  <2>2. /\ up'[t].pc \in {"trace", "answer"} /\ up'[t].log_list = up[t].log_list
        /\ up'[t].token = up[t].token
    BY <1>0, <2>1 DEF UpType
  <2>3. Got(up[t].log_list, up[t].upload, up[t].chunk, Once)
    <3>1. PICK base \in Seq(Entry) :
            /\ Behind(base, up[t].upload, up[t].chunk, Once)
            /\ up[t].log_list = base \o First(up[t].upload, up[t].chunk, Size)
      BY <1>0, <2>1 DEF ThreadRight
    <3>2. QED
      BY <1>a, <3>1, BehindMore
  <2>4. cache'[up[t].token] = up[t].log_list
    BY <2>1 DEF PutList
  <2>5. ThreadRight(up[t])'
    BY <1>b, <1>d, <2>2, <2>3, <2>4 DEF ThreadRight
  <2>6. SentRight'
    <3>1. up[t].token # 0
      BY <1>0, <2>1 DEF Kept
    <3>2. conn.token \in DOMAIN cache' => up[t].token = conn.token
      BY <1>a, <1>c, <2>1, <3>1 DEF PutList
    <3>3. \A s \in Thread : up'[s].pc \notin {"begin", "get", "entries"}
      BY <1>f, <2>2
    <3>4. QED
      BY <1>b, <1>c, <1>d, <2>3, <2>4, <3>2, <3>3 DEF SentRight
  <2>7. Over'
    BY <1>k, <1>l, <2>1
  <2>8. QED
    BY <1>g, <1>i, <2>1, <2>5, <2>6, <2>7
<1>6. CASE SetTrace(t)
  <2>1. /\ UNCHANGED <<cache, finished>> /\ up[t].pc = "trace"
        /\ trace' = [made_from |-> "upload", entries |-> up[t].log_list]
    BY <1>6 DEF SetTrace
  <2>2. up'[t].pc = "delete" /\ up'[t].log_list = up[t].log_list
    BY <1>0, <1>6 DEF SetTrace, Step, UpType
  <2>3. Got(up[t].log_list, up[t].upload, up[t].chunk, Once) /\ up[t].chunk = Chunks
    BY <1>0, <2>1 DEF ThreadRight, Kept
  <2>4. ThreadRight(up[t])' /\ TraceRight'
    BY <1>a, <1>b, <1>d, <2>1, <2>2, <2>3 DEF ThreadRight, TraceRight
  <2>5. Over'
    BY <1>k, <1>l, <2>1
  <2>6. QED
    BY <1>g, <1>h, <2>1, <2>2, <2>4, <2>5
<1>7. CASE DeleteList(t)
  <2>1. UNCHANGED <<trace, finished>> /\ cache' = WithoutList(up[t].token) /\ up[t].pc = "delete"
    BY <1>7 DEF DeleteList
  <2>2. up'[t].pc = "save" /\ up'[t].log_list = up[t].log_list /\ up'[t].token = up[t].token
    BY <1>0, <1>7 DEF DeleteList, Step, UpType
  <2>3. up[t].token \notin DOMAIN cache' /\ 0 \notin DOMAIN cache'
    BY <1>a, <2>1 DEF WithoutList
  <2>4. ThreadRight(up[t])'
    BY <1>0, <1>b, <1>d, <2>1, <2>2, <2>3 DEF ThreadRight
  <2>5. SentRight'
    BY <1>b, <1>c, <2>3 DEF SentRight
  <2>6. Over'
    BY <1>k, <1>l, <2>1
  <2>7. QED
    BY <1>g, <1>i, <2>1, <2>4, <2>5, <2>6
<1>8. CASE ClearPending(t)
  <2>1. /\ UNCHANGED <<cache, trace>> /\ up[t].pc = "save"
        /\ finished' = finished \cup {up[t].upload}
    BY <1>8 DEF ClearPending
  <2>2. up'[t].pc = "answer" /\ up[t].chunk = Chunks
    BY <1>0, <1>8 DEF ClearPending, Step, UpType, Kept
  <2>3. ThreadRight(up[t])'
    BY <1>b, <2>2 DEF ThreadRight
  <2>4. Over'
    <3>1. conn.upload \in 1..conn.upload
      BY <1>c
    <3>2. finished' \subseteq 1..conn'.upload
      BY <1>b, <1>c, <2>1, <3>1 DEF Right, Over
    <3>3. Chunks # 1 => conn.token \notin DOMAIN cache
      <4>1. up[t].token \notin DOMAIN cache
        BY <1>0, <2>1 DEF ThreadRight
      <4>2. QED
        BY <1>c, <2>2, <4>1
    <3>4. QED
      BY <1>b, <1>c, <1>f, <2>1, <2>2, <3>2, <3>3 DEF Over
  <2>5. QED
    BY <1>g, <1>h, <1>i, <2>1, <2>2, <2>3, <2>4
<1>9. CASE Fail(t)
  <2>1. UNCHANGED <<cache, trace, finished>>
    BY <1>9 DEF Fail
  <2>2. up'[t].pc = "error"
    BY <1>0, <1>9 DEF Fail, Step, UpType
  <2>3. ThreadRight(up[t])'
    BY <2>2 DEF ThreadRight
  <2>4. Over'
    BY <1>k, <1>l, <2>1, <2>2
  <2>5. QED
    BY <1>g, <1>h, <1>i, <2>1, <2>2, <2>3, <2>4
<1>10. QED
  BY <1>1, <1>2, <1>3, <1>4, <1>5, <1>6, <1>7, <1>8, <1>9 DEF Handle

(* What the connector does, as long as no request is sent again before its *)
(* answer.                                                                 *)
LEMMA ConnectorRight ==
  ASSUME MInv, Right, NEW t \in Thread, Connector(t) \/ Resend(t) \/ TimeOut(t),
         resent' # "early"
  PROVE  Right'
<1>0. /\ DOMAIN up = Thread /\ \A s \in Thread : up[s] \in UpType(tokens)
      /\ conn \in [state : {"idle", "sending", "waiting"}, upload : Nat,
                   chunk : 1..Chunks, token : 0..tokens]
  BY TypedParts, ThreadTyped DEF MInv, RestTyped
<1>a. UNCHANGED <<cache, trace, finished>> /\ OthersSame(t) /\ ~ TimeOut(t)
  BY ConnectorSteps DEF MInv, TimeOut
<1>b. Once \in BOOLEAN /\ Once' \in BOOLEAN /\ Idle.pc = "idle"
  BY DEF Once, Idle
<1>c. Once' => Once
  BY DEF Once, Connector, Resend, Send, Answered, GiveUp, Unheard, TimeOut
<1>d. TraceRight'
  <2>1. SUFFICES ASSUME trace.made_from = "upload"
                 PROVE  \E u \in Nat : Got(trace.entries, u, Chunks, Once')
    BY <1>a DEF TraceRight
  <2>2. PICK u \in Nat : Got(trace.entries, u, Chunks, Once)
    BY <2>1 DEF Right, TraceRight
  <2>3. QED
    BY <1>b, <1>c, <2>2, GotLater
<1>e. SentRight /\ Over
  BY DEF Right
<1>1. CASE Send(t)
  <2>1. /\ conn' = [conn EXCEPT !.state = "waiting"] /\ conn.state = "sending"
        /\ up[t].pc = "idle" /\ up'[t].pc = "begin" /\ up'[t].awaited /\ Once' = Once
    BY <1>1, <1>a, ConnectorSteps DEF MInv, Once
  <2>2. conn'.upload = conn.upload /\ conn'.chunk = conn.chunk /\ conn'.token = conn.token
        /\ conn'.state = "waiting"
    BY <1>0, <2>1
  <2>3. \A s \in Thread : up[s].pc = "idle"
    BY <2>1, Alone
  <2>4. Single' /\ \A s \in Thread : ThreadRight(up[s])'
    BY <1>a, <2>1, <2>3 DEF Single, OthersSame, ThreadRight
  <2>5. SentRight'
    BY <1>a, <1>e, <2>1, <2>2 DEF SentRight
  <2>6. Over'
    <3>1. \A s \in Thread : up'[s].pc \in {"idle", "begin"}
      BY <1>a, <2>1, <2>3 DEF OthersSame
    <3>2. QED
      BY <1>a, <1>e, <2>1, <2>2, <3>1 DEF Over
  <2>7. QED
    BY <1>d, <2>4, <2>5, <2>6 DEF Right
<1>2. CASE ~ Send(t)
  <2>1. up[t].pc \in {"answer", "error"} /\ up'[t] = Idle
        /\ (Answered(t) \/ GiveUp(t) \/ Unheard(t) \/ Resend(t))
    BY <1>2, <1>a, ConnectorSteps DEF MInv
  <2>2. /\ up[t].awaited /\ up[t].upload = conn.upload /\ up[t].chunk = conn.chunk
        /\ conn.state = "waiting"
        /\ conn.token # 0 => up[t].token = conn.token
        /\ \A s \in Thread \ {t} : up[s].pc = "idle"
    BY <2>1, Alone
  <2>3. \A s \in Thread : up'[s].pc = "idle"
    BY <1>a, <1>b, <2>1, <2>2 DEF OthersSame
  <2>4. Single' /\ \A s \in Thread : ThreadRight(up[s])'
    BY <2>3 DEF Single, ThreadRight
  <2>5. ~ Unheard(t)
    BY <2>2 DEF Unheard
  <2>6. CASE GiveUp(t) \/ (Answered(t) /\ conn.chunk = Chunks)
    <3>1. conn' = [conn EXCEPT !.state = "idle"]
      BY <2>6 DEF GiveUp, Answered
    <3>2. conn'.state = "idle" /\ conn'.upload = conn.upload
      BY <1>0, <3>1
    <3>3. SentRight' /\ Over'
      BY <1>a, <1>e, <3>2 DEF SentRight, Over
    <3>4. QED
      BY <1>d, <2>4, <3>3 DEF Right
  <2>7. CASE Answered(t) /\ conn.chunk # Chunks
    <3>1. conn' = [conn EXCEPT !.state = "sending", !.chunk = @ + 1, !.token = up[t].token]
          /\ up[t].pc = "answer" /\ Once' = Once
      BY <2>7 DEF Answered, Once
    <3>2. /\ conn'.state = "sending" /\ conn'.upload = conn.upload
          /\ conn'.chunk = conn.chunk + 1 /\ conn'.token = up[t].token
      BY <1>0, <3>1
    <3>3. conn'.chunk - 1 = conn.chunk
      BY <1>0, <3>2, UploadAssumption
    <3>4. up[t].token \in DOMAIN cache => Got(cache[up[t].token], conn.upload, conn.chunk, Once)
      BY <2>2, <2>7, <3>1 DEF Right, ThreadRight
    <3>5. SentRight'
      BY <1>a, <3>1, <3>2, <3>3, <3>4 DEF SentRight
    <3>6. ~ (conn.upload \in finished /\ (Once \/ Chunks # 1))
      BY <1>e, <2>2, <2>7 DEF Over
    <3>7. Over'
      BY <1>a, <1>e, <3>1, <3>2, <3>6 DEF Over
    <3>8. QED
      BY <1>d, <2>4, <3>5, <3>7 DEF Right
  <2>8. CASE Resend(t)
    <3>1. conn' = [conn EXCEPT !.state = "sending"] /\ ~ Once'
      BY <2>8 DEF Resend, Once
    <3>2. /\ conn'.state = "sending" /\ conn'.upload = conn.upload
          /\ conn'.chunk = conn.chunk /\ conn'.token = conn.token
      BY <1>0, <3>1
    <3>3. SentRight'
      <4>1. SUFFICES ASSUME conn.token \in DOMAIN cache
                     PROVE  \/ Got(cache[conn.token], conn.upload, conn.chunk - 1, Once')
                            \/ Got(cache[conn.token], conn.upload, conn.chunk, Once')
        BY <1>a, <3>1, <3>2 DEF SentRight
      <4>2. \/ Got(cache[conn.token], conn.upload, conn.chunk - 1, Once)
            \/ Got(cache[conn.token], conn.upload, conn.chunk, Once)
        BY <1>e, <2>2, <4>1 DEF SentRight
      <4>3. QED
        BY <1>b, <1>c, <4>2, GotLater
    <3>4. Over'
      BY <1>a, <1>e, <2>2, <2>3, <3>1, <3>2 DEF Over
    <3>5. QED
      BY <1>d, <2>4, <3>3, <3>4 DEF Right
  <2>9. QED
    BY <2>1, <2>5, <2>6, <2>7, <2>8
<1>3. QED
  BY <1>1, <1>2

(* The views, the page and the caches.                                     *)
LEMMA OthersRight ==
  ASSUME MInv, Right, \/ \E r \in Reader : Look(r) \/ Query(r) \/ Rebuild(r)
                      \/ \E k \in 1..tokens : Expire(k)
                      \/ Poll \/ Click \/ Proceed \/ Reload \/ ClearTrace
  PROVE  Right'
<1>0. conn \in [state : {"idle", "sending", "waiting"}, upload : Nat,
                chunk : 1..Chunks, token : 0..tokens] /\ CacheTyped
  BY TypedParts DEF MInv, RestTyped
<1>1. /\ UNCHANGED <<up, resent, finished>>
      /\ \/ conn' = conn
         \/ /\ conn.state = "idle" /\ UNCHANGED <<cache, trace>>
            /\ conn' = [state |-> "sending", upload |-> conn.upload + 1, chunk |-> 1, token |-> 0]
      /\ cache' = cache \/ \E k \in DOMAIN cache : cache' = WithoutList(k)
      /\ trace' = trace \/ trace'.made_from # "upload"
  BY OthersSteps
<1>2. \A k \in DOMAIN cache' : k \in DOMAIN cache /\ cache'[k] = cache[k]
  BY <1>1 DEF WithoutList
<1>3. Once' = Once /\ Single'
  BY <1>1 DEF Once, Right, Single
<1>4. TraceRight'
  BY <1>1, <1>3 DEF Right, TraceRight
<1>5. ASSUME NEW s \in Thread PROVE ThreadRight(up[s])'
  <2>1. ThreadRight(up[s])
    BY DEF Right
  <2>2. QED
    BY <1>1, <1>2, <1>3, <2>1 DEF ThreadRight
<1>6. SentRight /\ Over
  BY DEF Right
<1>7. CASE conn' = conn
  <2>1. SentRight'
    BY <1>1, <1>2, <1>3, <1>6, <1>7 DEF SentRight
  <2>2. Over'
    BY <1>1, <1>2, <1>3, <1>6, <1>7 DEF Over
  <2>3. QED
    BY <1>3, <1>4, <1>5, <2>1, <2>2 DEF Right
<1>8. CASE conn' # conn
  <2>1. /\ conn'.token = 0 /\ conn'.upload = conn.upload + 1 /\ 0 \notin DOMAIN cache'
    BY <1>0, <1>1, <1>2, <1>8 DEF CacheTyped
  <2>2. SentRight'
    BY <2>1 DEF SentRight
  <2>3. finished \subseteq 1..(conn.upload + 1) /\ conn.upload + 1 \notin finished
    <3>1. finished \subseteq 1..conn.upload
      BY <1>6 DEF Over
    <3>2. \A n \in Nat : 1..n \subseteq 1..(n + 1) /\ n + 1 \notin 1..n
      OBVIOUS
    <3>3. QED
      BY <1>0, <3>1, <3>2
  <2>4. Over'
    BY <1>1, <2>1, <2>3 DEF Over
  <2>5. QED
    BY <1>3, <1>4, <1>5, <2>2, <2>4 DEF Right
<1>9. QED
  BY <1>7, <1>8

(* Every step keeps it so.                                                 *)
LEMMA RightStep ==
  ASSUME MInv, RInv, [Next]_vars
  PROVE  RInv'
<1>1. SUFFICES ASSUME resent' # "early" PROVE Right'
  BY DEF RInv
<1>2. CASE UNCHANGED vars
  <2>1. Right
    BY <1>1, <1>2 DEF vars, RInv
  <2>2. UNCHANGED <<cache, trace, up, conn, finished>> /\ Once' = Once
    BY <1>2 DEF vars, Once
  <2>3. Single' /\ SentRight' /\ TraceRight' /\ Over'
    BY <2>1, <2>2 DEF Right, Single, SentRight, TraceRight, Over
  <2>4. ASSUME NEW s \in Thread PROVE ThreadRight(up[s])'
    <3>1. ThreadRight(up[s])
      BY <2>1 DEF Right
    <3>2. QED
      BY <2>2, <3>1 DEF ThreadRight
  <2>5. QED
    BY <2>3, <2>4 DEF Right
<1>3. ASSUME NEW t \in Thread, Handle(t) \/ Fail(t)
      PROVE  Right'
  <2>1. resent' = resent
    BY <1>3, HandleSteps DEF MInv
  <2>2. QED
    BY <1>1, <1>3, <2>1, HandleRight DEF RInv
<1>4. ASSUME NEW t \in Thread, Connector(t) \/ Resend(t) \/ TimeOut(t)
      PROVE  Right'
  <2>1. resent # "early"
    BY <1>1, <1>4 DEF Connector, Send, Answered, GiveUp, Unheard, Resend, TimeOut
  <2>2. QED
    BY <1>1, <1>4, <2>1, ConnectorRight DEF RInv
<1>5. CASE \/ \E r \in Reader : Look(r) \/ Query(r) \/ Rebuild(r)
           \/ \E j \in 1..tokens : Expire(j)
           \/ Poll \/ Click \/ Proceed \/ Reload \/ ClearTrace
  <2>1. resent' = resent
    BY <1>5, OthersSteps
  <2>2. QED
    BY <1>1, <1>5, <2>1, OthersRight DEF RInv
<1>6. QED
  BY <1>2, <1>3, <1>4, <1>5, Zenon DEF Next

(* At first there is no request.                                           *)
LEMMA InitRight == Init => RInv
<1> SUFFICES ASSUME Init PROVE Right
  BY DEF RInv
<1>1. trace.made_from = "none" /\ conn.state = "idle" /\ finished = {}
      /\ \A t \in Thread : up[t].pc = "idle"
  BY DEF Init, Idle
<1>2. Single /\ SentRight /\ TraceRight /\ Over
  BY <1>1 DEF Single, SentRight, TraceRight, Over
<1>3. \A t \in Thread : ThreadRight(up[t])
  BY <1>1, IdleRight
<1>4. QED
  BY <1>2, <1>3 DEF Right

(* The trace an upload makes is whole chunks of it; it has every chunk, in *)
(* order, when requests are handled one after the other, and exactly once, *)
(* when none was sent again (UploadComplete).                              *)
THEOREM UploadWhole == Spec => []UploadComplete
<1>1. MInv /\ RInv => EveryChunkInOrder
  <2> SUFFICES ASSUME MInv, Right, trace.made_from = "upload"
               PROVE  EveryChunkInOrder
    BY DEF RInv, EveryChunkInOrder
  <2>1. trace.entries \in Seq(Entry) /\ Once \in BOOLEAN
    BY TypedParts DEF MInv, TraceTyped, Once
  <2>2. PICK u \in Nat : Got(trace.entries, u, Chunks, Once)
    BY DEF Right, TraceRight
  <2>3. /\ trace.entries[1][1] = u
        /\ \E c \in [1..(Len(trace.entries) \div Size) -> 1..Chunks] :
              /\ MadeOf(trace.entries, u, c)
              /\ c[1] = 1 /\ c[Len(trace.entries) \div Size] = Chunks
              /\ \A n \in 1..((Len(trace.entries) \div Size) - 1) : c[n + 1] \in {c[n], c[n] + 1}
        /\ Once => trace.entries = Whole(u)
    BY <2>1, <2>2, GotEvery
  <2>4. QED
    BY <2>3 DEF EveryChunkInOrder, Once
<1>2. MInv /\ RInv /\ [Next]_vars => MInv' /\ RInv'
  BY MadeStep, RightStep
<1>3. QED
  BY <1>1, <1>2, InitMade, InitRight, WholeChunksOnly, PTL DEF Spec, UploadComplete

(* When the flag is cleared, views get a trace that has every entry of an  *)
(* upload that has not cleared it before (FlagClearedCovered).             *)
THEOREM FlagCleared == Spec => FlagClearedCovered
<1>1. ASSUME IInv, MInv, RInv, [Next]_vars, pending, ~ pending',
             resent = "no" \/ (resent = "late" /\ Chunks # 1)
      PROVE  \/ trace.made_from = "log"
             \/ \E u \in (1..conn.upload) \ finished : ToSet(Whole(u)) \subseteq ToSet(TraceShown)
  <2>1. Right /\ (Once \/ Chunks # 1)
    BY <1>1 DEF RInv, Once
  <2>2. PICK t \in Thread : ClearPending(t)
    <3>1. Next
      BY <1>1 DEF vars
    <3>2. ASSUME NEW t \in Thread, Connector(t) \/ Resend(t) \/ TimeOut(t)
          PROVE  FALSE
      BY <1>1, <3>2, ConnectorSteps DEF MInv
    <3>3. ASSUME NEW t \in Thread, Handle(t) \/ Fail(t)
          PROVE  ClearPending(t)
      BY <1>1, <3>3 DEF Handle, Fail, Begin, GetList, LogEntry, SetList, SetTrace, DeleteList
    <3>4. CASE \/ \E r \in Reader : Look(r) \/ Query(r) \/ Rebuild(r)
               \/ \E k \in 1..tokens : Expire(k)
               \/ Poll \/ Click \/ Proceed \/ Reload \/ ClearTrace
      BY <1>1, <3>4, OthersSteps
    <3>5. QED
      BY <3>1, <3>2, <3>3, <3>4, Zenon DEF Next
  <2>3. up[t].pc = "save"
    BY <2>2 DEF ClearPending
  <2>4. /\ up[t].upload = conn.upload /\ conn.upload \in Nat \ {0} /\ conn.state = "waiting"
    BY <1>1, <2>1, <2>3, Alone
  <2>5. conn.upload \notin finished /\ conn.upload \in 1..conn.upload
    BY <2>1, <2>3, <2>4 DEF Right, Over
  <2>6. /\ Got(up[t].log_list, conn.upload, Chunks, Once)
        /\ trace.made_from = "upload" => trace.entries = up[t].log_list
        /\ up[t].log_list \in Seq(Entry)
    BY <1>1, <2>1, <2>3, <2>4, ThreadTyped DEF Right, ThreadRight, MInv, Tokens, Kept, UpType
  <2>7. ToSet(Whole(conn.upload)) \subseteq ToSet(up[t].log_list)
    BY <2>4, <2>6, GotCovers
  <2>8. CASE trace.made_from = "upload"
    BY <2>5, <2>6, <2>7, <2>8 DEF TraceShown
  <2>9. CASE trace.made_from = "none"
    <3>1. ToSet(up[t].log_list) \subseteq ToSet(log)
      BY <1>1, BackedIsLogged DEF IInv, ThreadsBacked
    <3>2. ToSet(log) \subseteq ToSet(RowsByTime)
      BY <1>1, RowsByTimeRows, TypedParts DEF MInv
    <3>3. QED
      BY <2>5, <2>7, <2>9, <3>1, <3>2 DEF TraceShown
  <2>10. trace.made_from \in {"none", "upload", "log"}
    BY <1>1, TypedParts DEF MInv, TraceTyped
  <2>11. QED
    BY <2>8, <2>9, <2>10
<1>2. IInv /\ MInv /\ RInv /\ [Next]_vars => IInv' /\ MInv' /\ RInv'
  BY BackedStep, MadeStep, RightStep
<1>3. Init => IInv /\ MInv /\ RInv
  BY InitBacked, InitMade, InitRight
<1>4. QED
  BY <1>1, <1>2, <1>3, PTL DEF Spec, FlagClearedCovered
=============================================================================

----------------------------- MODULE Statistics -----------------------------
(***************************************************************************)
(* internal/statistics under concurrent handlers: what each transport's    *)
(* handler counts and when, the latency recorder with its compare-and-swap *)
(* loops, and the snapshot --stats renders.  Every counter is its own      *)
(* atomic, so a handler or a snapshot is between two of them at any time.  *)
(***************************************************************************)
EXTENDS Integers, Sequences, FiniteSets, FiniteSetsExt, Functions

CONSTANTS Handlers,   \* the queries, one handler each
          Transports, \* among "udp", "tcp", "dot", "doq", "doh"
          Rcodes,     \* the outcomes a reply may have, "servfail" among them
          Samples     \* the latencies a handler may measure, in microseconds

ASSUME CountersAssumption ==
  /\ Transports \subseteq {"udp", "tcp", "dot", "doq", "doh"}
  /\ Rcodes \subseteq {"servfail", "nxdomain", "success", "other"}
  /\ Samples \subseteq Nat

NoSample == -1
Mode(t) == IF t \in {"udp", "tcp"} THEN 1 ELSE 2
Streams == {"tcp", "dot", "doq"}        \* packStream, and writes that are checked

VARIABLES
  hpc, hvia, rcode, us,  \* each handler: position, transport, outcome, sample
  long,                  \* whether its reply was too long and went out as SERVFAIL
  seen,                  \* the value its compare-and-swap loop has loaded
  queries, bucket,       \* TotalQueries, and the four response counters
  lat,                   \* the (total, count, min, max) of each mode
  spc, snap              \* the snapshot: its next read, and what it has read

counters == <<queries, bucket, lat>>
statVars == <<hpc, hvia, rcode, long, us, seen, queries, bucket, lat, spc, snap>>

\* The response counters, in the order TakeSnapshot loads them.
Load1(r) == IF r \in Rcodes THEN <<r>> ELSE <<>>
Replies == Load1("servfail") \o Load1("nxdomain") \o Load1("success") \o Load1("other")
\* Faulty forms: a sum before its divisor, the responses before the queries.
ReadsTotalFirst == <<"total", "count", "queries">> \o Replies
ReadsQueriesLast == <<"count", "total">> \o Replies \o <<"queries">>
\* The order in which TakeSnapshot loads what the report divides or subtracts.
Reads == <<"count", "total", "queries">> \o Replies
Unread == [total |-> 0, count |-> 0, queries |-> 0, open |-> 0, buckets |-> 0]

CountersInit ==
  /\ hpc = [h \in Handlers |-> "free"] /\ hvia = [h \in Handlers |-> "none"]
  /\ rcode = [h \in Handlers |-> "none"] /\ us = [h \in Handlers |-> NoSample]
  /\ long = [h \in Handlers |-> FALSE] /\ seen = [h \in Handlers |-> 0]
  /\ queries = 0 /\ bucket = [r \in Rcodes |-> 0]
  /\ lat = [m \in {1, 2} |-> [total |-> 0, count |-> 0, min |-> 0, max |-> 0]]
  /\ spc = 1 /\ snap = Unread

At(h, here, there) == hpc[h] = here /\ hpc' = [hpc EXCEPT ![h] = there]
M(h) == Mode(hvia[h])

(***************************************************************************)
(* A handler                                                               *)
(***************************************************************************)
\* The query parsed: it counts whatever becomes of it.
Ingress(h, t) ==
  /\ At(h, "free", "resolve") /\ hvia' = [hvia EXCEPT ![h] = t]
  /\ queries' = queries + 1
  /\ UNCHANGED <<rcode, long, us, seen, bucket, lat, spc, snap>>

\* Answered without a fetch, or the fetch failed: no upstream latency.
Answer(h, r) ==
  /\ At(h, "resolve", "reply") /\ rcode' = [rcode EXCEPT ![h] = r]
  /\ UNCHANGED <<hvia, long, us, seen, counters, spc, snap>>

\* A Mode 1 handler times a fetch that succeeds.
Fetched(h, r, d) ==
  /\ M(h) = 1 /\ At(h, "resolve", "add") /\ rcode' = [rcode EXCEPT ![h] = r]
  /\ us' = [us EXCEPT ![h] = d]
  /\ UNCHANGED <<hvia, long, seen, counters, spc, snap>>

\* The reply cannot be packed, or a stream cannot be written: not counted.
\* A failed write over UDP or HTTP is counted all the same.
Drop(h) ==
  /\ At(h, "reply", "dropped")
  /\ UNCHANGED <<hvia, rcode, long, us, seen, counters, spc, snap>>

\* packStream replaces a reply that is too long for its prefix by SERVFAIL (one
\* that was SERVFAIL before stays that, long or not).
Packed(h) ==
  \E l \in BOOLEAN :
    /\ l => hvia[h] \in Streams /\ rcode[h] # "servfail"
    /\ long' = [long EXCEPT ![h] = l]

\* Faulty form: a stream reply too long for its prefix counts as two.
SentCountsReplacement(h, d) ==
  /\ hpc[h] = "reply" /\ hvia[h] \in Streams
  /\ hpc' = [hpc EXCEPT ![h] = IF M(h) = 1 THEN "done" ELSE "add"]
  /\ us' = IF M(h) = 2 THEN [us EXCEPT ![h] = d] ELSE us
  /\ long' = [long EXCEPT ![h] = TRUE]
  /\ bucket' = [r \in Rcodes |-> bucket[r] + (IF r \in {rcode[h], "servfail"} THEN 1 ELSE 0)]
  /\ UNCHANGED <<hvia, rcode, seen, queries, lat, spc, snap>>

\* RecordResponse once the reply is out, with the rcode it had before packStream.
\* Mode 2 times the whole service.
Sent(h, d) ==
  /\ hpc[h] = "reply" /\ Packed(h)
  /\ hpc' = [hpc EXCEPT ![h] = IF M(h) = 1 THEN "done" ELSE "add"]
  /\ us' = IF M(h) = 2 THEN [us EXCEPT ![h] = d] ELSE us
  /\ bucket' = [bucket EXCEPT ![rcode[h]] = @ + 1]
  /\ UNCHANGED <<hvia, rcode, seen, queries, lat, spc, snap>>

(***************************************************************************)
(* recordLatencyInto                                                       *)
(***************************************************************************)
AddTotal(h) ==
  /\ At(h, "add", "count") /\ lat' = [lat EXCEPT ![M(h)].total = @ + us[h]]
  /\ UNCHANGED <<hvia, rcode, long, us, seen, queries, bucket, spc, snap>>

AddCount(h) ==
  /\ At(h, "count", "min") /\ lat' = [lat EXCEPT ![M(h)].count = @ + 1]
  /\ UNCHANGED <<hvia, rcode, long, us, seen, queries, bucket, spc, snap>>

\* 0 stands for "no sample yet".
LoadMin(h) ==
  LET cur == lat[M(h)].min IN
  /\ At(h, "min", IF cur # 0 /\ cur <= us[h] THEN "max" ELSE "casmin")
  /\ seen' = [seen EXCEPT ![h] = IF hpc'[h] \in {"casmin", "casmax"} THEN cur ELSE 0]
  /\ UNCHANGED <<hvia, rcode, long, us, counters, spc, snap>>

\* Faulty form: stores without comparing.
StoreMin(h) ==
  /\ At(h, "casmin", "max") /\ lat' = [lat EXCEPT ![M(h)].min = us[h]]
  /\ seen' = [seen EXCEPT ![h] = 0]
  /\ UNCHANGED <<hvia, rcode, long, us, queries, bucket, spc, snap>>

CasMin(h) ==
  LET same == lat[M(h)].min = seen[h] IN
  /\ At(h, "casmin", IF same THEN "max" ELSE "min")
  /\ lat' = IF same THEN [lat EXCEPT ![M(h)].min = us[h]] ELSE lat
  /\ seen' = [seen EXCEPT ![h] = 0]
  /\ UNCHANGED <<hvia, rcode, long, us, queries, bucket, spc, snap>>

Recorded(h) == IF M(h) = 1 THEN "reply" ELSE "done"

LoadMax(h) ==
  LET cur == lat[M(h)].max IN
  /\ At(h, "max", IF cur >= us[h] THEN Recorded(h) ELSE "casmax")
  /\ seen' = [seen EXCEPT ![h] = IF hpc'[h] \in {"casmin", "casmax"} THEN cur ELSE 0]
  /\ UNCHANGED <<hvia, rcode, long, us, counters, spc, snap>>

CasMax(h) ==
  LET same == lat[M(h)].max = seen[h] IN
  /\ At(h, "casmax", IF same THEN Recorded(h) ELSE "max")
  /\ lat' = IF same THEN [lat EXCEPT ![M(h)].max = us[h]] ELSE lat
  /\ seen' = [seen EXCEPT ![h] = 0]
  /\ UNCHANGED <<hvia, rcode, long, us, queries, bucket, spc, snap>>

(***************************************************************************)
(* TakeSnapshot, one load at a time, and the next request                  *)
(***************************************************************************)
Begun(h) == hpc[h] # "free"
\* RecordResponse is done: the bucket holds this query.
Counted(h) == hpc[h] = "done" \/ (M(h) = 2 /\ hpc[h] \notin {"free", "resolve", "reply", "dropped"})
Open == Cardinality({h \in Handlers : Begun(h) /\ ~Counted(h)})

Read ==
  /\ spc <= Len(Reads) /\ spc' = spc + 1
  /\ snap' = CASE Reads[spc] = "count"   -> [snap EXCEPT !.count = lat[1].count]
               [] Reads[spc] = "total"   -> [snap EXCEPT !.total = lat[1].total]
               [] Reads[spc] = "queries" -> [snap EXCEPT !.queries = queries, !.open = Open]
               [] OTHER -> [snap EXCEPT !.buckets = @ + bucket[Reads[spc]]]
  /\ UNCHANGED <<hpc, hvia, rcode, long, us, seen, counters>>

Rendered == spc > Len(Reads)

Request ==
  /\ Rendered /\ spc' = 1 /\ snap' = Unread
  /\ UNCHANGED <<hpc, hvia, rcode, long, us, seen, counters>>

Record(h) == AddTotal(h) \/ AddCount(h) \/ LoadMin(h) \/ CasMin(h) \/ LoadMax(h) \/ CasMax(h)

CountersNext ==
  \/ \E h \in Handlers :
       \/ \E t \in Transports : Ingress(h, t)
       \/ \E r \in Rcodes : Answer(h, r) \/ \E d \in Samples : Fetched(h, r, d)
       \/ \E d \in Samples : Sent(h, d)
       \/ Drop(h) \/ Record(h)
  \/ Read \/ Request

CountersSpec == CountersInit /\ [][CountersNext]_statVars

(***************************************************************************)
(* Properties                                                              *)
(***************************************************************************)
Total == SumFunction(bucket)

\* The replies clients got with rcode r, and those that packStream turned into
\* SERVFAIL from another rcode.
GotAs(r) == {h \in Handlers : Counted(h) /\ (IF long[h] THEN "servfail" ELSE rcode[h]) = r}
Replaced == {h \in Handlers : Counted(h) /\ long[h] /\ rcode[h] # "servfail"}

\* Success + SERVFAIL + NXDOMAIN + other is TotalQueries less the queries
\* still handled or dropped before the send ("exactly ONE bucket ... per response
\* sent").  Each bucket counts the replies sent with its rcode, except for the
\* replies that packStream replaced: they are missing from SERVFAIL, with which
\* they were sent, and are counted under the rcode they had.
Conserved ==
  /\ queries - Total = Open
  /\ \A r \in Rcodes :
       bucket[r] = IF r = "servfail"
                   THEN Cardinality(GotAs(r)) - Cardinality(Replaced)
                   ELSE Cardinality(GotAs(r)) + Cardinality({h \in Replaced : rcode[h] = r})

\* The "Unaccounted" of a report, computed from loads taken at different
\* times, never exceeds the queries that were open when the total was read:
\* a query answered in between is not reported as a drop.
GapWasOpen == Rendered => snap.queries - snap.buckets <= snap.open

\* The samples of a mode: those its recorders have added.
Added(m) == {h \in Handlers : M(h) = m /\ us[h] # NoSample /\
               hpc[h] \notin {"free", "resolve", "add"} /\ (m = 2 => Counted(h))}

\* The average of a report, total / count of two loads, is not below the
\* fastest fetch recorded: no count is ahead of its total.
AverageNotBelowFastest ==
  Rendered /\ snap.count > 0 => snap.total >= snap.count * Min({us[h] : h \in Added(1)})

\* Once the recorders of a mode are through, concurrent updates have lost
\* nothing: count, total, maximum and, unless a sample was 0, minimum are
\* those of the samples.
LatencyExact ==
  \A m \in {1, 2} :
    LET R == Added(m) IN
    (\A h \in R : hpc[h] \in {"reply", "done", "dropped"}) /\ R # {} =>
      /\ lat[m].count = Cardinality(R)
      /\ lat[m].total = SumFunction([h \in R |-> us[h]])
      /\ lat[m].max = Max({us[h] : h \in R})
      /\ (\A h \in R : us[h] # 0) => lat[m].min = Min({us[h] : h \in R})
=============================================================================

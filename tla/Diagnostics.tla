---------------------------- MODULE Diagnostics ----------------------------
(***************************************************************************)
(* What the program counts of itself (core/Diagnostics.*, HookCounters.hpp *)
(* and the diagnostics block of app/main.cpp).  The hook callback counts   *)
(* an event twice, on entry in the hook's counters and on exit in the      *)
(* report's; the UI thread re-bases the second on the first before every   *)
(* report, one counter at a time, while the hook goes on.  Deliveries go   *)
(* to a ring of the latest few; traced events to a second ring that the UI *)
(* drains into a log file of bounded size.                                 *)
(*                                                                         *)
(* A line of the log is two units long and its newline one; a latency is   *)
(* one of a few values.                                                    *)
(***************************************************************************)
EXTENDS Integers, Sequences, FiniteSets, SequencesExt

CONSTANTS Latencies,                 \* microseconds a decision may take
          Buckets,                   \* Histogram::kBuckets
          RingSize, BatchSize,       \* both rings; records drained at once
          MaxBytes,                  \* the size at which the log rotates
          MaxEvents, MaxEmits, MaxTraced   \* bounds of the exploration

VARIABLES level,      \* level_: 0 Off, 1 Basic, 2 Full
          hc,         \* HookCounters, per source
          counters,   \* Diagnostics::counters_, per source
          callback,   \* the event the hook callback is in
          sync,       \* syncDiagnosticsCounters: place, and what it has loaded
          rebased,    \* what the hook had counted when the last refresh began
          stage,      \* Histogram of HookToDecision
          samples,    \* the latencies recorded in it
          emits,      \* EmitTrace
          emitting,   \* the record each delivering thread is filling
          delivered,  \* what was pushed, in order
          events,     \* EventTrace
          flush,      \* what flushTraceToFileLog has drained and not written
          log,        \* FileLog: the open file, its backup, what it believes
          traced      \* what became of the traced records

diagVars == <<level, hc, counters, callback, sync, rebased, stage, samples, emits, emitting,
              delivered, events, flush, log, traced>>

Sources == {"down", "up", "button", "wheel"}
Idle == [on |-> FALSE, source |-> "down", recorded |-> FALSE]
Zero == [s \in Sources |-> 0]
Newline == 0

-----------------------------------------------------------------------------
(* Rings: EventTrace and EmitTrace share their indices.                    *)

EmptyRing == [records |-> [i \in 0..RingSize - 1 |-> 0], head |-> 0, count |-> 0]

Pushed(ring, record) ==
  [records |-> [ring.records EXCEPT ![ring.head] = record],
   head |-> (ring.head + 1) % RingSize,
   count |-> IF ring.count < RingSize THEN ring.count + 1 ELSE ring.count]

Window(ring, behind, take) ==
  [i \in 1..take |-> ring.records[(ring.head + RingSize - behind + i - 1) % RingSize]]
Taken(ring, cap) == IF cap < ring.count THEN cap ELSE ring.count

snapshot(ring, cap) == Window(ring, Taken(ring, cap), Taken(ring, cap))

\* Mutant: the drained records are the latest ones, as in snapshot.
BadOldest(ring, cap) == snapshot(ring, cap)
Oldest(ring, cap) == Window(ring, ring.count, Taken(ring, cap))
Drained(ring, cap) == [ring EXCEPT !.count = @ - Taken(ring, cap)]

-----------------------------------------------------------------------------
(* Histogram: bucket b holds [2^(b-1), 2^b), bucket 0 what is below 1, the *)
(* last one whatever is left.                                              *)

High(b) == IF b = 0 THEN 1
           ELSE IF b >= Buckets - 1 THEN 2^(Buckets - 2) ELSE 2^b

\* Mutant: a latency on an edge goes to the bucket below.
BadBucketIndexFor(us) ==
  IF us <= 0 THEN 0
  ELSE CHOOSE b \in 1..Buckets - 1 :
         /\ b = Buckets - 1 \/ us <= 2^b
         /\ \A c \in 1..b - 1 : us > 2^c
bucketIndexFor(us) ==
  IF us <= 0 THEN 0
  ELSE CHOOSE b \in 1..Buckets - 1 :
         /\ b = Buckets - 1 \/ us < 2^b
         /\ \A c \in 1..b - 1 : us >= 2^c

Upto(h, b) == FoldLeft(LAMBDA n, count : n + count, 0, [i \in 1..b + 1 |-> h[i - 1]])
Total(h) == Upto(h, Buckets - 1)
percentileUs(h, percent) ==
  IF Total(h) = 0 THEN -1
  ELSE LET b == CHOOSE i \in 0..Buckets - 1 :
                  /\ 100 * Upto(h, i) >= percent * Total(h)
                  /\ \A j \in 0..i - 1 : 100 * Upto(h, j) < percent * Total(h)
       IN High(b)

-----------------------------------------------------------------------------

DiagInit ==
  /\ level \in 0..2
  /\ hc = Zero /\ counters = Zero /\ rebased = Zero
  /\ callback = Idle
  /\ sync = [at |-> 0, loaded |-> Zero, began |-> Zero]
  /\ stage = [b \in 0..Buckets - 1 |-> 0] /\ samples = [us \in Latencies |-> 0]
  /\ emits = EmptyRing /\ delivered = <<>>
  /\ emitting = [t \in {"hook", "consumer"} |-> 0]
  /\ events = EmptyRing /\ flush = <<>>
  /\ log = [open |-> FALSE, file |-> <<>>, backup |-> <<>>, bytes |-> 0]
  /\ traced = [pushed |-> 0, dropped |-> 0, logged |-> 0, lost |-> 0]

counting == <<hc, counters, callback, sync, rebased, stage, samples>>
emitted == <<emits, emitting, delivered>>
tracing == <<events, flush, log, traced>>

setDiagLevelAndSave ==
  /\ \E l \in 0..2 \ {level} : level' = l
  /\ UNCHANGED <<counting, emitted, tracing>>

-----------------------------------------------------------------------------
(* The hook callback.  The level is read once, on entry.                   *)

Events == hc["down"] + hc["up"] + hc["button"] + hc["wheel"]

CallbackBegins ==
  /\ ~callback.on /\ Events < MaxEvents
  /\ \E s \in Sources :
       /\ hc' = [hc EXCEPT ![s] = @ + 1]
       /\ callback' = [on |-> TRUE, source |-> s, recorded |-> level >= 1]
  /\ UNCHANGED <<level, counters, sync, rebased, stage, samples, emitted, tracing>>

onHookEvent ==
  /\ callback.on /\ callback' = Idle
  /\ IF callback.recorded
     THEN /\ counters' = [counters EXCEPT ![callback.source] = @ + 1]
          /\ IF level >= 1
             THEN \E us \in Latencies :
                    /\ stage' = [stage EXCEPT ![bucketIndexFor(us)] = @ + 1]
                    /\ samples' = [samples EXCEPT ![us] = @ + 1]
             ELSE UNCHANGED <<stage, samples>>
     ELSE UNCHANGED <<counters, stage, samples>>
  /\ UNCHANGED <<level, hc, sync, rebased, emitted, tracing>>

-----------------------------------------------------------------------------
(* syncDiagnosticsCounters: the mouse one by one, the keys both loaded     *)
(* before either is set.                                                   *)

SyncOps == <<<<"load", "button">>, <<"set", "button">>, <<"load", "wheel">>,
             <<"set", "wheel">>, <<"load", "down">>, <<"load", "up">>,
             <<"set", "down">>, <<"set", "up">>>>

RefreshBegins ==
  /\ sync.at = 0 /\ sync' = [sync EXCEPT !.at = 1, !.began = hc]
  /\ UNCHANGED <<level, hc, counters, callback, rebased, stage, samples, emitted, tracing>>

\* Mutant: the hook's count is added to what the report had.
BadRebased(s) == counters[s] + sync.loaded[s]
Rebased(s) == sync.loaded[s]

syncDiagnosticsCounters ==
  /\ sync.at > 0
  /\ LET op == SyncOps[sync.at][1]  s == SyncOps[sync.at][2]  last == sync.at = Len(SyncOps)
     IN /\ counters' = IF op = "set" THEN [counters EXCEPT ![s] = Rebased(s)] ELSE counters
        /\ sync' = [at |-> IF last THEN 0 ELSE sync.at + 1,
                    loaded |-> IF op = "load" THEN [sync.loaded EXCEPT ![s] = hc[s]]
                               ELSE IF last THEN Zero ELSE sync.loaded,
                    began |-> IF last THEN Zero ELSE sync.began]
        /\ rebased' = IF last THEN sync.began ELSE rebased
  /\ UNCHANGED <<level, hc, callback, stage, samples, emitted, tracing>>

-----------------------------------------------------------------------------
(* recordEmitEvidence, on the hook thread (an edit emitted in place) and   *)
(* on the consumer: the record is filled first, the ring numbers it.       *)

EmitFills(t) ==
  /\ level >= 1 /\ emitting[t] = 0
  /\ Len(delivered) + Cardinality({u \in DOMAIN emitting : emitting[u] # 0}) < MaxEmits
  /\ \E record \in 1..2 : emitting' = [emitting EXCEPT ![t] = record]
  /\ UNCHANGED <<level, counting, emits, delivered, tracing>>

EmitPushes(t) ==
  /\ emitting[t] # 0
  /\ LET record == 10 * (Len(delivered) + 1) + emitting[t]
     IN emits' = Pushed(emits, record) /\ delivered' = Append(delivered, record)
  /\ emitting' = [emitting EXCEPT ![t] = 0]
  /\ UNCHANGED <<level, counting, tracing>>

-----------------------------------------------------------------------------
(* EventTrace and FileLog.                                                 *)

trace ==
  /\ level = 2 /\ traced.pushed < MaxTraced
  /\ events' = Pushed(events, traced.pushed + 1)
  /\ traced' = [traced EXCEPT !.pushed = @ + 1,
                              !.dropped = IF events.count = RingSize THEN @ + 1 ELSE @]
  /\ UNCHANGED <<level, counting, emitted, flush, log>>

Size(file) == FoldLeft(LAMBDA n, piece : n + (IF piece = Newline THEN 1 ELSE 2), 0, file)

\* Opening appends, and believes the size it finds; a path that cannot be opened closes.
setLogFile ==
  /\ flush = <<>>
  /\ log' \in {[log EXCEPT !.open = TRUE, !.bytes = Size(log.file)], [log EXCEPT !.open = FALSE]}
  /\ log' # log
  /\ UNCHANGED <<level, counting, emitted, events, flush, traced>>

\* The whole file is renamed, or when that is refused cut; then it may fail to open.
\* Mutant: the new file is believed as long as the old one.
BadRotated(l) == {[l EXCEPT !.backup = l.file, !.file = <<>>]}
Rotated(l) ==
  {[open |-> opened, file |-> <<>>, backup |-> IF renamed THEN l.file ELSE <<>>, bytes |-> 0] :
     opened \in BOOLEAN, renamed \in BOOLEAN}

\* writeLocked: what is left of the log after one piece, and whether it was written.
Room(l, piece) == IF l.bytes + Size(<<piece>>) > MaxBytes THEN Rotated(l) ELSE {l}
writeLocked(l, piece) ==
  UNION {IF ~r.open THEN {[log |-> r, ok |-> FALSE]}
         ELSE {[log |-> [r EXCEPT !.file = Append(@, piece), !.bytes = @ + Size(<<piece>>)],
                ok |-> TRUE],
               [log |-> [r EXCEPT !.open = FALSE], ok |-> FALSE]} : r \in Room(l, piece)}

\* write: the line, and then its newline.
write(l, line) ==
  IF ~l.open THEN {[log |-> l, ok |-> FALSE]}
  ELSE UNION {IF w.ok THEN writeLocked(w.log, Newline) ELSE {w} : w \in writeLocked(l, line)}

FlushDrains ==
  /\ log.open /\ level = 2 /\ flush = <<>> /\ events.count > 0
  /\ flush' = Oldest(events, BatchSize) /\ events' = Drained(events, BatchSize)
  /\ UNCHANGED <<level, counting, emitted, log, traced>>

flushTraceToFileLog ==
  /\ flush # <<>> /\ flush' = Tail(flush)
  /\ \E w \in write(log, Head(flush)) :
       /\ log' = w.log
       /\ traced' = IF w.ok THEN [traced EXCEPT !.logged = @ + 1]
                    ELSE [traced EXCEPT !.lost = @ + 1]
  /\ UNCHANGED <<level, counting, emitted, events>>

DiagNext ==
  \/ setDiagLevelAndSave
  \/ CallbackBegins \/ onHookEvent
  \/ RefreshBegins \/ syncDiagnosticsCounters
  \/ \E t \in DOMAIN emitting : EmitFills(t) \/ EmitPushes(t)
  \/ trace \/ setLogFile \/ FlushDrains \/ flushTraceToFileLog

-----------------------------------------------------------------------------
(* Properties                                                              *)

\* A refreshed report counts every event that was over when the refresh began, and no
\* event twice, but the one the hook was in: the hook's two counts and the re-basing
\* between them never drift apart by more.
ReportIsFresh ==
  \A s \in Sources : rebased[s] <= counters[s] /\ counters[s] <= hc[s] + 1

\* A percentile of the report is an upper bound: that share of the recorded latencies
\* lies below it, unless it is the tail's edge.
Below(limit) ==
  LET add(n, us) == IF us < limit THEN n + samples[us] ELSE n
  IN FoldLeft(add, 0, SetToSeq(Latencies))
PercentileBounds ==
  \A percent \in {50, 99} :
    LET edge == percentileUs(stage, percent)
    IN edge = -1 \/ stage[Buckets - 1] > 0 \/ 100 * Below(edge) >= percent * Total(stage)

\* The evidence ring shows the latest deliveries, in the order they were made.
EvidenceIsLatest ==
  snapshot(emits, RingSize) =
    SubSeq(delivered, Len(delivered) - emits.count + 1, Len(delivered))

\* Every traced record is in the ring, about to be written, written, known to be
\* overwritten or refused by the file; the lines stand in order, each once, and the
\* file is never longer than its limit or than it believes.
TraceIsAccounted ==
  LET lines == SelectSeq(log.backup \o log.file, LAMBDA piece : piece # Newline)
  IN /\ traced.pushed = traced.dropped + events.count + Len(flush) + traced.logged + traced.lost
     /\ \A i \in 1..Len(lines) - 1 : lines[i] < lines[i + 1]
     /\ Size(log.file) <= MaxBytes /\ (log.open => log.bytes = Size(log.file))

DiagSound == ReportIsFresh /\ PercentileBounds /\ EvidenceIsLatest /\ TraceIsAccounted

\* "bo dem tam dung - khong cap nhat khi Tat" (counters paused, not updated while Off,
\* Diagnostics.cpp) and "Level::Off stops every increment below" (HookCounters.hpp).
OffPausesCounters == [][level = 0 /\ level' = 0 /\ ~callback.on => UNCHANGED <<hc, counters>>]_diagVars
=============================================================================

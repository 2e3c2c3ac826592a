-------------------------- MODULE TypingAnalytics --------------------------
(***************************************************************************)
(* What the typing coach measures (core/TypingAnalytics.cpp).  Every key   *)
(* is observed into a ring of the newest Capacity samples, whether or not  *)
(* the user has opted in to the rival; a snapshot copies the window of the *)
(* ring, or of the session, and derives its figures in one pass.           *)
(*                                                                         *)
(* Times are in units of the pause threshold: an interval of 2 is a pause. *)
(* Means and speeds are kept as the sums and counts they are divided from. *)
(***************************************************************************)
EXTENDS Integers, Sequences, FiniteSets, SequencesExt

CONSTANTS Capacity,   \* kRingCapacity
          Pause,      \* kPauseThresholdMs
          Intervals,  \* the intervals between two keys; 0 within one clock tick
          MinHalf,    \* intervals a half needs for the fatigue figure (5)
          MaxKeys     \* bound of the exploration

VARIABLES log,      \* every key observed: its time, a Backspace, a tone key
          start,    \* m_sessionStartIndex
          from      \* what the ring no longer claims to hold: reset

analyticsVars == <<log, start, from>>

AnalyticsInit == log = <<>> /\ start = 0 /\ from = 0

\* The consumers of the ring count from its last reset.
head == Len(log) - from
Now == IF log = <<>> THEN 0 ELSE Last(log).at

observeKey ==
  /\ Len(log) < MaxKeys
  /\ \E gap \in Intervals, kind \in {"char", "backspace", "tone"} :
       log' = Append(log, [at |-> Now + gap, back |-> kind = "backspace",
                           tone |-> kind = "tone"])
  /\ UNCHANGED <<start, from>>

beginSession == start # head /\ start' = head /\ UNCHANGED <<log, from>>

\* Mutant: the ring is emptied and the session keeps its index.
BadSessionAtReset == start
SessionAtReset == 0

reset ==
  /\ head > 0 /\ from' = Len(log) /\ start' = SessionAtReset /\ UNCHANGED log

AnalyticsNext == observeKey \/ beginSession \/ reset

-----------------------------------------------------------------------------
(* computeRange                                                            *)

Window(first, total) == SubSeq(log, from + first + 1, from + total)

NoFigures == [keys |-> 0, chars |-> 0, backs |-> 0, lasted |-> 0, gaps |-> <<>>,
              pauses |-> 0, pauseSum |-> 0, bursts |-> 0, burstSum |-> 0, tones |-> 0,
              toneSum |-> 0, recoverySum |-> 0, first |-> 0, second |-> 0]

Gap(w, i) == w[i].at - w[i - 1].at
Sum(w, chosen) == FoldLeft(LAMBDA total, i : total + Gap(w, i), 0, SetToSeq(chosen))

\* Mutant: the burst at the end of the window is not closed.
BadBurstEnds(w, paused) == paused
\* A burst ends at the pause behind it, or at the end of the window.
BurstEnds(w, paused) == paused \cup {Len(w) + 1}

\* The intervals of the burst that ends at e: those behind the last pause.
BurstOf(e, paused) ==
  Cardinality({i \in 2 .. e - 1 : \A p \in paused : p < e => p < i})

Bursts(w, paused) == {e \in BurstEnds(w, paused) : BurstOf(e, paused) > 0}

computeRange(first, total) ==
  LET w == Window(first, total)
      all == 2 .. Len(w)
      paused == {i \in all : Gap(w, i) > Pause}
      half == Len(w) \div 2
      Of(field) == {i \in all : w[i][field]}
  IN IF w = <<>> THEN NoFigures
     ELSE [keys |-> Len(w),
           chars |-> Cardinality({i \in 1 .. Len(w) : ~w[i].back}),
           backs |-> Cardinality({i \in 1 .. Len(w) : w[i].back}),
           lasted |-> Last(w).at - w[1].at,
           gaps |-> SortSeq([i \in 1 .. Len(w) - 1 |-> Gap(w, i + 1)], <),
           pauses |-> Cardinality(paused), pauseSum |-> Sum(w, paused),
           bursts |-> Cardinality(Bursts(w, paused)),
           burstSum |-> FoldLeft(LAMBDA sum, e : sum + BurstOf(e, paused), 0,
                                 SetToSeq(Bursts(w, paused))),
           tones |-> Cardinality(Of("tone")), toneSum |-> Sum(w, Of("tone")),
           recoverySum |-> Sum(w, Of("back")),
           first |-> Cardinality({i \in all : i - 1 < half}),
           second |-> Cardinality({i \in all : i - 1 >= half})]

computeSnapshot == computeRange(IF head > Capacity THEN head - Capacity ELSE 0, head)

\* The session, as far as the ring still holds it.
computeSessionSnapshot ==
  LET oldest == IF head > Capacity THEN head - Capacity ELSE 0
      first == IF start > oldest THEN start ELSE oldest
  IN computeRange(IF first > head THEN head ELSE first, head)

percentile(sorted, percent) ==
  LET index == (Len(sorted) * percent) \div 100
  IN IF sorted = <<>> THEN 0 ELSE sorted[IF index >= Len(sorted) THEN Len(sorted) ELSE index + 1]

\* The fatigue figure is given only when both halves have intervals enough; with
\* too few keys the coach gives none, and otherwise at least one piece of advice.
FatigueIsMeasured(f) == f.first >= MinHalf /\ f.second >= MinHalf

-----------------------------------------------------------------------------
(* Properties                                                              *)

\* Every interval of a window is in exactly one burst or is a pause, the halves share
\* all of them, and the time of the window is the pauses and the time inside bursts:
\* the averages the coach shows are over the whole window and over nothing twice.
EveryIntervalOnce ==
  \A f \in {computeSnapshot, computeSessionSnapshot} :
    /\ f.keys = f.chars + f.backs
    /\ f.keys > 0 => /\ f.burstSum + f.pauses = f.keys - 1
                     /\ f.first + f.second = f.keys - 1
    /\ f.pauseSum <= f.lasted /\ f.toneSum + f.recoverySum <= f.lasted
    /\ percentile(f.gaps, 50) <= percentile(f.gaps, 90)
    /\ percentile(f.gaps, 90) <= percentile(f.gaps, 99)

\* A session holds the keys typed since it began, the newest Capacity of them, also
\* after the ring was reset.
SessionIsWhole ==
  LET begun == Len(log) - from - start
  IN computeSessionSnapshot.keys = IF begun > Capacity THEN Capacity ELSE begun

AnalyticsSound == EveryIntervalOnce /\ SessionIsWhole
=============================================================================

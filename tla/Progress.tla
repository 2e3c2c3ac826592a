------------------------------ MODULE Progress ------------------------------
(***************************************************************************)
(* Experience points, levels and achievements, and the file that keeps     *)
(* them (core/Progression.cpp, the persistence block of app/main.cpp,      *)
(* app/PersistPolicy.hpp).                                                 *)
(*                                                                         *)
(* The hook thread adds to lock-free counters, one atomic addition after   *)
(* the other.  A folding thread - the UI timer of the settings dialog, or  *)
(* the web bridge - takes each counter to zero by an exchange of its own   *)
(* and adds what it took to the statistics under the lock.  A sweep on the *)
(* 1 s timer writes the file when its two saved numbers say that something *)
(* changed and 30 s have passed; a clean exit writes it always.  The       *)
(* process may be killed at any step: the file is then whole, missing or - *)
(* when the kill falls between the truncation and the write - empty.       *)
(*                                                                         *)
(* A character stands for a key that is one; words, active time and the    *)
(* records of the games are left out except the no-mistake combo, the one  *)
(* record that earns no points.                                            *)
(***************************************************************************)
EXTENDS Integers, FiniteSets

CONSTANTS Folders,      \* the threads that fold: the UI timer, the web bridge
          Thresholds,   \* the points a level needs, from level 2 on
          MaxXp,        \* kMaxXp
          Rewards,      \* the points of each achievement
          KeysFor,      \* the keys that unlock each achievement
          Cuts,         \* where a power loss may cut the file: "keys", "xp"
          RunXp,        \* the points of an arcade run
          MaxTyped, MaxRuns, MaxRestarts   \* bounds of the exploration

ASSUME ProgressAssumption ==
  /\ IsFiniteSet(Folders) /\ "ui" \in Folders
  /\ IsFiniteSet(DOMAIN Thresholds) /\ \A l \in DOMAIN Thresholds : Thresholds[l] \in Nat \ {0}
  /\ IsFiniteSet(DOMAIN Rewards) /\ Rewards \in [DOMAIN Rewards -> Nat]
  /\ MaxXp \in Nat /\ RunXp \in Nat /\ Cuts \subseteq {"keys", "xp"}

VARIABLES pend,     \* m_pendingChars, m_pendingKeystrokes, m_pendingBackspaces
          hook,     \* where recordKeystroke stands
          fold,     \* where each flushStats stands, with what it took
          stats,    \* m_stats, with the points earned outside achievements
          told,     \* m_pendingLevelUp
          progressFile,     \* progression.dat
          saver,    \* where saveProgressionAndAi stands, with its text
          saved,    \* g_savedXp and g_savedKeys
          sweep,    \* the throttle: "due", or "fresh" for 30 s after a sweep
          power,    \* "on", or "off" between two lives of the process
          typedKeys,    \* keys and characters typed, less those reset or lost
          runs, restarts,  \* calls of the hub and of the reset button, restarts
          recent, aged,  \* what had been folded at the last two marks
          behind    \* the saved numbers are newer than the file

progressVars == <<pend, hook, fold, stats, told, progressFile, saver, saved, sweep, power,
                  typedKeys, runs, restarts, recent, aged, behind>>

Achievements == DOMAIN Rewards
NoCount == [chars |-> 0, keys |-> 0, backs |-> 0]
Fresh == [chars |-> 0, keys |-> 0, xp |-> 0, level |-> 1, got |-> {}, combo |-> 0,
          earned |-> 0, salvaged |-> FALSE]
NoneSaved == [xp |-> 0, keys |-> 0]
NoFold == [pc |-> "idle", took |-> NoCount]
NoFile == [kind |-> "missing", text |-> Fresh]
Empty == [kind |-> "empty", text |-> Fresh]
Whole(text) == [kind |-> "whole", text |-> text]
Capped(xp) == IF xp > MaxXp THEN MaxXp ELSE xp

\* The highest level whose threshold the points reach.
calculateLevel(xp) ==
  1 + Cardinality({l \in DOMAIN Thresholds : Thresholds[l] <= Capped(xp)})

\* The sum of what w gives over a set.
Added(w, set) ==
  LET sum[s \in SUBSET set] ==
        IF s = {} THEN 0 ELSE LET e == CHOOSE e \in s : TRUE IN w[e] + sum[s \ {e}]
  IN sum[set]

Paid(set) == Added(Rewards, set)

\* Mutant: the reward is paid whenever the condition holds.
BadCheckAchievements(s) ==
  LET due == {a \in Achievements : s.keys >= KeysFor[a]}
  IN [s EXCEPT !.got = @ \cup due, !.xp = @ + Paid(due)]

\* Unlocks what the numbers allow and pays for what was not unlocked before.
checkAchievements(s) ==
  LET due == {a \in Achievements : s.keys >= KeysFor[a]}
  IN [s EXCEPT !.got = @ \cup due, !.xp = @ + Paid(due \ s.got)]

Levelled(s) == [s EXCEPT !.level = calculateLevel(s.xp)]
Announced(s) == IF calculateLevel(s.xp) > s.level THEN calculateLevel(s.xp) ELSE told
Credit(s) == LET c == checkAchievements(s) IN stats' = Levelled(c) /\ told' = Announced(c)

ProgressInit ==
  /\ pend = NoCount /\ hook = "idle" /\ fold = [f \in Folders |-> NoFold]
  /\ stats = Fresh /\ told = 0 /\ progressFile = NoFile
  /\ saver = [pc |-> "idle"] /\ saved = NoneSaved
  /\ sweep = "due" /\ power = "on" /\ typedKeys = [keys |-> 0, chars |-> 0]
  /\ runs = 0 /\ restarts = 0
  /\ recent = 0 /\ aged = 0
  /\ behind = FALSE

\* What dies with the process.
MemoryIsGone ==
  /\ pend' = NoCount /\ hook' = "idle" /\ fold' = [f \in Folders |-> NoFold]
  /\ told' = 0 /\ saver' = [pc |-> "idle"]

Ledger == <<typedKeys, runs, restarts, recent, aged, behind>>
Disk == <<progressFile, saver, saved, sweep, power>>

-----------------------------------------------------------------------------
(* The hook thread: recordKeystroke, one atomic addition per step.         *)

KeyBegins ==
  /\ power = "on" /\ hook = "idle" /\ typedKeys.keys < MaxTyped
  /\ hook' = "second"
  /\ \/ /\ pend' = [pend EXCEPT !.chars = @ + 1]
        /\ typedKeys' = [keys |-> typedKeys.keys + 1, chars |-> typedKeys.chars + 1]
     \/ /\ pend' = [pend EXCEPT !.backs = @ + 1]
        /\ typedKeys' = [typedKeys EXCEPT !.keys = @ + 1]
  /\ UNCHANGED <<fold, stats, told, Disk, runs, restarts, recent, aged, behind>>

KeyEnds ==
  /\ power = "on" /\ hook = "second"
  /\ pend' = [pend EXCEPT !.keys = @ + 1] /\ hook' = "idle"
  /\ UNCHANGED <<fold, stats, told, Disk, Ledger>>

-----------------------------------------------------------------------------
(* flushStats: an exchange per counter, then the lock.                     *)

UiIsFree == power = "on" /\ saver.pc = "idle" /\ fold["ui"].pc = "idle"
MayFold(f) == power = "on" /\ (f = "ui" => saver.pc = "idle")

Taken(f, counter, to) ==
  /\ fold' = [fold EXCEPT ![f] = [pc |-> to, took |-> [@.took EXCEPT ![counter] = pend[counter]]]]
  /\ pend' = [pend EXCEPT ![counter] = 0]
  /\ UNCHANGED <<hook, stats, told, Disk, Ledger>>

FlushBegins(f) == MayFold(f) /\ fold[f].pc = "idle" /\ Taken(f, "chars", "keys")
FlushKeys(f) == MayFold(f) /\ fold[f].pc = "keys" /\ Taken(f, "keys", "backs")
FlushBackspaces(f) == MayFold(f) /\ fold[f].pc = "backs" /\ Taken(f, "backs", "merge")

Earned(took) ==
  LET all == took.chars + took.backs
  IN took.chars + (IF all > 0 /\ took.chars * 100 >= all * 95 THEN took.chars \div 2 ELSE 0)

\* Mutant: a batch without a finished key is dropped with its characters.
BadWorthFolding(took) == took.keys # 0
WorthFolding(took) == took.chars # 0 \/ took.keys # 0

\* The early return drops a batch of nothing but backspaces.
FlushMerges(f) ==
  LET took == fold[f].took
      s == [stats EXCEPT !.chars = @ + took.chars, !.keys = @ + took.keys,
                         !.xp = Capped(@ + Earned(took)), !.earned = @ + Earned(took)]
  IN /\ MayFold(f) /\ fold[f].pc = "merge"
     /\ IF WorthFolding(took) THEN Credit(s) ELSE UNCHANGED <<stats, told>>
     /\ fold' = [fold EXCEPT ![f] = NoFold]
     /\ behind' = (behind \/ (saver.pc # "idle" /\ WorthFolding(took)))
     /\ UNCHANGED <<pend, hook, Disk, typedKeys, runs, restarts, recent, aged>>

flushStats(f) == FlushBegins(f) \/ FlushKeys(f) \/ FlushBackspaces(f) \/ FlushMerges(f)

\* recordArcadeRun, for each result drained: points, or a combo that earns none.
recordArcadeRun ==
  /\ UiIsFree /\ runs < MaxRuns /\ runs' = runs + 1
  /\ \/ Credit([stats EXCEPT !.xp = @ + RunXp, !.earned = @ + RunXp])
     \/ Credit([stats EXCEPT !.combo = @ + 1])
  /\ UNCHANGED <<pend, hook, fold, Disk, typedKeys, restarts, recent, aged, behind>>

\* The toast of the hub window.
consumeLevelUp ==
  /\ UiIsFree /\ told # 0 /\ told' = 0
  /\ UNCHANGED <<pend, hook, fold, stats, Disk, Ledger>>

InFlight(counter) ==
  Added([f \in Folders |-> fold[f].took[counter]], Folders)
    + (IF counter = "keys" /\ hook = "second" THEN 1 ELSE 0)

\* The reset button. What a folder holds, and a key half recorded, come after it.
reset ==
  /\ UiIsFree /\ runs < MaxRuns /\ runs' = runs + 1
  /\ stats' = Fresh /\ pend' = NoCount /\ told' = 0
  /\ typedKeys' = [keys |-> InFlight("keys"), chars |-> InFlight("chars")]
  /\ recent' = 0 /\ aged' = 0
  /\ UNCHANGED <<hook, fold, Disk, restarts, behind>>

-----------------------------------------------------------------------------
(* Saving, on the UI thread.                                               *)

\* Mutant: only the points are compared.
BadPersistSweepDue == saved.xp # stats.xp /\ sweep = "due"

persistSweepDue ==
  /\ saved # [xp |-> stats.xp, keys |-> stats.keys]
  /\ sweep = "due"

\* The throttled sweep of the 1 s timer; a clean exit saves whatever has changed.
SaveBegins(why) ==
  /\ UiIsFree /\ (why = "sweep" => persistSweepDue)
  /\ saver' = [pc |-> "text", why |-> why, text |-> stats]
  /\ sweep' = IF why = "sweep" THEN "fresh" ELSE sweep
  /\ UNCHANGED <<pend, hook, fold, stats, told, progressFile, saved, power, Ledger>>

FileOpens ==
  /\ power = "on" /\ saver.pc = "text"
  /\ progressFile' = Empty /\ saver' = [saver EXCEPT !.pc = "open"]
  /\ UNCHANGED <<pend, hook, fold, stats, told, saved, sweep, power, Ledger>>

\* The file cannot be opened; the caller learns it and goes on all the same.
FileIsLocked ==
  /\ power = "on" /\ saver.pc = "text"
  /\ saver' = [saver EXCEPT !.pc = "written"] /\ behind' = TRUE
  /\ UNCHANGED <<pend, hook, fold, stats, told, progressFile, saved, sweep, power, typedKeys, runs,
                 restarts, recent, aged>>

FileIsWritten ==
  /\ power = "on" /\ saver.pc = "open"
  /\ progressFile' = Whole(saver.text) /\ saver' = [saver EXCEPT !.pc = "written"]
  /\ UNCHANGED <<pend, hook, fold, stats, told, saved, sweep, power, Ledger>>

SavedNumbers == [xp |-> stats.xp, keys |-> stats.keys]

\* The saved numbers are read again, after the file was written.
SaveEnds ==
  /\ power = "on" /\ saver.pc = "written"
  /\ IF saver.why = "exit"
     THEN /\ power' = "off" /\ MemoryIsGone /\ stats' = Fresh /\ saved' = NoneSaved
          /\ sweep' = "due"
     ELSE /\ saved' = SavedNumbers /\ saver' = [pc |-> "idle"]
          /\ UNCHANGED <<pend, hook, fold, stats, told, sweep, power>>
  /\ UNCHANGED <<progressFile, Ledger>>

\* 30 s pass. The timer ticks every second, so a sweep that was due is over.
HalfAMinute ==
  /\ UiIsFree /\ ~persistSweepDue
  /\ sweep' = IF sweep = "fresh" THEN "due" ELSE sweep
  /\ recent' = stats.keys /\ aged' = recent
  /\ UNCHANGED <<pend, hook, fold, stats, told, progressFile, saver, saved, power, typedKeys, runs,
                 restarts, behind>>

\* The process is killed; a power loss may leave a prefix of the text.
Kill ==
  /\ power = "on" /\ power' = "off"
  /\ \/ progressFile' = progressFile
     \/ /\ saver.pc = "written" /\ progressFile = Whole(saver.text)
        /\ progressFile' \in [kind : Cuts, text : {saver.text}]
  /\ MemoryIsGone /\ stats' = Fresh /\ saved' = NoneSaved /\ sweep' = "due"
  /\ UNCHANGED Ledger

\* Mutant: a salvaged file keeps the level it does not hold.
BadRecovered(s) == s
Recovered(s) == Levelled(s)

\* salvageDeserialize: the fields in front of the cut, the rest as in a new profile.
Salvaged(cut, text) ==
  Recovered([Fresh EXCEPT !.chars = text.chars, !.keys = text.keys, !.salvaged = TRUE,
                          !.xp = IF cut = "xp" THEN text.xp ELSE 0])

loadFromFile ==
  CASE progressFile.kind \in {"missing", "empty"} -> Fresh
    [] progressFile.kind = "whole" -> Recovered(progressFile.text)
    [] OTHER -> Salvaged(progressFile.kind, progressFile.text)

Reload ==
  /\ power = "off" /\ restarts < MaxRestarts /\ restarts' = restarts + 1 /\ power' = "on"
  /\ stats' = loadFromFile /\ saved' = [xp |-> loadFromFile.xp, keys |-> loadFromFile.keys]
  /\ typedKeys' = [keys |-> loadFromFile.keys, chars |-> loadFromFile.chars]
  /\ sweep' = "due" /\ behind' = FALSE
  /\ recent' = stats'.keys /\ aged' = recent'
  /\ UNCHANGED <<pend, hook, fold, told, saver, progressFile, runs>>

ProgressNext ==
  \/ KeyBegins \/ KeyEnds
  \/ \E f \in Folders : flushStats(f)
  \/ recordArcadeRun \/ consumeLevelUp \/ reset
  \/ SaveBegins("sweep") \/ SaveBegins("exit")
  \/ FileOpens \/ FileIsLocked \/ FileIsWritten \/ SaveEnds
  \/ HalfAMinute \/ Kill \/ Reload

ProgressSpec == ProgressInit /\ [][ProgressNext]_progressVars

-----------------------------------------------------------------------------
(* Properties                                                              *)

\* Every key and every character is somewhere exactly once: pending, taken by a
\* fold, or in the statistics - however the additions and the exchanges meet.
KeysCountedOnce ==
  power = "on" =>
    /\ typedKeys.keys = stats.keys + pend.keys + InFlight("keys")
    /\ typedKeys.chars = stats.chars + pend.chars + InFlight("chars")

\* An achievement pays its reward once, in this life and over all the restarts.
\* (A file cut behind the points and in front of the achievements pays again, and
\* points beyond the cap are cut off.)
RewardsPaidOnce ==
  \/ stats.salvaged \/ stats.earned + Paid(stats.got) > MaxXp
  \/ stats.xp = stats.earned + Paid(stats.got)

\* The level is the level of the points, after a recovery too.
LevelFits == stats.level = calculateLevel(stats.xp)

ProgressSound == KeysCountedOnce /\ RewardsPaidOnce /\ LevelFits

\* What had been folded 30 s before the process died is there at the next start,
\* unless it died inside the write, or the saved numbers ran ahead of the file (a
\* fold of the bridge during the save, a file that could not be opened).
FoldedSurvives ==
  [][power = "off" /\ power' = "on" /\ ~behind /\ progressFile # Empty /\ ~stats'.salvaged
       => stats'.keys >= aged]_progressVars
=============================================================================

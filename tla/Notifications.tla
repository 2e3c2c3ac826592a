--------------------------- MODULE Notifications ---------------------------
(***************************************************************************)
(* What the tray tells the user, and when (core/Notifications.hpp, the     *)
(* notification block of app/main.cpp).  Detectors on three threads raise: *)
(* the hook (the Quick Telex detector), the output consumer (slow TSF) and *)
(* the 1 s timer of the UI, which also takes what is pending and shows it. *)
(* A raise reads its conditions first and stores into the one pending slot *)
(* afterwards; nothing holds the two together.                             *)
(*                                                                         *)
(* Time counts minutes; the undo window of 4 s is "before the next tick".  *)
(***************************************************************************)
EXTENDS Integers, Sequences, FiniteSets

CONSTANTS Ids,          \* the notifications
          RaisedBy,     \* the thread that raises each: "hook", "consumer", "ui"
          Policy,       \* min, cooldown, perHour, repeat of each
          Hour, GlobalGap,
          MinUndos, UndoWeight, AcceptWeight, UndoWindow,   \* QuickTelexDetector
          MaxTime, MaxExpansions, MaxDepth, MaxShown        \* bounds of the exploration

ASSUME NoticeAssumption ==
  /\ "none" \notin Ids /\ UndoWeight \in Nat /\ AcceptWeight \in Nat
  /\ \A i \in Ids : Policy[i].cooldown \in Nat

VARIABLES now,
          perId,       \* state_: suppressed, lastShown, hourStart, hourCount, shown
          pendingNotice,  \* pending_, with the number of times its id had been shown
          lastPresented, muted,
          raising,     \* what each thread found due and has not stored yet
          suppressed,  \* NotifySuppress_<id>
          balloon,     \* g_shownNotification
          detector,    \* QuickTelexDetector
          quickTelex,  \* the option
          shows        \* what was presented, in order

noticeVars == <<now, perId, pendingNotice, lastPresented, muted, raising, suppressed, balloon,
                detector, quickTelex, shows>>

NoNotice == "none"
Threads == {"hook", "consumer", "ui"}
Never == 0    \* a time that stands for "not yet"
NoRaise == [id |-> NoNotice, confidence |-> 0, after |-> 0]
NewDetector == [armed |-> FALSE, at |-> 0, depth |-> 0, deleted |-> FALSE, score |-> 0,
                undos |-> <<>>, expansions |-> 0, settled |-> 0]

NoticeInit ==
  /\ now = 1
  /\ perId = [i \in Ids |-> [suppressed |-> FALSE, lastShown |-> Never, hourStart |-> Never,
                             hourCount |-> 0, shown |-> 0]]
  /\ pendingNotice = NoRaise /\ lastPresented = Never /\ muted = FALSE
  /\ raising = [t \in Threads |-> NoRaise]
  /\ suppressed = {} /\ balloon = NoNotice /\ detector = NewDetector /\ quickTelex = TRUE
  /\ shows = <<>>

-----------------------------------------------------------------------------
(* NotificationCenter::raise                                               *)

Since(time, span) == time # Never /\ now - time < span

\* Mutant: the cooldown is not looked at.
BadRested(i) == TRUE
Rested(i) == ~Since(perId[i].lastShown, Policy[i].cooldown)

Due(i, confidence) ==
  /\ ~muted /\ confidence >= Policy[i].min /\ ~perId[i].suppressed
  /\ Policy[i].repeat \/ perId[i].shown = 0
  /\ Rested(i)
  /\ ~(Since(perId[i].hourStart, Hour) /\ perId[i].hourCount >= Policy[i].perHour)
  /\ ~Since(lastPresented, GlobalGap)

\* A repeat must be more confident than what is pending, another id at least as much.
Prevails(i, confidence) ==
  \/ pendingNotice.id = NoNotice
  \/ pendingNotice.id = i /\ pendingNotice.confidence < confidence
  \/ pendingNotice.id \notin {NoNotice, i} /\ pendingNotice.confidence <= confidence

Found(t, i, confidence) ==
  /\ RaisedBy[i] = t /\ raising[t] = NoRaise
  /\ IF Due(i, confidence) /\ Prevails(i, confidence)
     THEN raising' = [raising EXCEPT ![t] = [id |-> i, confidence |-> confidence,
                                            after |-> perId[i].shown]]
     ELSE UNCHANGED raising

Store(t) ==
  /\ raising[t] # NoRaise
  /\ pendingNotice' = raising[t] /\ raising' = [raising EXCEPT ![t] = NoRaise]
  /\ UNCHANGED <<now, perId, lastPresented, muted, suppressed, balloon, detector, quickTelex,
                 shows>>

\* A slow commit, a repaired hook, fifty timeouts more: the thread's own counter moved.
SomethingHappens(t) ==
  /\ t # "hook" /\ Len(shows) < MaxShown
  /\ \E i \in Ids : Found(t, i, 100) /\ raising' # raising
  /\ UNCHANGED <<now, perId, pendingNotice, lastPresented, muted, suppressed, balloon, detector,
                 quickTelex, shows>>

-----------------------------------------------------------------------------
(* The UI thread.                                                          *)

\* Mutant: what was suppressed after it was raised is shown.
BadMayShow(i) == ~muted
MayShow(i) == ~muted /\ ~perId[i].suppressed

\* The balloon on screen is the one its click is about.
presentNotification(i) == balloon' = i

\* makeNotifyStore: the registry remembers a "don't show again".
setSuppressed(i) == suppressed' = suppressed \cup {i}

\* takePending, and the balloon.
takePending ==
  /\ pendingNotice # NoRaise /\ raising["ui"] = NoRaise /\ Len(shows) < MaxShown
  /\ pendingNotice' = NoRaise
  /\ LET i == pendingNotice.id  p == perId[pendingNotice.id]
     IN IF MayShow(i)
        THEN /\ perId' = [perId EXCEPT ![i] =
                  [p EXCEPT !.lastShown = now, !.shown = p.shown + 1,
                            !.hourStart = IF Since(p.hourStart, Hour) THEN p.hourStart ELSE now,
                            !.hourCount = IF Since(p.hourStart, Hour) THEN p.hourCount + 1 ELSE 1]]
             /\ lastPresented' = now /\ presentNotification(i)
             /\ shows' = Append(shows, [id |-> i, at |-> now, before |-> p.lastShown,
                                        overtaken |-> pendingNotice.after # p.shown,
                                        refused |-> i \in suppressed])
        ELSE UNCHANGED <<perId, lastPresented, balloon, shows>>
  /\ UNCHANGED <<now, muted, raising, suppressed, detector, quickTelex>>

\* The balloon is clicked: turn the option off, keep it, or "don't show again".
onNotificationClicked ==
  /\ balloon # NoNotice /\ balloon' = NoNotice /\ raising["ui"] = NoRaise
  /\ \/ /\ RaisedBy[balloon] = "hook" /\ quickTelex' = FALSE /\ detector' = NewDetector
        /\ UNCHANGED <<perId, suppressed>>
     \/ /\ RaisedBy[balloon] = "hook" /\ detector' = NewDetector
        /\ UNCHANGED <<perId, suppressed, quickTelex>>
     \/ /\ RaisedBy[balloon] = "hook"
        /\ perId' = [perId EXCEPT ![balloon].suppressed = TRUE]
        /\ setSuppressed(balloon)
        /\ UNCHANGED <<detector, quickTelex>>
     \/ RaisedBy[balloon] # "hook" /\ UNCHANGED <<perId, suppressed, detector, quickTelex>>
  /\ UNCHANGED <<now, pendingNotice, lastPresented, muted, raising, shows>>

setSessionMuted ==
  /\ muted' = ~muted
  /\ UNCHANGED <<now, perId, pendingNotice, lastPresented, raising, suppressed, balloon, detector,
                 quickTelex, shows>>

\* A restart: the session's counters go, the suppressions are read back.
loadSuppressions ==
  /\ shows # <<>> /\ \E i \in Ids : perId[i].shown > 0
  /\ perId' = [i \in Ids |-> [suppressed |-> i \in suppressed, lastShown |-> Never,
                              hourStart |-> Never, hourCount |-> 0, shown |-> 0]]
  /\ pendingNotice' = NoRaise /\ lastPresented' = Never /\ muted' = FALSE /\ balloon' = NoNotice
  /\ raising' = [t \in Threads |-> NoRaise] /\ detector' = NewDetector
  /\ UNCHANGED <<now, suppressed, quickTelex, shows>>

Tick ==
  /\ now < MaxTime /\ now' = now + 1
  /\ UNCHANGED <<perId, pendingNotice, lastPresented, muted, raising, suppressed, balloon, detector,
                 quickTelex, shows>>

-----------------------------------------------------------------------------
(* QuickTelexDetector, on the hook thread, per key while the option is on. *)

Disarmed(d) == [d EXCEPT !.armed = FALSE, !.at = 0, !.depth = 0, !.deleted = FALSE]
InWindow(d) == d.at = now
Smaller(a, b) == IF a < b THEN a ELSE b
\* Mutant: what was confirmed stays armed, and is confirmed again by the next key.
BadConfirmUndo(d) == [d EXCEPT !.undos = Append(@, now), !.settled = @ + 1,
                               !.score = Smaller(100, @ + UndoWeight)]
ConfirmUndo(d) ==
  Disarmed([d EXCEPT !.undos = Append(@, now), !.settled = @ + 1,
                     !.score = Smaller(100, @ + UndoWeight)])
Undone(d) == d.deleted /\ InWindow(d)

observeExpansion(d) ==
  LET e == IF d.armed /\ Undone(d) THEN ConfirmUndo(d) ELSE d
  IN [e EXCEPT !.armed = TRUE, !.at = now, !.depth = 0, !.deleted = FALSE,
               !.expansions = @ + 1]
observeRawChar(d) ==
  CASE ~d.armed -> d
    [] d.armed /\ ~InWindow(d) -> Disarmed(d)
    [] d.armed /\ Undone(d) -> ConfirmUndo(d)
    [] OTHER -> [d EXCEPT !.depth = @ + 1]
observeBackspace(d) ==
  CASE ~d.armed -> d
    [] d.armed /\ ~InWindow(d) -> Disarmed(d)
    [] OTHER -> [d EXCEPT !.depth = IF @ = 0 THEN 0 ELSE @ - 1, !.deleted = @ \/ d.depth = 0]
observeRestore(d) == IF d.armed /\ InWindow(d) THEN ConfirmUndo(d) ELSE d
observeWordCommitted(d) ==
  Disarmed(IF d.armed /\ ~d.deleted
           THEN [d EXCEPT !.score = IF @ > AcceptWeight THEN @ - AcceptWeight ELSE 0,
                          !.settled = @ + 1]
           ELSE d)

Recent(d) == Cardinality({u \in DOMAIN d.undos : now - d.undos[u] <= UndoWindow})

\* One key, and maybeRaise behind it.
Key ==
  /\ quickTelex /\ raising["hook"] = NoRaise /\ Len(shows) < MaxShown
  /\ \E d \in {observeBackspace(detector), observeRestore(detector),
               observeWordCommitted(detector)}
               \cup (IF detector.depth < MaxDepth THEN {observeRawChar(detector)} ELSE {})
               \cup (IF detector.expansions < MaxExpansions
                     THEN {observeExpansion(detector)} ELSE {}) :
       /\ detector' = d
       /\ IF Recent(d) < MinUndos THEN UNCHANGED raising
          ELSE \E i \in Ids : Found("hook", i, d.score)
  /\ UNCHANGED <<now, perId, pendingNotice, lastPresented, muted, suppressed, balloon, quickTelex,
                 shows>>

NoticeNext ==
  \/ Key \/ Tick
  \/ \E t \in Threads : SomethingHappens(t) \/ Store(t)
  \/ takePending \/ onNotificationClicked \/ setSessionMuted \/ loadSuppressions

NoticeSpec == NoticeInit /\ [][NoticeNext]_noticeVars

-----------------------------------------------------------------------------
(* Properties                                                              *)

\* "Don't show again" is final: over the restarts, and for what was pending when the
\* user said so.
RefusalIsFinal == \A s \in DOMAIN shows : ~shows[s].refused

\* Two balloons of one kind are a cooldown apart, unless the second was found due
\* before the first was shown, by a thread that had not stored it yet.
CooldownKept ==
  \A s \in DOMAIN shows :
    LET show == shows[s]
    IN show.before = Never \/ show.overtaken
         \/ show.at - show.before >= Policy[show.id].cooldown

\* The detector settles an expansion once, as undone or as accepted, and its score
\* needs the undos: no user is told of what was never taken back.
ExpansionsSettleOnce ==
  /\ detector.settled + (IF detector.armed THEN 1 ELSE 0) <= detector.expansions
  /\ detector.score <= UndoWeight * Len(detector.undos)

NoticesSound == RefusalIsFinal /\ CooldownKept /\ ExpansionsSettleOnce
=============================================================================

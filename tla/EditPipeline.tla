---------------------------- MODULE EditPipeline ----------------------------
(***************************************************************************)
(* From a keystroke to the text on screen: the producer handler of         *)
(* src/src/app/main.cpp (onHookEventImpl, hook thread), the consumer       *)
(* (onConsumerEvent), the ordering barrier between them                    *)
(* (PendingEditCounter and EditDrainBarrier of core/win32_wrapper.hpp) and *)
(* the transitions the UI thread makes: engine off and on, session resume. *)
(*                                                                         *)
(* Events are numbered in the order the hook sees them.  What an event     *)
(* becomes is its number: a key that passes through, or an edit.  doc is   *)
(* the sequence of numbers in the order the application receives them, so  *)
(* "the text is right" is "doc is in increasing order, each edit once".    *)
(* The engine's decision (edit or pass) is left open.                      *)
(*                                                                         *)
(* The wake-up of the consumer is what module HookWake promises: a key     *)
(* event the hook enqueues is handled.  pokeConsumer() signals the event   *)
(* but enqueues nothing, so it has no effect here.                         *)
(***************************************************************************)
EXTENDS Naturals, Sequences, FiniteSets, SequencesExt

CONSTANTS
  RingCap,      \* slots of the output ring, 1024 in the code
  BatchCap,     \* editBatchMax
  MaxEvents,    \* bound: events the user causes
  MaxUi,        \* bound: transitions the UI thread makes
  Kinds,        \* what the user does, of {"char", "plain", "click", "focus"}
  UiKinds,      \* what the UI thread does, of {"off", "resume", "policy"}
  Faults,       \* what goes wrong, of {"partial", "slow", "oom", "long"}
  Deferred,     \* the inline path goes through the consumer
  Budget        \* when the barrier's wait runs out: "never", "blocked" (only
                \* while the consumer is blocked by the hook), or "any"

ASSUME PipelineAssumption ==
  /\ RingCap \in Nat \ {0} /\ BatchCap \in Nat \ {0}
  /\ MaxEvents \in Nat /\ MaxUi \in Nat
  /\ Kinds \subseteq {"char", "plain", "click", "focus"}
  /\ UiKinds \subseteq {"off", "resume", "policy"}
  /\ Faults \subseteq {"partial", "slow", "oom", "long"}
  /\ Deferred \in BOOLEAN
  /\ Budget \in {"never", "blocked", "any"}

VARIABLES
  hpc, hid, hkind,   \* the hook thread: where, on which event, of which kind
  outRing,           \* g.outRing: records [kind, id]
  wake,              \* a key event waits in the hook's own ring
  pending, drained,  \* pending_ and the barrier's auto-reset event
  cpc, cret,         \* the consumer: where, and where to go on afterwards
  batch, item,       \* g_editBatch, and an item popped but not yet done with
  owed,              \* how much the next release takes off pending
  doc,               \* what reached the application, in order
  useTsf, enabled,   \* fgUseTsf_, engineEnabled
  mtx,               \* engineMtx: "free", or "hook" while the hook waits in it
  upc, attempt, todo,  \* the UI thread: where, drain attempt, transition
  uiSteps,           \* transitions begun
  arrivals,          \* events seen by the hook
  edits,             \* events that became an edit
  gaveUp,            \* events delivered because the wait ran out
  quiesced           \* forceQuiesce() has cleared a count

hook == <<hpc, hid, hkind>>
barrier == <<pending, drained>>
consumer == <<cpc, cret, batch, item, owed>>
policy == <<useTsf, enabled>>
ui == <<upc, attempt, todo, uiSteps>>
history == <<arrivals, edits, gaveUp, quiesced>>
vars == <<hook, outRing, wake, barrier, consumer, doc, policy, mtx, ui, history>>

NoItem == [kind |-> "None", id |-> 0]

Init ==
  /\ hpc = "idle" /\ hid = 0 /\ hkind = "char"
  /\ outRing = <<>> /\ wake = FALSE
  /\ pending = 0 /\ drained = FALSE
  /\ cpc = "idle" /\ cret = "pop" /\ batch = <<>> /\ item = NoItem /\ owed = 0
  /\ doc = <<>>
  /\ useTsf \in BOOLEAN /\ enabled = TRUE /\ mtx = "free"
  /\ upc = "idle" /\ attempt = 0 /\ todo = "off" /\ uiSteps = 0
  /\ arrivals = 0 /\ edits = {} /\ gaveUp = {} /\ quiesced = FALSE

(***************************************************************************)
(* PendingEditCounter.  releaseClamped is a compare-and-swap followed by a *)
(* second load that decides whether to signal: two steps of its caller.    *)
(***************************************************************************)
\* A plain fetch_sub wraps below zero.
BadReleaseClamped(n) ==
  pending' = IF pending < n THEN (pending + 2 ^ 30) - n ELSE pending - n
ReleaseClamped(n) == pending' = IF pending < n THEN 0 ELSE pending - n
\* The signal is forgotten.
BadReleaseIfDrained == drained' = drained
ReleaseIfDrained == drained' = (drained \/ pending = 0)

\* Where the thread that waits goes next: the wait may end with a timeout
\* only when Budget lets it.
BudgetEnds ==
  \/ Budget = "any"
  \/ Budget = "blocked" /\ cpc = "resync" /\ mtx = "hook"

(***************************************************************************)
(* The hook thread.                                                        *)
(***************************************************************************)
HookGoto(from, to) == hpc = from /\ hpc' = to /\ UNCHANGED <<hid, hkind>>

\* An event arrives.  With the engine off it passes at once; a mouse event
\* takes engineMtx and keeps it while it waits.
Arrive(k) ==
  /\ hpc = "idle" /\ arrivals < MaxEvents
  /\ arrivals' = arrivals + 1
  /\ hid' = arrivals + 1 /\ hkind' = k
  /\ hpc' = CASE ~enabled -> "deliver"
              [] enabled /\ k = "char" -> "decide"
              [] enabled /\ k = "plain" -> "check"
              [] enabled /\ k = "click" -> "check"
              [] enabled /\ k = "focus" -> "focus"
  /\ mtx' = IF enabled /\ k = "click" THEN "hook" ELSE mtx
  /\ UNCHANGED <<outRing, wake, barrier, consumer, doc, policy, ui,
                 edits, gaveUp, quiesced>>

\* A foreground switch: back to inline until the probe answers, then an item
\* for the consumer.  (The event itself is not input to the application.)
Focus ==
  /\ HookGoto("focus", "enqueue")
  /\ useTsf' = FALSE
  /\ outRing' = IF Len(outRing) < RingCap
                THEN Append(outRing, [kind |-> "ForegroundChanged", id |-> hid])
                ELSE outRing
  /\ UNCHANGED <<wake, barrier, consumer, doc, enabled, mtx, ui, history>>

\* The engine's decision, under engineMtx, with engineEnabled read again.
DecideOff ==
  /\ ~enabled /\ mtx = "free"
  /\ mtx' = "hook"
  /\ HookGoto("decide", "check")
  /\ UNCHANGED <<outRing, wake, barrier, consumer, doc, policy, ui, history>>

DecidePass ==
  /\ enabled /\ mtx = "free"
  /\ HookGoto("decide", "check")
  /\ UNCHANGED <<outRing, wake, barrier, consumer, doc, policy, mtx, ui, history>>

DecideEdit ==
  /\ enabled /\ mtx = "free"
  /\ HookGoto("decide", "output")
  /\ edits' = edits \cup {hid}
  /\ UNCHANGED <<outRing, wake, barrier, consumer, doc, policy, mtx, ui,
                 arrivals, gaveUp, quiesced>>

\* The output policy.  A count is published before its item is visible.
\* BadOutputQueued forgets the count.
BadOutputQueued ==
  /\ useTsf \/ Deferred
  /\ hpc = "output" /\ hpc' = "push" /\ UNCHANGED hid
  /\ hkind' = IF useTsf THEN "Edit" ELSE "InlineEdit"
  /\ UNCHANGED <<outRing, wake, barrier, consumer, doc, policy, mtx, ui, history>>

OutputQueued ==
  /\ useTsf \/ Deferred
  /\ hpc = "output" /\ hpc' = "push" /\ UNCHANGED hid
  /\ hkind' = IF useTsf THEN "Edit" ELSE "InlineEdit"
  /\ pending' = pending + 1
  /\ UNCHANGED <<outRing, wake, drained, consumer, doc, policy, mtx, ui, history>>

OutputInline ==
  /\ (~useTsf /\ ~Deferred) \/ "long" \in Faults
  /\ HookGoto("output", "emit")
  /\ UNCHANGED <<outRing, wake, barrier, consumer, doc, policy, mtx, ui, history>>

Push ==
  /\ Len(outRing) < RingCap
  /\ HookGoto("push", "enqueue")
  /\ outRing' = Append(outRing, [kind |-> hkind, id |-> hid])
  /\ UNCHANGED <<wake, barrier, consumer, doc, policy, mtx, ui, history>>

\* Lost with the push that failed.
BadPushFull ==
  /\ Len(outRing) = RingCap
  /\ HookGoto("push", "idle")
  /\ ReleaseClamped(1)
  /\ UNCHANGED <<outRing, wake, drained, consumer, doc, policy, mtx, ui, history>>

PushFull ==
  /\ Len(outRing) = RingCap
  /\ HookGoto("push", "rolled")
  /\ ReleaseClamped(1)
  /\ UNCHANGED <<outRing, wake, drained, consumer, doc, policy, mtx, ui, history>>

RollbackNotify ==
  /\ HookGoto("rolled", "emit")
  /\ ReleaseIfDrained
  /\ UNCHANGED <<outRing, wake, pending, consumer, doc, policy, mtx, ui, history>>

\* emitInline: SendInput from inside the callback.
EmitInline ==
  /\ HookGoto("emit", "idle")
  /\ doc' = Append(doc, hid)
  /\ UNCHANGED <<outRing, wake, barrier, consumer, policy, mtx, ui, history>>

BadEnqueue ==
  /\ HookGoto("enqueue", "idle")
  /\ UNCHANGED <<outRing, wake, barrier, consumer, doc, policy, mtx, ui, history>>

\* PD{_, true}: the key event itself goes to the consumer.  A click then
\* goes on to the application, an edit's key was swallowed.
Enqueue ==
  /\ HookGoto("enqueue", "idle")
  /\ wake' = TRUE
  /\ doc' = IF hkind = "click" THEN Append(doc, hid) ELSE doc
  /\ UNCHANGED <<outRing, barrier, consumer, policy, mtx, ui, history>>

\* waitDrainedHooked: look, sleep on the event, look again; once the budget
\* is spent one last look decides.
CheckDrained ==
  /\ pending = 0
  /\ hpc \in {"check", "last"} /\ hpc' = "deliver" /\ UNCHANGED <<hid, hkind>>
  /\ UNCHANGED <<outRing, wake, barrier, consumer, doc, policy, mtx, ui, history>>

CheckSleep ==
  /\ pending # 0
  /\ HookGoto("check", "sleep")
  /\ UNCHANGED <<outRing, wake, barrier, consumer, doc, policy, mtx, ui, history>>

Awake ==
  /\ drained /\ drained' = FALSE
  /\ HookGoto("sleep", "check")
  /\ UNCHANGED <<outRing, wake, pending, consumer, doc, policy, mtx, ui, history>>

SleepEnds ==
  /\ BudgetEnds
  /\ HookGoto("sleep", "last")
  /\ UNCHANGED <<outRing, wake, barrier, consumer, doc, policy, mtx, ui, history>>

GiveUp ==
  /\ pending # 0
  /\ HookGoto("last", "deliver")
  /\ gaveUp' = gaveUp \cup {hid}
  /\ UNCHANGED <<outRing, wake, barrier, consumer, doc, policy, mtx, ui,
                 arrivals, edits, quiesced>>

\* A click asks for a resync of the engine with the text at the new caret,
\* still inside the callback.
CanResync == hkind = "click" /\ mtx = "hook" /\ useTsf /\ Len(outRing) < RingCap

AskResync ==
  /\ CanResync
  /\ HookGoto("deliver", "enqueue")
  /\ outRing' = Append(outRing, [kind |-> "Resync", id |-> hid])
  /\ mtx' = "free"
  /\ UNCHANGED <<wake, barrier, consumer, doc, policy, ui, history>>

\* The callback returns and the application receives the event.
Deliver ==
  /\ ~CanResync
  /\ HookGoto("deliver", "idle")
  /\ doc' = Append(doc, hid)
  /\ mtx' = "free"
  /\ UNCHANGED <<outRing, wake, barrier, consumer, policy, ui, history>>

HookStep ==
  \/ Focus
  \/ DecideOff \/ DecidePass \/ DecideEdit
  \/ OutputQueued \/ OutputInline
  \/ Push \/ PushFull \/ RollbackNotify \/ EmitInline \/ Enqueue
  \/ CheckDrained \/ CheckSleep \/ Awake \/ SleepEnds \/ GiveUp
  \/ AskResync \/ Deliver

(***************************************************************************)
(* The consumer thread: onConsumerEvent.                                   *)
(***************************************************************************)
StartDrain ==
  /\ cpc = "idle" /\ wake
  /\ wake' = FALSE
  /\ cpc' = "pop"
  /\ UNCHANGED <<hook, outRing, barrier, cret, batch, item, owed, doc, policy, mtx,
                 ui, history>>

\* The ring is empty: what is in the batch is committed, then the call ends.
BadPopNothing ==
  /\ cpc = "pop" /\ outRing = <<>>
  /\ cpc' = "idle"
  /\ cret' = "idle"
  /\ UNCHANGED <<hook, outRing, wake, barrier, batch, item, owed, doc, policy, mtx,
                 ui, history>>

PopNothing ==
  /\ cpc = "pop" /\ outRing = <<>>
  /\ cpc' = IF batch = <<>> THEN "idle" ELSE "commit"
  /\ cret' = "idle"
  /\ UNCHANGED <<hook, outRing, wake, barrier, batch, item, owed, doc, policy, mtx,
                 ui, history>>

BadPopEdit ==
  /\ cpc = "pop" /\ outRing # <<>> /\ Head(outRing).kind = "Edit"
  /\ outRing' = Tail(outRing)
  /\ batch' = Append(batch, Head(outRing).id)
  /\ cpc' = IF Len(batch) > BatchCap THEN "commit" ELSE "pop"
  /\ cret' = "pop"
  /\ UNCHANGED <<hook, wake, barrier, item, owed, doc, policy, mtx, ui, history>>

PopEdit ==
  /\ cpc = "pop" /\ outRing # <<>> /\ Head(outRing).kind = "Edit"
  /\ outRing' = Tail(outRing)
  /\ batch' = Append(batch, Head(outRing).id)
  /\ cpc' = IF Len(batch) + 1 >= BatchCap THEN "commit" ELSE "pop"
  /\ cret' = "pop"
  /\ UNCHANGED <<hook, wake, barrier, item, owed, doc, policy, mtx, ui, history>>

\* push_back throws: the count is rolled back, the edit is sent directly.
PopEditOom ==
  /\ "oom" \in Faults
  /\ cpc = "pop" /\ outRing # <<>> /\ Head(outRing).kind = "Edit"
  /\ outRing' = Tail(outRing)
  /\ item' = Head(outRing)
  /\ owed' = 1 /\ cpc' = "release" /\ cret' = "send"
  /\ UNCHANGED <<hook, wake, barrier, batch, doc, policy, mtx, ui, history>>

\* Any other item waits until the batch before it is committed.
BadPopOther ==
  /\ cpc = "pop" /\ outRing # <<>> /\ Head(outRing).kind # "Edit"
  /\ outRing' = Tail(outRing)
  /\ item' = Head(outRing)
  /\ cret' = CASE Head(outRing).kind = "InlineEdit" -> "inline"
               [] Head(outRing).kind = "Resync" -> "resync"
               [] Head(outRing).kind = "ForegroundChanged" -> "refocus"
  /\ cpc' = cret'
  /\ UNCHANGED <<hook, wake, barrier, batch, owed, doc, policy, mtx, ui, history>>

PopOther ==
  /\ cpc = "pop" /\ outRing # <<>> /\ Head(outRing).kind # "Edit"
  /\ outRing' = Tail(outRing)
  /\ item' = Head(outRing)
  /\ cret' = CASE Head(outRing).kind = "InlineEdit" -> "inline"
               [] Head(outRing).kind = "Resync" -> "resync"
               [] Head(outRing).kind = "ForegroundChanged" -> "refocus"
  /\ cpc' = IF batch = <<>> THEN cret' ELSE "commit"
  /\ UNCHANGED <<hook, wake, barrier, batch, owed, doc, policy, mtx, ui, history>>

\* The fallback re-sends from the first delta, also those already applied.
BadCommit(n) ==
  /\ cpc = "commit"
  /\ n = Len(batch) \/ ("partial" \in Faults /\ n \in 0 .. Len(batch))
  /\ doc' = doc \o SubSeq(batch, 1, n)
  /\ owed' = Len(batch)
  /\ batch' = IF n = Len(batch) THEN <<>> ELSE batch
  /\ cpc' = IF n = Len(batch) THEN "release" ELSE "suffix"
  /\ useTsf' \in {useTsf} \cup (IF n = Len(batch) /\ "slow" \in Faults THEN {FALSE} ELSE {})
  /\ UNCHANGED <<hook, outRing, wake, barrier, cret, item, enabled, mtx, ui, history>>

\* commitBatch: one synchronous session applies the deltas in order and stops
\* at the first that fails.  A slow session sends this foreground to inline.
Commit(n) ==
  /\ cpc = "commit"
  /\ n = Len(batch) \/ ("partial" \in Faults /\ n \in 0 .. Len(batch))
  /\ doc' = doc \o SubSeq(batch, 1, n)
  /\ owed' = Len(batch)
  /\ batch' = SubSeq(batch, n + 1, Len(batch))
  /\ cpc' = IF n = Len(batch) THEN "release" ELSE "suffix"
  /\ useTsf' \in {useTsf} \cup (IF n = Len(batch) /\ "slow" \in Faults THEN {FALSE} ELSE {})
  /\ UNCHANGED <<hook, outRing, wake, barrier, cret, item, enabled, mtx, ui, history>>

\* The unapplied suffix goes through SendInput.
SendSuffix ==
  /\ cpc = "suffix" /\ batch # <<>>
  /\ doc' = Append(doc, Head(batch))
  /\ batch' = Tail(batch)
  /\ cpc' = IF Len(batch) = 1 THEN "release" ELSE "suffix"
  /\ UNCHANGED <<hook, outRing, wake, barrier, cret, item, owed, policy, mtx, ui, history>>

ConsumerRelease ==
  /\ cpc = "release"
  /\ ReleaseClamped(owed)
  /\ owed' = 0
  /\ cpc' = "notify"
  /\ UNCHANGED <<hook, outRing, wake, drained, cret, batch, item, doc, policy, mtx,
                 ui, history>>

ConsumerNotify ==
  /\ cpc = "notify"
  /\ ReleaseIfDrained
  /\ cpc' = cret
  /\ UNCHANGED <<hook, outRing, wake, pending, cret, batch, item, owed, doc, policy, mtx,
                 ui, history>>

\* A deferred inline edit: sent first, its count released afterwards.
SendDeferred ==
  /\ cpc = "inline"
  /\ doc' = Append(doc, item.id)
  /\ item' = NoItem
  /\ owed' = 1 /\ cpc' = "release" /\ cret' = "pop"
  /\ UNCHANGED <<hook, outRing, wake, barrier, batch, policy, mtx, ui, history>>

SendDirect ==
  /\ cpc = "send"
  /\ doc' = Append(doc, item.id)
  /\ item' = NoItem
  /\ cpc' = "pop"
  /\ UNCHANGED <<hook, outRing, wake, barrier, cret, batch, owed, policy, mtx, ui, history>>

\* ForegroundChanged re-resolves the document; Resync reads the text before
\* the caret and needs engineMtx when it could read one.
Refocus ==
  /\ cpc = "refocus" \/ (cpc = "resync" /\ mtx = "free")
  /\ item' = NoItem
  /\ cpc' = "pop"
  /\ UNCHANGED <<hook, outRing, wake, barrier, cret, batch, owed, doc, policy, mtx,
                 ui, history>>

ConsumerStep ==
  \/ StartDrain
  \/ PopNothing \/ PopEdit \/ PopEditOom \/ PopOther
  \/ \E n \in 0 .. BatchCap : Commit(n)
  \/ SendSuffix \/ SendDeferred \/ SendDirect
  \/ ConsumerRelease \/ ConsumerNotify
  \/ Refocus

(***************************************************************************)
(* The UI thread: the engine is switched off or on, the session resumes,   *)
(* or the output policy is evaluated again (probe answered, profile or     *)
(* output mode changed).                                                   *)
(***************************************************************************)
UiGoto(from, to) == upc = from /\ upc' = to /\ UNCHANGED <<attempt, todo, uiSteps>>

\* toggleEngineFromUi: startNewSession under engineMtx, the flag after it.
BeginOff ==
  /\ upc = "idle" /\ enabled /\ mtx = "free"
  /\ "off" \in UiKinds /\ uiSteps < MaxUi
  /\ uiSteps' = uiSteps + 1
  /\ upc' = "store" /\ todo' = "off" /\ attempt' = 0
  /\ UNCHANGED <<hook, outRing, wake, barrier, consumer, doc, policy, mtx, history>>

StoreOff ==
  /\ UiGoto("store", "drain")
  /\ enabled' = FALSE
  /\ UNCHANGED <<hook, outRing, wake, barrier, consumer, doc, useTsf, mtx, history>>

TurnOn ==
  /\ upc = "off" /\ mtx = "free" /\ uiSteps < MaxUi
  /\ uiSteps' = uiSteps + 1
  /\ upc' = "idle"
  /\ enabled' = TRUE
  /\ UNCHANGED <<hook, outRing, wake, barrier, consumer, doc, useTsf, mtx,
                 attempt, todo, history>>

\* onLifecycleResume: policy, then the drain, with the engine still on.
BeginResume ==
  /\ upc = "idle" /\ "resume" \in UiKinds /\ uiSteps < MaxUi
  /\ uiSteps' = uiSteps + 1
  /\ upc' = "drain" /\ todo' = "resume" /\ attempt' = 0
  /\ useTsf' \in BOOLEAN
  /\ UNCHANGED <<hook, outRing, wake, barrier, consumer, doc, enabled, mtx, history>>

\* updateForegroundPolicy, from the probe or from applyPerfStrategy.
Policy ==
  /\ upc = "idle" /\ "policy" \in UiKinds /\ uiSteps < MaxUi
  /\ uiSteps' = uiSteps + 1
  /\ useTsf' = ~useTsf
  /\ UNCHANGED <<hook, outRing, wake, barrier, consumer, doc, enabled, mtx,
                 upc, attempt, todo, history>>

\* drainPendingEditsForLifecycle: twice look, poke and wait; then clear.
DrainDone ==
  /\ pending = 0
  /\ upc \in {"drain", "check", "last"}
  /\ upc' = IF todo = "off" THEN "off" ELSE "idle"
  /\ UNCHANGED <<hook, outRing, wake, barrier, consumer, doc, policy, mtx,
                 attempt, todo, uiSteps, history>>

DrainWait ==
  /\ pending # 0
  /\ upc \in {"drain", "check"} /\ upc' = "sleep" /\ UNCHANGED <<attempt, todo, uiSteps>>
  /\ UNCHANGED <<hook, outRing, wake, barrier, consumer, doc, policy, mtx, history>>

DrainAwake ==
  /\ drained /\ drained' = FALSE
  /\ UiGoto("sleep", "check")
  /\ UNCHANGED <<hook, outRing, wake, pending, consumer, doc, policy, mtx, history>>

DrainEnds ==
  /\ BudgetEnds
  /\ UiGoto("sleep", "last")
  /\ UNCHANGED <<hook, outRing, wake, barrier, consumer, doc, policy, mtx, history>>

DrainAgain ==
  /\ upc = "last" /\ pending # 0
  /\ attempt' = attempt + 1
  /\ upc' = IF attempt = 0 THEN "drain" ELSE "quiesce"
  /\ UNCHANGED <<hook, outRing, wake, barrier, consumer, doc, policy, mtx,
                 todo, uiSteps, history>>

ForceQuiesce ==
  /\ UiGoto("quiesce", "quiesced")
  /\ pending' = 0
  /\ quiesced' = TRUE
  /\ UNCHANGED <<hook, outRing, wake, drained, consumer, doc, policy, mtx,
                 arrivals, edits, gaveUp>>

QuiesceNotify ==
  /\ UiGoto("quiesced", IF todo = "off" THEN "off" ELSE "idle")
  /\ drained' = TRUE
  /\ UNCHANGED <<hook, outRing, wake, pending, consumer, doc, policy, mtx, history>>

UiDrain ==
  \/ StoreOff
  \/ DrainDone \/ DrainWait \/ DrainAwake \/ DrainEnds \/ DrainAgain
  \/ ForceQuiesce \/ QuiesceNotify

Next ==
  \/ \E k \in Kinds : Arrive(k)
  \/ HookStep
  \/ ConsumerStep
  \/ BeginOff \/ TurnOn \/ BeginResume \/ Policy
  \/ UiDrain

\* No thread stops half-way through what it began; nobody need type.
Fairness == WF_vars(HookStep) /\ WF_vars(ConsumerStep) /\ WF_vars(UiDrain)

Spec == Init /\ [][Next]_vars
FairSpec == Spec /\ Fairness

(***************************************************************************)
(* Properties.                                                             *)
(***************************************************************************)
Copies(e, q) == Cardinality({i \in DOMAIN q : q[i] = e})
RingEdits == {i \in DOMAIN outRing : outRing[i].kind \in {"Edit", "InlineEdit"}}
If1(b) == IF b THEN 1 ELSE 0

TypeOK ==
  /\ hpc \in {"idle", "focus", "decide", "output", "push", "rolled", "emit", "enqueue",
              "check", "sleep", "last", "deliver"}
  /\ hid \in 0 .. MaxEvents /\ hkind \in Kinds \cup {"char", "Edit", "InlineEdit"}
  /\ Len(outRing) <= RingCap
  /\ \A i \in DOMAIN outRing :
       outRing[i] \in [kind : {"Edit", "InlineEdit", "ForegroundChanged", "Resync"},
                       id : 1 .. MaxEvents]
  /\ wake \in BOOLEAN /\ drained \in BOOLEAN
  /\ pending \in 0 .. MaxEvents
  /\ cpc \in {"idle", "pop", "commit", "suffix", "release", "notify", "inline", "send",
              "resync", "refocus"}
  /\ Len(batch) <= BatchCap /\ owed \in 0 .. BatchCap
  /\ mtx \in {"free", "hook"} /\ useTsf \in BOOLEAN /\ enabled \in BOOLEAN
  /\ upc \in {"idle", "store", "drain", "check", "sleep", "last", "quiesce", "quiesced", "off"}
  /\ attempt \in 0 .. 2

(* An edit the engine decided on is never lost and never doubled: at any   *)
(* moment it is in the hook's hand, in the ring, with the consumer or on   *)
(* screen, and in exactly one of these places.                             *)
EditInOnePlace ==
  \A e \in edits :
    1 = Copies(e, doc) + Copies(e, batch)
        + Cardinality({i \in RingEdits : outRing[i].id = e})
        + If1(item.id = e /\ item.kind \in {"Edit", "InlineEdit"})
        + If1(hid = e /\ hpc \in {"output", "push", "rolled", "emit"})

(* The pending count is what is still to be applied: exactly, as long as   *)
(* no lifecycle transition cleared it, and never more (no phantom count,   *)
(* no wrap below zero) even after one did.                                 *)
Outstanding ==
  If1(hpc = "push") + Cardinality(RingEdits) + If1(item.kind = "InlineEdit")
    + owed + (IF cpc = "suffix" THEN 0 ELSE Len(batch))
CountIsWork ==
  /\ pending <= Outstanding
  /\ ~quiesced => pending = Outstanding

(* What the user typed reaches the application in the order typed; only a  *)
(* key whose wait ran out may come before an earlier edit.                 *)
InOrder ==
  \A i, j \in DOMAIN doc : (i < j /\ doc[i] > doc[j]) => doc[i] \in gaveUp

(* When nobody has anything left to do, nothing is stranded: no edit waits *)
(* in the ring and the barrier is open for the next key.                   *)
AtRest == hpc = "idle" /\ cpc = "idle" /\ ~wake /\ upc \in {"idle", "off"}
NothingStranded == AtRest => pending = 0 /\ RingEdits = {} /\ batch = <<>>

(* The three together: the output policy, slow and partial commits and     *)
(* edits deferred to the consumer neither lose an edit nor its count.      *)
NoEditLost == EditInOnePlace /\ CountIsWork /\ NothingStranded

(* Once switching the engine off has drained the queue, no edit reaches    *)
(* the application until it is switched on again.                          *)
OffIsCleanCut ==
  [][(upc = "off" /\ upc' = "off") => edits \cap ToSet(doc') \subseteq ToSet(doc)]_vars

(* Every edit reaches the application, and every callback returns: no wake *)
(* of the barrier is lost, even if the wait had no budget.                 *)
EditsArrive == \A e \in 1 .. MaxEvents : (e \in edits) ~> (e \in ToSet(doc))
CallbackReturns == (hpc # "idle") ~> (hpc = "idle")
=============================================================================

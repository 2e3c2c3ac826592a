---------------------------- MODULE TsfComposer -----------------------------
(***************************************************************************)
(* src/src/tsf/TsfComposer.cpp on the consumer thread, with the flush of   *)
(* an edit batch that uses it (main.cpp, flushEditBatch).  The document in *)
(* focus, its contexts and the references of COM are the system's side.    *)
(***************************************************************************)
EXTENDS Naturals, Sequences

CONSTANTS
  Docs,         \* document managers that may have the focus
  Contexts,     \* contexts their applications may push and pop
  Owner,        \* by context: its document
  MaxEdits,     \* bound: edits typed
  MaxChanges,   \* bound: changes of focus and of contexts
  MaxBatch      \* edits in one session

None == 0

VARIABLES
  focus, top,       \* the document in focus; the top context of each document
  changes,          \* changes of focus and contexts so far
  com,              \* COM initialisations taken on this thread and not returned
  ownsComInit, threadMgr, attached,
  docMgr, context,  \* the composer's cached references
  inserter,         \* the context whose insert interface is cached
  mgrRefs,          \* references to the thread manager
  held,             \* references taken and not released, by object
  batch,            \* the edits collected for the next flush
  tsfTyped,            \* edits so far
  text, intended,   \* what each context holds, and what the user meant it to hold
  at, applied,      \* where the thread is; the edits the session applied
  slow              \* lastCommitSlow_

systemVars == <<focus, top, changes>>
refVars == <<ownsComInit, threadMgr, attached, docMgr, context, inserter, mgrRefs, held, com>>
flushVars == <<batch, at, applied, slow>>
tsfVars == <<systemVars, refVars, flushVars, tsfTyped, text, intended>>

Objects == Docs \cup Contexts

ComposerInit ==
  /\ focus \in Docs /\ changes = 0
  /\ top \in [Docs -> Contexts] /\ \A d \in Docs : Owner[top[d]] = d
  /\ com = 0 /\ mgrRefs = 0 /\ ownsComInit = FALSE /\ threadMgr = FALSE /\ attached = FALSE
  /\ docMgr = None /\ context = None /\ inserter = None
  /\ held = [o \in Objects |-> 0]
  /\ batch = <<>> /\ tsfTyped = 0 /\ at = "idle" /\ applied = 0 /\ slow = FALSE
  /\ text = [c \in Contexts |-> <<>>] /\ intended = text

(***************************************************************************)
(* The system: the focus moves, a document pops its context for another.   *)
(***************************************************************************)
FocusMoves ==
  /\ at = "idle" /\ batch = <<>> /\ changes < MaxChanges
  /\ changes' = changes + 1
  /\ focus' \in Docs \cup {None}
  /\ UNCHANGED <<top, refVars, flushVars, tsfTyped, text, intended>>

ContextReplaced(d) ==
  /\ at = "idle" /\ batch = <<>> /\ changes < MaxChanges
  /\ changes' = changes + 1
  /\ \E c \in {x \in Contexts : Owner[x] = d} \cup {None} : top' = [top EXCEPT ![d] = c]
  /\ UNCHANGED <<focus, refVars, flushVars, tsfTyped, text, intended>>

(***************************************************************************)
(* References: what a resolution of the focus takes, and what it releases. *)
(***************************************************************************)
Cached == {docMgr, context} \ {None}
Uses(o) == (IF o \in Cached THEN 1 ELSE 0) + (IF o = inserter /\ o # None THEN 1 ELSE 0)

Released == [o \in Objects |-> held[o] - Uses(o)]

Resolved(take) ==
  LET d == focus
      c == IF focus = None THEN None ELSE top[focus]
      i == IF take THEN c ELSE None
  IN  /\ docMgr' = d /\ context' = c /\ inserter' = i
      /\ held' = [o \in Objects |->
           Released[o] + (IF o \in {d, c} \ {None} THEN 1 ELSE 0)
                       + (IF i # None /\ o = i THEN 1 ELSE 0)]

\* The context may refuse the insert interface.
onForegroundChanged ==
  IF ~attached THEN UNCHANGED <<docMgr, context, inserter, held>>
  ELSE \E take \in BOOLEAN : Resolved(take)

(***************************************************************************)
(* attach() and detach().                                                  *)
(***************************************************************************)
\* CoInitializeEx succeeds (when it fails nothing is taken).
AttachBegins ==
  /\ at = "idle" /\ batch = <<>> /\ ~attached
  /\ com' = com + 1 /\ ownsComInit' = TRUE
  /\ at' = "attach"
  /\ UNCHANGED <<systemVars, threadMgr, attached, docMgr, context, inserter, mgrRefs, held,
                 batch, applied, slow, tsfTyped, text, intended>>

\* No thread manager, or it does not activate: what was taken is returned.
AttachFails ==
  /\ at = "attach"
  /\ com' = com - (IF ownsComInit THEN 1 ELSE 0) /\ ownsComInit' = FALSE
  /\ at' = "idle"
  /\ UNCHANGED <<systemVars, threadMgr, attached, docMgr, context, inserter, mgrRefs, held,
                 batch, applied, slow, tsfTyped, text, intended>>

Attach ==
  /\ at = "attach"
  /\ threadMgr' = TRUE /\ mgrRefs' = mgrRefs + 1 /\ attached' = TRUE
  /\ \E take \in BOOLEAN : Resolved(take)
  /\ at' = "idle"
  /\ UNCHANGED <<systemVars, com, ownsComInit, batch, applied, slow, tsfTyped, text, intended>>

BadDetach ==
  /\ at = "idle" /\ batch = <<>> /\ attached
  /\ held' = Released /\ mgrRefs' = mgrRefs - 1
  /\ docMgr' = None /\ context' = None /\ inserter' = None
  /\ threadMgr' = FALSE /\ attached' = FALSE
  /\ UNCHANGED <<com, ownsComInit, systemVars, flushVars, tsfTyped, text, intended>>

Detach ==
  /\ at = "idle" /\ batch = <<>> /\ attached
  /\ held' = Released /\ mgrRefs' = mgrRefs - 1
  /\ docMgr' = None /\ context' = None /\ inserter' = None
  /\ threadMgr' = FALSE /\ attached' = FALSE
  /\ com' = com - (IF ownsComInit THEN 1 ELSE 0) /\ ownsComInit' = FALSE
  /\ UNCHANGED <<systemVars, flushVars, tsfTyped, text, intended>>

\* A ForegroundChanged item, while text services are the output.
ForegroundChanged ==
  /\ at = "idle" /\ batch = <<>> /\ attached
  /\ onForegroundChanged
  /\ UNCHANGED <<systemVars, com, ownsComInit, threadMgr, mgrRefs, attached, flushVars,
                 tsfTyped, text, intended>>

(***************************************************************************)
(* A flush.  The edits of a batch were made for the document in focus.     *)
(***************************************************************************)
Edited(s, e) == Append(SubSeq(s, 1, Len(s) - e.back), e.letter)
EditedAll(s, es) ==
  LET after[n \in 0 .. Len(es)] == IF n = 0 THEN s ELSE Edited(after[n - 1], es[n])
  IN  after[Len(es)]

InFocus == IF focus = None THEN None ELSE top[focus]

\* The engine only takes back what it wrote into this document itself.
Room(e) ==
  InFocus # None => Len(EditedAll(intended[InFocus], batch)) >= e.back

Collect(back) ==
  LET e == [back |-> back, letter |-> tsfTyped + 1] IN
  /\ at = "idle" /\ tsfTyped < MaxEdits /\ Len(batch) < MaxBatch
  /\ Room(e)
  /\ batch' = Append(batch, e) /\ tsfTyped' = tsfTyped + 1
  /\ UNCHANGED <<systemVars, refVars, at, applied, slow, text, intended>>

StartFlush ==
  /\ at = "idle" /\ batch # <<>>
  /\ intended' = IF InFocus = None THEN intended
                 ELSE [intended EXCEPT ![InFocus] = EditedAll(@, batch)]
  /\ at' = "commit" /\ applied' = 0
  /\ UNCHANGED <<systemVars, refVars, batch, slow, tsfTyped, text>>

\* Not attached: the edits go another way.
CommitUnattached ==
  /\ at = "commit" /\ ~attached
  /\ at' = "fallback"
  /\ UNCHANGED <<systemVars, refVars, batch, applied, slow, tsfTyped, text, intended>>

\* The cached context is kept when its document still has the focus.
\* Mutant: a cached context is kept wherever the focus is.
BadEnsureContext ==
  IF context # None THEN UNCHANGED <<docMgr, context, inserter, held>>
                    ELSE onForegroundChanged
ensureContext ==
  IF context # None /\ focus = docMgr THEN UNCHANGED <<docMgr, context, inserter, held>>
                                      ELSE onForegroundChanged

CommitAttached ==
  /\ at = "commit" /\ attached
  /\ ensureContext
  /\ at' = IF context' # None THEN "session" ELSE "fallback"
  /\ UNCHANGED <<systemVars, com, ownsComInit, threadMgr, mgrRefs, attached, batch, applied, slow,
                 tsfTyped, text, intended>>

\* The session stops at the first edit the context refuses; a context that was
\* popped refuses them all.
DoEditSession(k) ==
  /\ at = "session" /\ k \in 0 .. Len(batch)
  /\ top[Owner[context]] # context => k = 0
  /\ text' = [text EXCEPT ![context] = EditedAll(@, SubSeq(batch, 1, k))]
  /\ applied' = k
  /\ at' = IF k = Len(batch) THEN "done" ELSE "fallback"
  /\ slow' \in BOOLEAN
  /\ UNCHANGED <<systemVars, refVars, batch, tsfTyped, intended>>

\* One edit has a session without a copied list; no memory for either session
\* applies nothing.
commitOne == Len(batch) = 1 /\ \E k \in 0 .. 1 : DoEditSession(k)
commitBatch == Len(batch) > 1 /\ \E k \in 0 .. MaxBatch : DoEditSession(k)

\* A resync reads the word before the caret, between flushes.
textBeforeCaret ==
  /\ at = "idle" /\ batch = <<>> /\ attached
  /\ ensureContext
  /\ UNCHANGED <<systemVars, com, ownsComInit, threadMgr, mgrRefs, attached, flushVars,
                 tsfTyped, text, intended>>

BadFallback ==
  /\ at = "fallback"
  /\ text' = IF InFocus = None THEN text
             ELSE [text EXCEPT ![InFocus] = EditedAll(@, batch)]
  /\ at' = "done"
  /\ UNCHANGED <<systemVars, refVars, batch, applied, slow, tsfTyped, intended>>

\* SendInput, for the edits the session did not apply.
Fallback ==
  /\ at = "fallback"
  /\ text' = IF InFocus = None THEN text
             ELSE [text EXCEPT ![InFocus] = EditedAll(@, SubSeq(batch, applied + 1, Len(batch)))]
  /\ at' = "done"
  /\ UNCHANGED <<systemVars, refVars, batch, applied, slow, tsfTyped, intended>>

FlushEnds ==
  /\ at = "done"
  /\ at' = "idle" /\ batch' = <<>> /\ applied' = 0
  /\ UNCHANGED <<systemVars, refVars, slow, tsfTyped, text, intended>>

ComposerNext ==
  \/ FocusMoves \/ \E d \in Docs : ContextReplaced(d)
  \/ AttachBegins \/ AttachFails \/ Attach \/ Detach \/ ForegroundChanged
  \/ \E back \in 0 .. 1 : Collect(back)
  \/ StartFlush \/ CommitUnattached \/ CommitAttached \/ commitOne \/ commitBatch
  \/ Fallback \/ FlushEnds \/ textBeforeCaret

ComposerSpec == ComposerInit /\ [][ComposerNext]_tsfVars

(* Every edit reaches the document that was in focus once and in order,    *)
(* whatever the session refused half-way and wherever the focus had moved  *)
(* since the context was cached (TsfComposer.cpp lines 455-470, the suffix *)
(* rule of appliedCount).                                                  *)
EditsLandOnce == at = "idle" => text = intended

(* References balance: between calls the composer holds exactly the        *)
(* objects in its fields, none after detach(), and owns one COM            *)
(* initialisation exactly while it is attached.                            *)
ReferencesBalance ==
  /\ \A o \in Objects : held[o] = Uses(o)
  /\ mgrRefs = (IF threadMgr THEN 1 ELSE 0)
  /\ com = (IF attached \/ at = "attach" THEN 1 ELSE 0)
  /\ ~attached => Cached = {} /\ inserter = None
=============================================================================

----------------------------- MODULE PartsProof -----------------------------
(***************************************************************************)
(* The parts beside the games, each with an invariant of its own.          *)
(*                                                                         *)
(* The two ways an edit leaves the program.  Through text services, for    *)
(* every set of documents and contexts and every batch: what the session   *)
(* applies and what falls back land once and in order, and the references  *)
(* of COM balance.  As typed input, for any threads, edits and slab: edits *)
(* do not mix, and a key is not divided between two calls.                 *)
(*                                                                         *)
(* What is kept.  The progression, for any thresholds, rewards and threads *)
(* that fold; the rival's ring, for every size; the settings, for every    *)
(* registry and text that the program finds.  What is shown: the notices,  *)
(* for any kinds, policies and weights.                                    *)
(***************************************************************************)
EXTENDS TsfComposer, InlineEmitter, Progress, AiRival, Settings, Notifications, DataFacts,
        FiniteSetTheorems

(***************************************************************************)
(* Edits applied one after the other.                                      *)
(***************************************************************************)
\* f holds what s is after the first n edits of es.
Applies(f, s, es, n) ==
  f = [i \in 0 .. n |-> IF i = 0 THEN s ELSE Edited(f[i - 1], es[i])]

\* The recursive function behind EditedAll exists, whatever the batch.
LEMMA AppliesExists ==
  ASSUME NEW s, NEW es, NEW k \in Nat
  PROVE  \E f : Applies(f, s, es, k)
<1> DEFINE S == {n \in Nat : \E f : Applies(f, s, es, n - 1)}
<1>1. 1 \in S
  <2> DEFINE f == [i \in 0 .. 0 |-> s]
  <2>1. Applies(f, s, es, 0)  BY DEF Applies
  <2> QED  BY <2>1
<1>2. ASSUME NEW n \in 1 .. (k + 1) - 1, n \in S PROVE n + 1 \in S
  <2>1. PICK g : Applies(g, s, es, n - 1)  BY <1>2
  <2> DEFINE f == [i \in 0 .. n |-> IF i = 0 THEN s ELSE Edited(g[i - 1], es[i])]
  <2>2. ASSUME NEW i \in 0 .. n, i # 0 PROVE f[i - 1] = g[i - 1]
    <3>1. i - 1 \in 0 .. n - 1 /\ i - 1 \in 0 .. n  BY <2>2
    <3>2. f[i - 1] = IF i - 1 = 0 THEN s ELSE Edited(g[i - 1 - 1], es[i - 1])  BY <3>1
    <3>3. g[i - 1] = IF i - 1 = 0 THEN s ELSE Edited(g[i - 1 - 1], es[i - 1])
      BY <2>1, <3>1 DEF Applies
    <3> QED  BY <3>2, <3>3
  <2>3. Applies(f, s, es, n)
    <3>1. \A i \in 0 .. n : (IF i = 0 THEN s ELSE Edited(g[i - 1], es[i]))
                          = (IF i = 0 THEN s ELSE Edited(f[i - 1], es[i]))
      BY <2>2
    <3> QED  BY <3>1 DEF Applies
  <2>4. (n + 1) - 1 = n /\ n + 1 \in Nat  OBVIOUS
  <2> QED  BY <2>3, <2>4
<1> HIDE DEF S
<1>3. k + 1 \in S
  <2>1. k + 1 \in Nat /\ k + 1 \in 1 .. k + 1  OBVIOUS
  <2>2. \A n \in 1 .. k + 1 : n \in S  BY <1>1, <1>2, <2>1, Induction
  <2> QED  BY <2>1, <2>2
<1>4. (k + 1) - 1 = k  OBVIOUS
<1> QED  BY <1>3, <1>4 DEF S

\* What f holds step by step, and EditedAll at its end.
Leads(f, s, es, n) ==
  /\ EditedAll(s, es) = f[n] /\ f[0] = s
  /\ \A i \in 1 .. n : f[i] = Edited(f[i - 1], es[i])

\* EditedAll, step by step: each edit is made to what those before it left.
LEMMA EditedSteps ==
  ASSUME NEW s, NEW es, NEW n \in Nat, Len(es) = n
  PROVE  \E f : Leads(f, s, es, n)
<1> DEFINE F == CHOOSE f : Applies(f, s, es, n)
<1>1. Applies(F, s, es, n)
  BY AppliesExists, Zenon
<1>2. EditedAll(s, es) = F[n]
  BY Zenon DEF EditedAll, Applies
<1> HIDE DEF F
<1>3. F[0] = s  BY <1>1 DEF Applies
<1>4. ASSUME NEW i \in 1 .. n PROVE F[i] = Edited(F[i - 1], es[i])
  <2>1. i \in 0 .. n /\ i # 0  BY <1>4
  <2> QED  BY <1>1, <2>1 DEF Applies
<1> QED  BY <1>2, <1>3, <1>4 DEF Leads

\* No edits leave a text as it is.
LEMMA EditedNone == ASSUME NEW s, NEW es, Len(es) = 0 PROVE EditedAll(s, es) = s
<1>1. PICK f : Leads(f, s, es, 0)
  <2>1. 0 \in Nat  OBVIOUS
  <2> QED  BY <2>1, EditedSteps, Zenon
<1> QED  BY <1>1 DEF Leads

\* Two runs of edits, one behind the other, are one: the suffix rule of appliedCount.
LEMMA EditedMore ==
  ASSUME NEW E, NEW s, NEW a \in Seq(E), NEW b \in Seq(E)
  PROVE  EditedAll(s, a \o b) = EditedAll(EditedAll(s, a), b)
<1> DEFINE m == Len(a)
           n == Len(b)
           c == a \o b
           t == EditedAll(s, a)
<1>1. /\ m \in Nat /\ n \in Nat /\ m + n \in Nat
      /\ Len(a) = m /\ Len(b) = n /\ Len(c) = m + n
      /\ \A i \in 1 .. m : c[i] = a[i]
      /\ \A i \in 1 .. n : c[m + i] = b[i]
  OBVIOUS
<1> SUFFICES EditedAll(s, c) = EditedAll(t, b)
  OBVIOUS
<1> HIDE DEF m, n, c, t
<1>2. PICK f : Leads(f, s, c, m + n)
  BY <1>1, EditedSteps, Zenon
<1>3. PICK g : Leads(g, s, a, m)
  BY <1>1, EditedSteps, Zenon
<1>4. PICK h : Leads(h, t, b, n)
  BY <1>1, EditedSteps, Zenon
<1>5. f[m] = t
  <2> DEFINE S == {i \in Nat : f[i - 1] = g[i - 1]}
  <2>1. 1 \in S  BY <1>2, <1>3 DEF Leads
  <2>2. ASSUME NEW i \in 1 .. (m + 1) - 1, i \in S PROVE i + 1 \in S
    <3>1. /\ i \in 1 .. m /\ i \in 1 .. m + n /\ (i + 1) - 1 = i /\ i + 1 \in Nat
      BY <1>1
    <3>2. f[i] = Edited(f[i - 1], c[i]) /\ g[i] = Edited(g[i - 1], a[i])
      BY <1>2, <1>3, <3>1 DEF Leads
    <3>3. f[i - 1] = g[i - 1] /\ c[i] = a[i]  BY <1>1, <2>2, <3>1
    <3> QED  BY <3>1, <3>2, <3>3
  <2> HIDE DEF S
  <2>3. m + 1 \in Nat /\ m + 1 \in 1 .. m + 1 /\ (m + 1) - 1 = m  BY <1>1
  <2>4. m + 1 \in S  BY <2>1, <2>2, <2>3, Induction
  <2> QED  BY <1>3, <2>3, <2>4 DEF S, t, Leads
<1>6. f[m + n] = h[n]
  <2> DEFINE S == {i \in Nat : f[m + (i - 1)] = h[i - 1]}
  <2>1. 1 \in S
    <3>1. m + (1 - 1) = m /\ 1 - 1 = 0 /\ 1 \in Nat  BY <1>1
    <3> QED  BY <1>4, <1>5, <3>1 DEF Leads
  <2>2. ASSUME NEW i \in 1 .. (n + 1) - 1, i \in S PROVE i + 1 \in S
    <3>1. /\ i \in 1 .. n /\ m + i \in 1 .. m + n /\ (m + i) - 1 = m + (i - 1)
          /\ (i + 1) - 1 = i /\ i + 1 \in Nat
      BY <1>1
    <3>2. f[m + i] = Edited(f[m + (i - 1)], c[m + i]) /\ h[i] = Edited(h[i - 1], b[i])
      BY <1>2, <1>4, <3>1 DEF Leads
    <3>3. f[m + (i - 1)] = h[i - 1] /\ c[m + i] = b[i]  BY <1>1, <2>2, <3>1
    <3> QED  BY <3>1, <3>2, <3>3
  <2> HIDE DEF S
  <2>3. n + 1 \in Nat /\ n + 1 \in 1 .. n + 1 /\ (n + 1) - 1 = n  BY <1>1
  <2>4. n + 1 \in S  BY <2>1, <2>2, <2>3, Induction
  <2> QED  BY <2>3, <2>4 DEF S
<1> QED  BY <1>2, <1>4, <1>6 DEF Leads

(***************************************************************************)
(* The composer.                                                           *)
(***************************************************************************)
\* No document and no context has the number of none; a context has a document.
Named == None \notin Docs \cup Contexts /\ Owner \in [Contexts -> Docs]

\* An edit of a batch; and a text for every context.
Edits == [back : Nat, letter : Nat]
Placed(t) == t = [c \in Contexts |-> t[c]]

ComposerTypes ==
  /\ focus \in Docs \cup {None}
  /\ top \in [Docs -> Contexts \cup {None}] /\ \A d \in Docs : top[d] # None => Owner[top[d]] = d
  /\ docMgr \in Docs \cup {None} /\ context \in Contexts \cup {None}
  /\ context # None => docMgr = Owner[context]
  /\ batch \in Seq(Edits) /\ tsfTyped \in Nat /\ applied \in 0 .. Len(batch)
  /\ attached \in BOOLEAN
  /\ Placed(text) /\ Placed(intended)

\* What the contexts hold once the edits es have reached the one in focus.
Landed(t, es) ==
  IF InFocus = None THEN t ELSE [t EXCEPT ![InFocus] = EditedAll(@, es)]

\* At every step of a flush, what is left of the batch makes the text what it should be.
FlushInv ==
  /\ at \in {"idle", "attach", "done"} => text = intended
  /\ at = "commit" => intended = Landed(text, batch)
  /\ at = "session" => context # None /\ focus = docMgr /\ intended = Landed(text, batch)
  /\ at = "fallback" => intended = Landed(text, SubSeq(batch, applied + 1, Len(batch)))
  /\ at \in {"commit", "session"} => applied = 0

\* The balance, and who owns the initialisation of COM.
RefInv ==
  /\ \A o \in Objects : held[o] = Uses(o)
  /\ held = [o \in Objects |-> held[o]]
  /\ mgrRefs = (IF threadMgr THEN 1 ELSE 0)
  /\ com = (IF attached \/ at = "attach" THEN 1 ELSE 0)
  /\ (ownsComInit <=> attached \/ at = "attach") /\ (threadMgr <=> attached)
  /\ at = "attach" => ~attached
  /\ ~attached => docMgr = None /\ context = None /\ inserter = None

\* A composer that has attached to nothing holds nothing, and no text is owed.
LEMMA InitComposer == Named /\ ComposerInit => ComposerTypes /\ FlushInv /\ RefInv
<1> SUFFICES ASSUME Named, ComposerInit PROVE ComposerTypes /\ FlushInv /\ RefInv
  OBVIOUS
<1>1. ComposerTypes
  <2>1. top \in [Docs -> Contexts \cup {None}]  BY DEF ComposerInit
  <2>2. batch \in Seq(Edits) /\ Len(batch) = 0  BY DEF ComposerInit
  <2>3. Placed(text) /\ Placed(intended)  BY DEF ComposerInit, Placed
  <2>4. /\ focus \in Docs /\ (\A d \in Docs : Owner[top[d]] = d) /\ attached = FALSE
        /\ docMgr = None /\ context = None /\ tsfTyped = 0 /\ applied = 0
    BY Zenon DEF ComposerInit
  <2>5. applied \in 0 .. Len(batch) /\ tsfTyped \in Nat  BY <2>2, <2>4
  <2>6. \A d \in Docs : top[d] # None => Owner[top[d]] = d  BY <2>4, Zenon
  <2>7. /\ focus \in Docs \cup {None} /\ docMgr \in Docs \cup {None} /\ attached \in BOOLEAN
        /\ context \in Contexts \cup {None} /\ (context # None => docMgr = Owner[context])
    BY <2>4
  <2> QED  BY <2>1, <2>2, <2>3, <2>5, <2>6, <2>7, Zenon DEF ComposerTypes
<1>2. FlushInv  BY DEF ComposerInit, FlushInv
<1>3. RefInv
  <2>1. /\ held = [o \in Objects |-> 0] /\ mgrRefs = 0 /\ threadMgr = FALSE /\ com = 0
        /\ ownsComInit = FALSE /\ attached = FALSE /\ at = "idle"
        /\ docMgr = None /\ context = None /\ inserter = None
    BY Zenon DEF ComposerInit
  <2>2. \A o \in Objects : Uses(o) = 0  BY <2>1 DEF Uses, Cached
  <2> QED  BY <2>1, <2>2 DEF RefInv
<1> QED  BY <1>1, <1>2, <1>3

\* What a resolution of the focus leaves: the references balance again, and the
\* context is of the document.
LEMMA ResolvedRefs ==
  ASSUME Named, ComposerTypes, \A o \in Objects : held[o] = Uses(o),
         NEW take \in BOOLEAN, Resolved(take)
  PROVE  /\ \A o \in Objects : held'[o] = Uses(o)'
         /\ held' = [o \in Objects |-> held'[o]]
         /\ docMgr' = focus /\ context' = InFocus
         /\ context' \in Contexts \cup {None} /\ docMgr' \in Docs \cup {None}
         /\ context' # None => docMgr' = Owner[context']
<1>1. /\ focus \in Docs \cup {None} /\ \A d \in Docs : top[d] \in Contexts \cup {None}
      /\ \A d \in Docs : top[d] # None => Owner[top[d]] = d
  BY DEF ComposerTypes
<1>2. docMgr' = focus /\ context' = InFocus /\ inserter' \in {context', None}
  BY DEF Resolved, InFocus
<1>3. ASSUME NEW o \in Objects PROVE Uses(o) - Uses(o) = 0
  BY DEF Uses
<1>4. held' = [o \in Objects |->
                 Released[o] + (IF o \in {docMgr', context'} \ {None} THEN 1 ELSE 0)
                             + (IF inserter' # None /\ o = inserter' THEN 1 ELSE 0)]
  BY DEF Resolved
<1>5. ASSUME NEW o \in Objects PROVE held'[o] = Uses(o)'
  <2>1. Released[o] = 0  BY <1>3 DEF Released
  <2> QED  BY <1>4, <2>1 DEF Uses, Cached
<1>6. held' = [o \in Objects |-> held'[o]]
  BY <1>4
<1>7. InFocus \in Contexts \cup {None} /\ (InFocus # None => focus = Owner[InFocus])
  BY <1>1 DEF InFocus
<1> QED  BY <1>1, <1>2, <1>5, <1>6, <1>7

\* Whatever changes the references, they balance again; between the calls of a
\* flush a context that is kept or found is of the document in focus.
RefsBalanced ==
  /\ \A o \in Objects : held[o] = Uses(o)
  /\ held = [o \in Objects |-> held[o]]
  /\ context \in Contexts \cup {None} /\ docMgr \in Docs \cup {None}
  /\ context # None => docMgr = Owner[context]

\* A resolution of the focus, a kept context or nothing at all: the references balance.
LEMMA Refreshed ==
  ASSUME Named, ComposerTypes, RefsBalanced,
         \/ \E take \in BOOLEAN : Resolved(take)
         \/ onForegroundChanged \/ ensureContext \/ UNCHANGED refVars
  PROVE  RefsBalanced'
<1>1. CASE \E take \in BOOLEAN : Resolved(take)
  <2>1. PICK take \in BOOLEAN : Resolved(take)  BY <1>1
  <2> QED  BY <2>1, ResolvedRefs DEF RefsBalanced
<1>2. CASE UNCHANGED <<docMgr, context, inserter, held>>
  BY <1>2 DEF RefsBalanced, Uses, Cached
<1> QED  BY <1>1, <1>2, Zenon DEF onForegroundChanged, ensureContext, refVars

\* What ensureContext leaves belongs to the document in focus, whether it was cached
\* or found anew.
LEMMA EnsuredContext ==
  ASSUME Named, ComposerTypes, RefsBalanced, attached, ensureContext
  PROVE  context' # None => docMgr' = focus
<1>1. CASE context # None /\ focus = docMgr
  BY <1>1 DEF ensureContext
<1>2. CASE ~(context # None /\ focus = docMgr)
  <2>1. PICK take \in BOOLEAN : Resolved(take)
    BY <1>2, Zenon DEF ensureContext, onForegroundChanged
  <2> QED  BY <2>1, ResolvedRefs DEF RefsBalanced
<1> QED  BY <1>1, <1>2

(***************************************************************************)
(* Types.                                                                  *)
(***************************************************************************)
LEMMA PlacedExcept ==
  ASSUME NEW t, Placed(t), NEW x, NEW v
  PROVE  Placed([t EXCEPT ![x] = v])
BY DEF Placed

\* What a step that leaves the texts and the batch alone preserves.
LEMMA TypesStay ==
  ASSUME ComposerTypes, RefsBalanced', focus' \in Docs \cup {None},
         top' \in [Docs -> Contexts \cup {None}],
         \A d \in Docs : top'[d] # None => Owner[top'[d]] = d,
         attached' \in BOOLEAN, applied' = applied,
         UNCHANGED <<batch, tsfTyped, text, intended>>
  PROVE  ComposerTypes'
<1>1. Placed(text)' /\ Placed(intended)'  BY Zenon DEF ComposerTypes, Placed
<1>2. batch' \in Seq(Edits) /\ tsfTyped' \in Nat /\ applied' \in 0 .. Len(batch')
  BY DEF ComposerTypes
<1>3. /\ docMgr' \in Docs \cup {None} /\ context' \in Contexts \cup {None}
      /\ context' # None => docMgr' = Owner[context']
  BY DEF RefsBalanced
<1> QED  BY <1>1, <1>2, <1>3, Zenon DEF ComposerTypes

\* Every action preserves the types, and with them the balance of each object.
LEMMA StepTypes ==
  ASSUME Named, ComposerTypes, RefInv, ComposerNext
  PROVE  ComposerTypes' /\ RefsBalanced'
<1> DEFINE Sys == /\ focus' \in Docs \cup {None} /\ top' \in [Docs -> Contexts \cup {None}]
                  /\ \A d \in Docs : top'[d] # None => Owner[top'[d]] = d
<1>0. RefsBalanced  BY Zenon DEF ComposerTypes, RefInv, RefsBalanced
<1>1. ASSUME UNCHANGED systemVars PROVE Sys
  BY <1>1, Zenon DEF systemVars, ComposerTypes
<1>2. CASE FocusMoves
  <2>1. RefsBalanced'  BY <1>0, <1>2, Refreshed DEF FocusMoves
  <2>2. Sys  BY <1>2 DEF FocusMoves, ComposerTypes
  <2> QED  BY <1>2, <2>1, <2>2, TypesStay DEF FocusMoves, refVars, flushVars, ComposerTypes
<1>3. CASE \E d \in Docs : ContextReplaced(d)
  <2>1. PICK d \in Docs : ContextReplaced(d)  BY <1>3
  <2>2. RefsBalanced'  BY <1>0, <2>1, Refreshed DEF ContextReplaced
  <2>3. Sys  BY <2>1 DEF ContextReplaced, ComposerTypes
  <2> QED  BY <2>1, <2>2, <2>3, TypesStay DEF ContextReplaced, refVars, flushVars, ComposerTypes
<1>4. CASE AttachBegins \/ AttachFails
  <2>1. RefsBalanced'
    BY <1>0, <1>4 DEF AttachBegins, AttachFails, RefsBalanced, Uses, Cached
  <2> QED  BY <1>1, <1>4, <2>1, TypesStay DEF AttachBegins, AttachFails, ComposerTypes
<1>5. CASE Attach \/ ForegroundChanged \/ CommitAttached \/ textBeforeCaret
  <2>1. RefsBalanced'
    BY <1>0, <1>5, Refreshed, Zenon
       DEF Attach, ForegroundChanged, CommitAttached, textBeforeCaret
  <2>2. /\ UNCHANGED systemVars /\ attached' \in BOOLEAN /\ applied' = applied
        /\ UNCHANGED <<batch, tsfTyped, text, intended>>
    BY <1>5 DEF Attach, ForegroundChanged, CommitAttached, textBeforeCaret, flushVars, ComposerTypes
  <2> QED  BY <1>1, <2>1, <2>2, TypesStay
<1>6. CASE Detach
  <2>1. \A o \in Objects : Released[o] = 0 /\ Uses(o)' = 0
    BY <1>0, <1>6 DEF Detach, RefsBalanced, Released, Uses, Cached
  <2>2. held' = [o \in Objects |-> held'[o]]
    BY <1>6 DEF Detach, Released
  <2>3. RefsBalanced'
    BY <1>6, <2>1, <2>2 DEF Detach, RefsBalanced
  <2> QED  BY <1>1, <1>6, <2>3, TypesStay DEF Detach, flushVars
<1>7. CASE CommitUnattached
  <2>1. RefsBalanced'  BY <1>0, <1>7, Refreshed DEF CommitUnattached
  <2> QED  BY <1>1, <1>7, <2>1, TypesStay DEF CommitUnattached, refVars, ComposerTypes
<1>8. CASE \E back \in 0 .. 1 : Collect(back)
  <2>1. PICK back \in 0 .. 1 : Collect(back)  BY <1>8
  <2>2. RefsBalanced'  BY <1>0, <2>1, Refreshed DEF Collect
  <2>3. Sys  BY <1>1, <2>1 DEF Collect
  <2>4. [back |-> back, letter |-> tsfTyped + 1] \in Edits  BY DEF ComposerTypes, Edits
  <2>5. /\ batch' \in Seq(Edits) /\ Len(batch') = Len(batch) + 1 /\ tsfTyped' \in Nat
        /\ Len(batch) \in Nat
    BY <2>1, <2>4 DEF Collect, ComposerTypes
  <2>6. applied' \in 0 .. Len(batch')  BY <2>1, <2>5 DEF Collect, ComposerTypes
  <2>7. Placed(text)' /\ Placed(intended)' /\ attached' \in BOOLEAN
    BY <2>1 DEF Collect, ComposerTypes, Placed, refVars
  <2> QED  BY <2>2, <2>3, <2>5, <2>6, <2>7, Zenon DEF ComposerTypes, RefsBalanced
<1>9. CASE StartFlush \/ Fallback \/ FlushEnds \/ commitOne \/ commitBatch
  <2>1. RefsBalanced'
    BY <1>0, <1>9, Refreshed, Zenon
       DEF StartFlush, Fallback, FlushEnds, commitOne, commitBatch, DoEditSession
  <2>2. Sys /\ attached' \in BOOLEAN /\ tsfTyped' \in Nat
    <3>1. UNCHANGED systemVars /\ attached' = attached /\ tsfTyped' = tsfTyped
      BY <1>9 DEF StartFlush, Fallback, FlushEnds, commitOne, commitBatch, DoEditSession, refVars
    <3> QED  BY <1>1, <3>1 DEF ComposerTypes
  <2>3. Placed(text) /\ Placed(intended)  BY DEF ComposerTypes
  <2>4. /\ Placed(text') /\ Placed(intended')
        /\ batch' \in Seq(Edits) /\ applied' \in 0 .. Len(batch')
    <3>1. CASE StartFlush
      <4>1. text' = text /\ batch' = batch /\ applied' = 0 /\ batch \in Seq(Edits)
        BY <3>1, Zenon DEF StartFlush, ComposerTypes
      <4>2. intended' = intended
              \/ intended' = [intended EXCEPT ![InFocus] = EditedAll(intended[InFocus], batch)]
        BY <3>1 DEF StartFlush
      <4> DEFINE all == EditedAll(intended[InFocus], batch)
      <4>3. Placed([intended EXCEPT ![InFocus] = all])  BY <2>3, PlacedExcept, Zenon
      <4>4. Placed(intended')  BY <2>3, <4>2, <4>3
      <4> QED  BY <2>3, <4>1, <4>4
    <3>2. CASE Fallback
      <4> DEFINE rest == SubSeq(batch, applied + 1, Len(batch))
      <4>1. intended' = intended /\ batch' = batch /\ applied' = applied
        BY <3>2, Zenon DEF Fallback
      <4>2. text' = text \/ text' = [text EXCEPT ![InFocus] = EditedAll(text[InFocus], rest)]
        BY <3>2 DEF Fallback
      <4>3. Placed([text EXCEPT ![InFocus] = EditedAll(text[InFocus], rest)])
        BY <2>3, PlacedExcept, Zenon
      <4>4. Placed(text')  BY <2>3, <4>2, <4>3
      <4> QED  BY <2>3, <4>1, <4>4 DEF ComposerTypes
    <3>3. CASE FlushEnds
      <4>1. text' = text /\ intended' = intended /\ batch' = <<>> /\ applied' = 0
        BY <3>3, Zenon DEF FlushEnds
      <4> QED  BY <2>3, <4>1
    <3>4. CASE commitOne \/ commitBatch
      <4>1. PICK k : DoEditSession(k)  BY <3>4, Zenon DEF commitOne, commitBatch
      <4>2. /\ intended' = intended /\ batch' = batch /\ applied' = k /\ k \in 0 .. Len(batch)
            /\ text' = [text EXCEPT ![context] = EditedAll(text[context], SubSeq(batch, 1, k))]
        BY <4>1 DEF DoEditSession
      <4>3. Placed(text')  BY <2>3, <4>2, PlacedExcept, Zenon
      <4> QED  BY <2>3, <4>2, <4>3 DEF ComposerTypes
    <3> QED  BY <1>9, <3>1, <3>2, <3>3, <3>4
  <2> QED  BY <2>1, <2>2, <2>4, Zenon DEF ComposerTypes, RefsBalanced
<1> QED
  BY <1>2, <1>3, <1>4, <1>5, <1>6, <1>7, <1>8, <1>9, Zenon DEF ComposerNext

(***************************************************************************)
(* The references.                                                         *)
(***************************************************************************)
LEMMA StepRefs ==
  ASSUME Named, ComposerTypes, RefInv, ComposerNext
  PROVE  RefInv'
<1>1. \A o \in Objects : held'[o] = Uses(o)'  BY StepTypes DEF RefsBalanced
<1>2. held' = [o \in Objects |-> held'[o]]  BY StepTypes DEF RefsBalanced
<1>3. attached \in BOOLEAN  BY DEF ComposerTypes
<1> DEFINE Rest == /\ mgrRefs = (IF threadMgr THEN 1 ELSE 0)
                   /\ com = (IF attached \/ at = "attach" THEN 1 ELSE 0)
                   /\ (ownsComInit <=> attached \/ at = "attach") /\ (threadMgr <=> attached)
                   /\ at = "attach" => ~attached
                   /\ ~attached => docMgr = None /\ context = None /\ inserter = None
<1> SUFFICES Rest'
  BY <1>1, <1>2 DEF RefInv
<1>4. Rest  BY DEF RefInv
<1>5. CASE UNCHANGED <<mgrRefs, com, ownsComInit, threadMgr, attached>>
           /\ at # "attach" /\ at' # "attach"
           /\ (~attached => UNCHANGED <<docMgr, context, inserter>>)
  BY <1>4, <1>5
<1>6. CASE AttachBegins \/ AttachFails \/ Attach \/ Detach
  <2>1. CASE AttachBegins
    <3>1. /\ at = "idle" /\ ~attached /\ com' = com + 1 /\ ownsComInit'
          /\ at' = "attach"
          /\ UNCHANGED <<mgrRefs, threadMgr, attached, docMgr, context, inserter>>
      BY <1>3, <2>1 DEF AttachBegins
    <3>2. com = 0 /\ ~threadMgr /\ mgrRefs = 0
          /\ docMgr = None /\ context = None /\ inserter = None
      BY <1>4, <3>1
    <3> QED  BY <3>1, <3>2
  <2>2. CASE AttachFails
    <3>1. /\ at = "attach" /\ com' = com - (IF ownsComInit THEN 1 ELSE 0) /\ ~ownsComInit'
          /\ at' = "idle"
          /\ UNCHANGED <<mgrRefs, threadMgr, attached, docMgr, context, inserter>>
      BY <2>2 DEF AttachFails
    <3>2. ~attached /\ com = 1 /\ ownsComInit /\ ~threadMgr /\ mgrRefs = 0
          /\ docMgr = None /\ context = None /\ inserter = None
      BY <1>3, <1>4, <3>1
    <3> QED  BY <3>1, <3>2
  <2>3. CASE Attach  BY <1>3, <1>4, <2>3 DEF Attach
  <2>4. CASE Detach
    <3>1. /\ at = "idle" /\ at' = "idle" /\ attached /\ ~attached'
          /\ ~threadMgr' /\ ~ownsComInit'
          /\ com' = com - (IF ownsComInit THEN 1 ELSE 0) /\ mgrRefs' = mgrRefs - 1
          /\ docMgr' = None /\ context' = None /\ inserter' = None
      BY <1>3, <2>4 DEF Detach, flushVars
    <3>2. com = 1 /\ ownsComInit /\ mgrRefs = 1
      BY <1>4, <3>1
    <3> QED  BY <3>1, <3>2
  <2> QED  BY <1>6, <2>1, <2>2, <2>3, <2>4
<1>7. CASE FocusMoves \/ \E d \in Docs : ContextReplaced(d)
  BY <1>5, <1>7 DEF FocusMoves, ContextReplaced, refVars, flushVars
<1>8. CASE ForegroundChanged \/ CommitAttached \/ textBeforeCaret
  BY <1>5, <1>8 DEF ForegroundChanged, CommitAttached, textBeforeCaret, flushVars
<1>9. CASE (\E back \in 0 .. 1 : Collect(back)) \/ CommitUnattached
  BY <1>5, <1>9 DEF Collect, CommitUnattached, refVars
<1>10. CASE StartFlush \/ Fallback \/ FlushEnds \/ commitOne \/ commitBatch
  BY <1>5, <1>10 DEF StartFlush, Fallback, FlushEnds, commitOne, commitBatch, DoEditSession, refVars
<1> QED  BY <1>6, <1>7, <1>8, <1>9, <1>10, Zenon DEF ComposerNext

(***************************************************************************)
(* The flush.                                                              *)
(***************************************************************************)
\* Nothing left to land changes nothing.
LEMMA LandedNone ==
  ASSUME NEW t, Placed(t), NEW es, Len(es) = 0
  PROVE  Landed(t, es) = t
<1>1. \A s : EditedAll(s, es) = s  BY EditedNone, Zenon
<1>2. [t EXCEPT ![InFocus] = EditedAll(t[InFocus], es)] = [t EXCEPT ![InFocus] = t[InFocus]]
  BY <1>1, Zenon
<1>3. [t EXCEPT ![InFocus] = t[InFocus]] = t  BY DEF Placed
<1> QED  BY <1>2, <1>3 DEF Landed

\* What the session applied and what is left behind it are the whole batch.
LEMMA LandedMore ==
  ASSUME NEW t, Placed(t), InFocus \in Contexts, InFocus # None,
         NEW es \in Seq(Edits), NEW k \in 0 .. Len(es)
  PROVE  Landed([t EXCEPT ![InFocus] = EditedAll(t[InFocus], SubSeq(es, 1, k))],
                SubSeq(es, k + 1, Len(es)))
         = Landed(t, es)
<1> DEFINE c == InFocus
           a == SubSeq(es, 1, k)
           b == SubSeq(es, k + 1, Len(es))
           u == [t EXCEPT ![c] = EditedAll(t[c], a)]
<1>1. a \in Seq(Edits) /\ b \in Seq(Edits) /\ es = a \o b  BY Cut
<1>2. c \in Contexts /\ c # None  OBVIOUS
<1>3. \A s : EditedAll(s, es) = EditedAll(EditedAll(s, a), b)
  <2> HIDE DEF a, b
  <2>1. ASSUME NEW s PROVE EditedAll(s, a \o b) = EditedAll(EditedAll(s, a), b)
    BY <1>1, EditedMore
  <2> QED  BY <1>1, <2>1
<1> HIDE DEF a, b, c
<1>4. t = [x \in Contexts |-> t[x]]  BY DEF Placed
<1>5. u[c] = EditedAll(t[c], a)  BY <1>2, <1>4, SMTT(30)
<1>6. [u EXCEPT ![c] = EditedAll(u[c], b)] = [t EXCEPT ![c] = EditedAll(u[c], b)]
  BY <1>2, <1>4
<1>7. [u EXCEPT ![c] = EditedAll(u[c], b)] = [t EXCEPT ![c] = EditedAll(t[c], es)]
  BY <1>3, <1>5, <1>6
<1>8. Landed(u, b) = [u EXCEPT ![c] = EditedAll(u[c], b)]  BY <1>2 DEF Landed, c
<1>9. Landed(t, es) = [t EXCEPT ![c] = EditedAll(t[c], es)]  BY <1>2 DEF Landed, c
<1> QED  BY <1>7, <1>8, <1>9 DEF a, b, c

\* Every action of a flush leaves what is owed to the context in focus, the rest nothing.
LEMMA StepFlush ==
  ASSUME Named, ComposerTypes, RefInv, FlushInv, ComposerNext
  PROVE  FlushInv'
<1>0. /\ Placed(text) /\ Placed(intended) /\ batch \in Seq(Edits) /\ applied \in 0 .. Len(batch)
      /\ InFocus \in Contexts \cup {None} /\ Len(batch) \in Nat
  BY DEF ComposerTypes, InFocus
<1> DEFINE rest == SubSeq(batch, applied + 1, Len(batch))
<1>1. CASE /\ at \in {"idle", "attach", "done"} /\ at' \in {"idle", "attach"}
           /\ UNCHANGED <<text, intended>>
  BY <1>1 DEF FlushInv
<1>2. CASE FocusMoves \/ (\E d \in Docs : ContextReplaced(d)) \/ AttachBegins \/ AttachFails
           \/ Attach \/ Detach
  BY <1>1, <1>2
     DEF FocusMoves, ContextReplaced, AttachBegins, AttachFails, Attach, Detach, flushVars
<1>3. CASE ForegroundChanged \/ textBeforeCaret \/ (\E back \in 0 .. 1 : Collect(back))
           \/ FlushEnds
  BY <1>1, <1>3 DEF ForegroundChanged, textBeforeCaret, Collect, FlushEnds, flushVars
<1>4. ASSUME UNCHANGED systemVars PROVE InFocus' = InFocus
  BY <1>4 DEF systemVars, InFocus
<1>5. CASE StartFlush
  <2>1. /\ text = intended /\ text' = text /\ batch' = batch /\ at' = "commit" /\ applied' = 0
        /\ InFocus' = InFocus /\ intended' = Landed(intended, batch)
    BY <1>4, <1>5 DEF StartFlush, FlushInv, Landed
  <2>2. Landed(text, batch)' = Landed(text, batch)  BY <2>1 DEF Landed
  <2> QED  BY <2>1, <2>2 DEF FlushInv
<1>6. ASSUME at \in {"commit", "session"} PROVE intended = Landed(text, rest)
  <2>1. intended = Landed(text, batch) /\ applied = 0  BY <1>6 DEF FlushInv
  <2>2. SubSeq(batch, applied + 1, Len(batch)) = batch  BY <1>0, <2>1
  <2> QED  BY <2>1, <2>2, Zenon
<1>7. ASSUME UNCHANGED <<systemVars, text, intended, batch, applied>>
      PROVE  Landed(text, batch)' = Landed(text, batch) /\ Landed(text, rest)' = Landed(text, rest)
  BY <1>4, <1>7 DEF Landed
<1>8. CASE CommitUnattached
  <2>1. /\ UNCHANGED <<systemVars, text, intended, batch, applied>>
        /\ at = "commit" /\ at' = "fallback"
    BY <1>8 DEF CommitUnattached
  <2> QED  BY <1>6, <1>7, <2>1 DEF FlushInv
<1>9. CASE CommitAttached
  <2>1. /\ UNCHANGED <<systemVars, text, intended, batch, applied>>
        /\ at = "commit" /\ at' = IF context' # None THEN "session" ELSE "fallback"
    BY <1>9 DEF CommitAttached
  <2>2. context' # None => docMgr' = focus'
    <3>1. RefsBalanced  BY DEF RefsBalanced, ComposerTypes, RefInv
    <3> QED  BY <1>9, <2>1, <3>1, EnsuredContext DEF CommitAttached, systemVars
  <2> QED  BY <1>6, <1>7, <2>1, <2>2 DEF FlushInv
<1>10. CASE commitOne \/ commitBatch
  <2>1. PICK k : DoEditSession(k)  BY <1>10, Zenon DEF commitOne, commitBatch
  <2>2. /\ at = "session" /\ k \in 0 .. Len(batch) /\ (top[Owner[context]] # context => k = 0)
        /\ text' = [text EXCEPT ![context] = EditedAll(text[context], SubSeq(batch, 1, k))]
        /\ applied' = k /\ at' = IF k = Len(batch) THEN "done" ELSE "fallback"
        /\ UNCHANGED <<systemVars, batch, intended>>
    BY <2>1 DEF DoEditSession
  <2>3. context # None /\ focus = docMgr /\ intended = Landed(text, batch)
    BY <2>2 DEF FlushInv
  <2>4. focus = Owner[context] /\ context \in Contexts /\ focus \in Docs
    BY <2>3 DEF ComposerTypes, Named
  <2>5. InFocus = top[Owner[context]]  BY <2>4 DEF InFocus, Named
  <2> DEFINE left == SubSeq(batch, k + 1, Len(batch))
  <2>6. Landed(text', left) = intended
    <3>1. CASE InFocus = context
      <4>1. text' = [text EXCEPT ![InFocus] = EditedAll(text[InFocus], SubSeq(batch, 1, k))]
        BY <2>2, <3>1
      <4>2. Landed([text EXCEPT ![InFocus] = EditedAll(text[InFocus], SubSeq(batch, 1, k))], left)
              = Landed(text, batch)
        BY <1>0, <2>2, <2>3, <2>4, <3>1, LandedMore
      <4> QED  BY <2>3, <4>1, <4>2
    <3>2. CASE InFocus # context
      <4>1. k = 0  BY <2>2, <2>5, <3>2
      <4>2. left = batch /\ Len(SubSeq(batch, 1, k)) = 0  BY <1>0, <4>1
      <4>3. EditedAll(text[context], SubSeq(batch, 1, k)) = text[context]
        BY <4>2, EditedNone
      <4>4. text' = [text EXCEPT ![context] = text[context]]  BY <2>2, <4>3
      <4>5. text' = text  BY <1>0, <4>4 DEF Placed
      <4> QED  BY <2>3, <4>2, <4>5
    <3> QED  BY <3>1, <3>2
  <2>7. CASE k = Len(batch)
    <3>1. Len(left) = 0  BY <1>0, <2>7
    <3>2. Placed(text')  BY StepTypes DEF ComposerTypes
    <3>3. Landed(text', left) = text'  BY <3>1, <3>2, LandedNone
    <3> QED  BY <2>2, <2>6, <2>7, <3>3 DEF FlushInv
  <2>8. CASE k # Len(batch)
    <3>1. Landed(text, rest)' = Landed(text', left)
      BY <1>4, <2>2 DEF Landed
    <3> QED  BY <2>2, <2>6, <2>8, <3>1 DEF FlushInv
  <2> QED  BY <2>7, <2>8
<1>11. CASE Fallback
  <2>1. at = "fallback" /\ at' = "done" /\ intended' = intended /\ text' = Landed(text, rest)
    BY <1>11 DEF Fallback, Landed
  <2> QED  BY <2>1 DEF FlushInv
<1> QED
  BY <1>2, <1>3, <1>5, <1>8, <1>9, <1>10, <1>11, Zenon DEF ComposerNext

(***************************************************************************)
(* The theorems.                                                           *)
(***************************************************************************)
ComposerInv == ComposerTypes /\ FlushInv /\ RefInv

\* A step of the composer keeps its invariant.
LEMMA ComposerStep ==
  ASSUME Named, ComposerInv, ComposerNext \/ UNCHANGED tsfVars
  PROVE  ComposerInv'
<1>1. CASE ComposerNext  BY <1>1, StepTypes, StepFlush, StepRefs, Zenon DEF ComposerInv
<1>2. CASE UNCHANGED tsfVars
  <2>1. /\ UNCHANGED systemVars /\ UNCHANGED refVars /\ UNCHANGED flushVars
        /\ UNCHANGED <<tsfTyped, text, intended>>
    BY <1>2 DEF tsfVars
  <2> QED
    BY <2>1 DEF ComposerInv, ComposerTypes, FlushInv, RefInv, Placed, Landed, InFocus, Uses,
                Cached, systemVars, refVars, flushVars
<1> QED  BY <1>1, <1>2

\* The types, the flush and the references, for all documents, contexts and batches.
THEOREM ComposerInvariant ==
  ASSUME Named
  PROVE  ComposerSpec => []ComposerInv
<1>1. ComposerInit => ComposerInv  BY InitComposer DEF ComposerInv
<1>2. ComposerInv /\ [ComposerNext]_tsfVars => ComposerInv'  BY ComposerStep
<1> QED  BY <1>1, <1>2, PTL DEF ComposerSpec

\* The invariant holds both statements.
LEMMA ComposerInvIsSound == ComposerInv => EditsLandOnce /\ ReferencesBalance
<1>1. ComposerInv => EditsLandOnce  BY DEF ComposerInv, FlushInv, EditsLandOnce
<1>2. ComposerInv => ReferencesBalance  BY DEF ComposerInv, RefInv, ReferencesBalance, Cached
<1> QED  BY <1>1, <1>2

\* Between flushes every context holds what the user typed into it: each edit once and in
\* order, wherever the session stopped and however stale the cached context was (commitBatch,
\* flushEditBatch).
THEOREM EachEditLands ==
  ASSUME Named
  PROVE  ComposerSpec => []EditsLandOnce
<1>1. ComposerInv => EditsLandOnce  BY ComposerInvIsSound
<1> QED  BY <1>1, ComposerInvariant, PTL

\* Between calls the composer holds exactly the objects in its fields, one thread manager and
\* one initialisation of COM while it is attached and nothing after detach() (attach, detach,
\* onForegroundChanged).
THEOREM BalanceHolds ==
  ASSUME Named
  PROVE  ComposerSpec => []ReferencesBalance
<1>1. ComposerInv => ReferencesBalance  BY ComposerInvIsSound
<1> QED  BY <1>1, ComposerInvariant, PTL

(***************************************************************************)
(* The emitter.                                                            *)
(***************************************************************************)
\* The slab holds whole keys (kMaxInlineInputs is even); an edit is two counts.
WholeSlab ==
  /\ SlabSize \in Nat \ {0} /\ SlabSize % 2 = 0
  /\ Shapes \subseteq [back : Nat, len : Nat]

\* The emitter on its own: any number of threads that send.
EmitterSpec == EmitterInit /\ [][EmitterNext]_emitterVars

\* What a thread has in hand; what the system took: edit, input and call.
Slots == [edit : Nat, pushed : Nat]
Places == Nat \X Nat \X Nat

EmitterTypes ==
  /\ edits \in Seq(Shapes) /\ holders \subseteq Emitters
  /\ hand \in [Emitters -> Slots] /\ stream \in Seq(Places)
  /\ counters \in [calls : Nat, injected : Nat, failed : Nat]

\* One thread holds the mutex; who does not has pushed nothing; and a call ends
\* where an edit's calls end.
HandInv ==
  /\ \A t \in Emitters :
       hand[t] = Resting
       \/ (hand[t].edit \in 1 .. Len(edits) /\ hand[t].pushed \in {0} \cup CallEnds(hand[t].edit))
  /\ \A t, u \in Emitters : t # u /\ hand[t].edit = hand[u].edit => hand[t].edit = 0
  /\ \A t \in holders : hand[t] # Resting
  /\ \A t, u \in holders : t = u
  /\ \A t \in Emitters \ holders : hand[t].pushed = 0

\* Of an edit in hand the stream has inputs already pushed, and nothing behind them.
OpenInv ==
  \A i \in 1 .. Len(stream) :
    /\ stream[i][1] \in 1 .. Len(edits) /\ stream[i][2] > 0 /\ stream[i][3] <= counters.calls
    /\ \A t \in Emitters : stream[i][1] = hand[t].edit =>
         /\ stream[i][2] <= hand[t].pushed
         /\ \A k \in i .. Len(stream) : stream[k][1] = hand[t].edit

\* The invariant: the parts above, the statements themselves, and the first two counts.
EmitterInv ==
  EmitterTypes /\ HandInv /\ OpenInv /\ EditsStayWhole /\ KeysStayWhole
    /\ counters.injected = Len(stream) /\ stamped = Len(stream)

\* A multiple of an even number is even.
LEMMA EvenLaps ==
  ASSUME NEW C \in Nat \ {0}, C % 2 = 0, NEW n \in Nat, n % C = 0
  PROVE  n % 2 = 0
<1>1. PICK h \in Nat : C = 2 * h
  BY ModQuotient
<1>2. PICK q \in Nat : n = C * q
  <2>1. PICK q \in Nat : n = (C * q) + (n % C)  BY ModQuotient
  <2> QED  BY <2>1
<1>3. n = 2 * (h * q) /\ h * q \in Nat
  BY <1>1, <1>2
<1> QED  BY <1>3

\* A call ends between two keys.
LEMMA EndsAreEven ==
  ASSUME WholeSlab, EmitterTypes, NEW e \in 1 .. Len(edits)
  PROVE  /\ Inputs(e) \in Nat /\ Backs(e) \in Nat /\ Inputs(e) >= Backs(e)
         /\ \A i \in CallEnds(e) : i \in 1 .. Inputs(e) /\ i % 2 = 0
<1>1. edits[e].back \in Nat /\ edits[e].len \in Nat
  BY DEF WholeSlab, EmitterTypes
<1>2. /\ Inputs(e) \in Nat /\ Backs(e) \in Nat /\ Inputs(e) >= Backs(e)
      /\ Inputs(e) % 2 = 0 /\ Backs(e) % 2 = 0
  BY <1>1, SMTT(30) DEF Inputs, Backs
<1>3. SlabSize \in Nat \ {0} /\ SlabSize % 2 = 0  BY DEF WholeSlab
<1>4. ASSUME NEW i \in CallEnds(e) PROVE i \in 1 .. Inputs(e) /\ i % 2 = 0
  <2>1. i \in 1 .. Inputs(e) /\ i \in Nat  BY <1>2 DEF CallEnds
  <2>2. CASE i % SlabSize = 0
    BY <1>3, <2>1, <2>2, EvenLaps, Zenon
  <2>3. CASE i > Backs(e) /\ (i - Backs(e)) % SlabSize = 0
    <3>1. i - Backs(e) \in Nat  BY <1>2, <2>1, <2>3
    <3>2. (i - Backs(e)) % 2 = 0  BY <1>3, <2>3, <3>1, EvenLaps, Zenon
    <3> QED  BY <1>2, <2>1, <3>1, <3>2
  <2>4. CASE i = Inputs(e)  BY <1>2, <2>1, <2>4, Zenon
  <2>5. i % SlabSize = 0 \/ (i > Backs(e) /\ (i - Backs(e)) % SlabSize = 0) \/ i = Inputs(e)
    BY Zenon DEF CallEnds
  <2> QED  BY <2>2, <2>3, <2>4, <2>5, Zenon
<1> QED  BY <1>2, <1>4

\* The next call ends at most a slab later.
LEMMA NextEnd ==
  ASSUME WholeSlab, EmitterTypes, NEW e \in 1 .. Len(edits),
         NEW first \in {0} \cup CallEnds(e), first < Inputs(e)
  PROVE  LET last == Min({i \in CallEnds(e) : i > first})
         IN  last \in CallEnds(e) /\ last > first /\ last <= first + SlabSize
<1> DEFINE E == {i \in CallEnds(e) : i > first}
           S == SlabSize
           B == Backs(e)
           N == Inputs(e)
<1>1. /\ N \in Nat /\ B \in Nat /\ N >= B /\ S \in Nat \ {0} /\ first \in Nat
      /\ first < N /\ \A i \in CallEnds(e) : i \in 1 .. N
  BY EndsAreEven DEF WholeSlab
<1> HIDE DEF S, B, N
<1>2. \E i \in E : i <= first + S
  <2>0. ASSUME NEW i \in 1 .. N,
               (i % S = 0 /\ i <= B + S) \/ (i > B /\ (i - B) % S = 0) \/ i = N
        PROVE  i \in CallEnds(e)
    BY <2>0 DEF CallEnds, S, B, N
  <2>1. CASE first + S >= N
    <3>1. N \in 1 .. N  BY <1>1
    <3>2. N \in CallEnds(e)  BY <2>0, <3>1
    <3> QED  BY <1>1, <2>1, <3>2 DEF N
  <2>2. CASE first + S < N
    <3>1. first + S \in 1 .. N /\ first + S > first /\ first + S <= first + S  BY <1>1, <2>2
    <3>2. CASE first % S = 0 /\ first <= B
      <4>1. first + S <= B + S  BY <1>1, <3>2
      <4>2. (first + S) % S = 0  BY <1>1, <3>2, SameSlotNextLap, Zenon
      <4>3. first + S \in CallEnds(e)  BY <2>0, <3>1, <4>1, <4>2, Zenon
      <4> QED  BY <3>1, <4>3
    <3>3. CASE first > B /\ (first - B) % S = 0
      <4>1. first - B \in Nat /\ (first + S) - B = (first - B) + S /\ first + S > B
        BY <1>1, <3>3
      <4>2. ((first - B) + S) % S = 0  BY <1>1, <3>3, <4>1, SameSlotNextLap, Zenon
      <4>3. ((first + S) - B) % S = 0  BY <4>1, <4>2
      <4>4. first + S \in CallEnds(e)  BY <2>0, <3>1, <4>1, <4>3, Zenon
      <4> QED  BY <3>1, <4>4
    <3>4. CASE first % S = 0 /\ first > B /\ first <= B + S
      <4>1. B + S \in 1 .. N /\ B + S <= first + S /\ B + S > B /\ (B + S) - B = S
        BY <1>1, <2>2, <3>4
      <4>2. S % S = 0
        <5>1. 0 \in Nat /\ 0 \in 0 .. S - 1 /\ 0 + S = S  BY <1>1
        <5>2. (0 + S) % S = 0 % S /\ 0 % S = 0
          BY <1>1, <5>1, SameSlotNextLap, FirstLap, Zenon
        <5> QED  BY <5>1, <5>2
      <4>3. B + S \in CallEnds(e)  BY <2>0, <4>1, <4>2
      <4>4. CASE first < B + S  BY <4>1, <4>3, <4>4
      <4>5. CASE first = B + S
        <5>1. first - B = S /\ first > B  BY <1>1, <4>5
        <5> QED  BY <3>3, <4>2, <5>1
      <4> QED  BY <1>1, <3>4, <4>4, <4>5
    <3>5. 0 % S = 0  BY <1>1, FirstLap
    <3> QED
      BY <1>1, <2>2, <3>2, <3>3, <3>4, <3>5 DEF CallEnds, S, B, N
  <2> QED  BY <1>1, <2>1, <2>2
<1>3. E \subseteq Nat /\ E # {}  BY <1>1, <1>2
<1> HIDE DEF E
<1>4. \E m \in E : \A n \in E : m <= n  BY <1>3, LeastNumber, Zenon
<1>5. Min(E) \in E /\ \A n \in E : Min(E) <= n
  BY <1>4, Zenon DEF Min
<1>6. Min(E) <= first + S
  <2>1. PICK i \in E : i <= first + S  BY <1>2
  <2>2. Min(E) <= i /\ Min(E) \in Nat /\ i \in Nat  BY <1>3, <1>5, <2>1
  <2> QED  BY <1>1, <2>1, <2>2
<1> QED  BY <1>5, <1>6 DEF E, S

\* Nothing has been sent.
LEMMA InitEmitter == EmitterInit => EmitterInv
<1> SUFFICES ASSUME EmitterInit PROVE EmitterInv
  OBVIOUS
<1>1. stream = <<>> /\ edits = <<>> /\ \A t \in Emitters : hand[t] = Resting
  BY DEF EmitterInit
<1>2. Len(stream) = 0 /\ DOMAIN stream = {}  BY <1>1
<1>3. EmitterTypes
  BY DEF EmitterInit, EmitterTypes, Slots, Resting
<1>4. HandInv
  BY <1>1 DEF EmitterInit, HandInv, Resting
<1>5. OpenInv /\ EditsStayWhole /\ KeysStayWhole
  BY <1>2 DEF OpenInv, EditsStayWhole, KeysStayWhole
<1>6. counters.injected = Len(stream) /\ stamped = Len(stream)
  BY <1>2 DEF EmitterInit
<1> QED  BY <1>3, <1>4, <1>5, <1>6 DEF EmitterInv

\* An edit keeps its calls when another begins.
LEMMA SameEnds ==
  ASSUME NEW e, edits'[e] = edits[e]
  PROVE  Inputs(e)' = Inputs(e) /\ CallEnds(e)' = CallEnds(e)
BY DEF Inputs, CallEnds, Backs

\* An edit that begins has nothing in the stream.
LEMMA StepSendEdit ==
  ASSUME WholeSlab, EmitterInv, NEW t \in Emitters, SendEdit(t)
  PROVE  EmitterInv'
<1> DEFINE n == Len(edits)
<1>1. PICK shape \in Shapes : edits' = Append(edits, shape)
  BY DEF SendEdit
<1>2. /\ hand[t] = Resting /\ hand' = [hand EXCEPT ![t].edit = n + 1]
      /\ UNCHANGED <<holders, stream, stamped, counters>>
  BY DEF SendEdit
<1>3. /\ edits \in Seq(Shapes) /\ hand \in [Emitters -> Slots] /\ n \in Nat
  BY DEF EmitterInv, EmitterTypes
<1>4. /\ edits' \in Seq(Shapes) /\ Len(edits') = n + 1
      /\ \A e \in 1 .. n : edits'[e] = edits[e]
  BY <1>1, <1>3
<1>5. /\ hand'[t] = [edit |-> n + 1, pushed |-> 0] /\ hand' \in [Emitters -> Slots]
      /\ \A u \in Emitters \ {t} : hand'[u] = hand[u]
  BY <1>2, <1>3 DEF Slots, Resting
<1>6. EmitterTypes'
  BY <1>2, <1>4, <1>5 DEF EmitterInv, EmitterTypes
<1>7. \A e \in 1 .. n : CallEnds(e)' = CallEnds(e)
  BY <1>4, SameEnds
<1>8. \A u \in Emitters : hand[u] = Resting \/ hand[u].edit \in 1 .. n
  BY DEF EmitterInv, HandInv
<1>9. HandInv'
  <2>1. ASSUME NEW u \in Emitters
        PROVE  (hand[u] = Resting
                \/ (hand[u].edit \in 1 .. Len(edits)
                      /\ hand[u].pushed \in {0} \cup CallEnds(hand[u].edit)))'
    <3>1. CASE u = t  BY <1>3, <1>4, <1>5, <3>1
    <3>2. CASE u # t
      <4>1. hand'[u] = hand[u]  BY <1>5, <3>2
      <4>2. CASE hand[u] = Resting  BY <4>1, <4>2 DEF Resting
      <4>3. CASE hand[u] # Resting
        <5>1. hand[u].edit \in 1 .. n /\ hand[u].pushed \in {0} \cup CallEnds(hand[u].edit)
          BY <4>3 DEF EmitterInv, HandInv
        <5> QED  BY <1>3, <1>4, <1>7, <4>1, <5>1
      <4> QED  BY <4>2, <4>3
    <3> QED  BY <3>1, <3>2
  <2>2. ASSUME NEW u \in Emitters, NEW v \in Emitters, u # v, hand'[u].edit = hand'[v].edit
        PROVE  hand'[u].edit = 0
    <3>1. CASE u # t /\ v # t
      BY <1>5, <2>2, <3>1 DEF EmitterInv, HandInv
    <3>2. CASE u = t \/ v = t
      BY <1>3, <1>5, <1>8, <2>2, <3>2 DEF Resting
    <3> QED  BY <3>1, <3>2
  <2>3. t \notin holders  BY <1>2 DEF EmitterInv, HandInv
  <2>4. holders' = holders /\ holders \subseteq Emitters  BY <1>2 DEF EmitterInv, EmitterTypes
  <2>5. \A u \in holders : hand'[u] # Resting
    BY <1>5, <2>3, <2>4 DEF EmitterInv, HandInv
  <2>6. \A u \in Emitters \ holders : hand'[u].pushed = 0
    BY <1>5 DEF EmitterInv, HandInv
  <2>7. \A u, v \in holders : u = v  BY DEF EmitterInv, HandInv
  <2> QED  BY <2>1, <2>2, <2>4, <2>5, <2>6, <2>7 DEF HandInv, Resting
<1>10. OpenInv'
  <2>1. stream' = stream /\ counters' = counters  BY <1>2
  <2>2. ASSUME NEW i \in 1 .. Len(stream)
        PROVE  /\ stream[i][1] \in 1 .. n + 1 /\ stream[i][2] > 0 /\ stream[i][3] <= counters.calls
               /\ \A u \in Emitters : stream[i][1] = hand'[u].edit =>
                    /\ stream[i][2] <= hand'[u].pushed
                    /\ \A k \in i .. Len(stream) : stream[k][1] = hand'[u].edit
    <3>1. stream[i][1] \in 1 .. n /\ stream[i][2] > 0 /\ stream[i][3] <= counters.calls
      BY DEF EmitterInv, OpenInv
    <3>2. stream[i][1] # hand'[t].edit  BY <1>3, <1>5, <3>1
    <3>3. \A u \in Emitters : stream[i][1] = hand[u].edit =>
            /\ stream[i][2] <= hand[u].pushed
            /\ \A k \in i .. Len(stream) : stream[k][1] = hand[u].edit
      BY DEF EmitterInv, OpenInv
    <3>4. ASSUME NEW u \in Emitters, stream[i][1] = hand'[u].edit
          PROVE  /\ stream[i][2] <= hand'[u].pushed
                 /\ \A k \in i .. Len(stream) : stream[k][1] = hand'[u].edit
      <4>1. hand'[u] = hand[u]  BY <1>5, <3>2, <3>4, Zenon
      <4>2. stream[i][1] = hand[u].edit  BY <3>4, <4>1
      <4> QED  BY <3>3, <4>1, <4>2, Zenon
    <3>5. stream[i][1] \in 1 .. n + 1  BY <1>3, <3>1
    <3> QED  BY <3>1, <3>4, <3>5, Zenon
  <2> QED  BY <1>4, <2>1, <2>2 DEF OpenInv
<1>11. (EditsStayWhole /\ KeysStayWhole
          /\ counters.injected = Len(stream) /\ stamped = Len(stream))'
  BY <1>2 DEF EmitterInv, EditsStayWhole, KeysStayWhole
<1> QED  BY <1>6, <1>9, <1>10, <1>11 DEF EmitterInv

\* What taking and releasing the mutex leaves alone.
LEMMA StreamStays ==
  ASSUME EmitterInv, UNCHANGED <<edits, stream, stamped, counters>>,
         EmitterTypes', HandInv',
         \A u \in Emitters : hand'[u].edit = 0 \/ hand'[u] = hand[u]
  PROVE  EmitterInv'
<1>1. OpenInv'
  <2>1. ASSUME NEW i \in 1 .. Len(stream), NEW u \in Emitters, stream[i][1] = hand'[u].edit
        PROVE  /\ stream[i][2] <= hand'[u].pushed
               /\ \A k \in i .. Len(stream) : stream[k][1] = hand'[u].edit
    <3>1. stream[i][1] \in 1 .. Len(edits)  BY DEF EmitterInv, OpenInv
    <3>2. hand'[u] = hand[u]  BY <2>1, <3>1
    <3> QED  BY <2>1, <3>2 DEF EmitterInv, OpenInv
  <2> QED  BY <2>1 DEF EmitterInv, OpenInv
<1>2. (EditsStayWhole /\ KeysStayWhole /\ counters.injected = Len(stream) /\ stamped = Len(stream))'
  BY DEF EmitterInv, EditsStayWhole, KeysStayWhole
<1> QED  BY <1>1, <1>2 DEF EmitterInv

\* The mutex is taken when nobody holds it.
LEMMA StepLock ==
  ASSUME WholeSlab, EmitterInv, NEW t \in Emitters, Lock(t)
  PROVE  EmitterInv'
<1>1. /\ hand[t] # Resting /\ holders = {} /\ holders' = {t}
      /\ UNCHANGED <<edits, hand, stream, stamped, counters>>
  BY DEF Lock, MutexFree
<1>2. EmitterTypes'  BY <1>1 DEF EmitterInv, EmitterTypes
<1>3. \A e : CallEnds(e)' = CallEnds(e)  BY <1>1, SameEnds
<1>4. HandInv'  BY <1>1, <1>3 DEF EmitterInv, HandInv
<1> QED  BY <1>1, <1>2, <1>4, StreamStays

\* The mutex is given back when all inputs of the edit have been pushed.
LEMMA StepUnlock ==
  ASSUME WholeSlab, EmitterInv, NEW t \in Emitters, Unlock(t)
  PROVE  EmitterInv'
<1>1. /\ t \in holders /\ holders' = holders \ {t} /\ hand' = [hand EXCEPT ![t] = Resting]
      /\ UNCHANGED <<edits, stream, stamped, counters>>
  BY DEF Unlock
<1>2. hand \in [Emitters -> Slots]  BY DEF EmitterInv, EmitterTypes
<1>3. hand'[t] = Resting /\ \A u \in Emitters \ {t} : hand'[u] = hand[u]
  BY <1>1, <1>2
<1>4. EmitterTypes'
  <2>1. hand' \in [Emitters -> Slots]  BY <1>1, <1>2 DEF Slots, Resting
  <2> QED  BY <1>1, <2>1 DEF EmitterInv, EmitterTypes
<1>5. \A e : CallEnds(e)' = CallEnds(e)  BY <1>1, SameEnds
<1>6. HandInv'
  <2>1. Resting.edit = 0 /\ Resting.pushed = 0  BY DEF Resting
  <2> QED  BY <1>1, <1>3, <1>5, <2>1 DEF EmitterInv, HandInv
<1>7. \A u \in Emitters : hand'[u].edit = 0 \/ hand'[u] = hand[u]
  BY <1>3 DEF Resting
<1> QED  BY <1>1, <1>4, <1>6, <1>7, StreamStays

\* A call appends inputs of one edit, behind those of the same edit.
LEMMA StepEmit ==
  ASSUME WholeSlab, EmitterInv, NEW t \in Emitters, Flush(t)
  PROVE  EmitterInv'
<1> DEFINE e == hand[t].edit
           first == hand[t].pushed
           last == Min({i \in CallEnds(e) : i > first})
           call == counters.calls + 1
           n == Len(stream)
<1>1. PICK sent \in 0 .. last - first :
        /\ stream' = stream \o [i \in 1 .. sent |-> <<e, first + i, call>>]
        /\ stamped' = IF sent > 0 THEN Len(stream') ELSE stamped
        /\ counters' = [calls |-> call, injected |-> counters.injected + sent,
                        failed |-> counters.failed + last - first - sent]
  BY DEF Flush
<1>2. /\ t \in holders /\ first < Inputs(e)
      /\ hand' = [hand EXCEPT ![t].pushed = last] /\ UNCHANGED <<edits, holders>>
  BY DEF Flush
<1>3. /\ edits \in Seq(Shapes) /\ hand \in [Emitters -> Slots] /\ stream \in Seq(Places)
      /\ counters \in [calls : Nat, injected : Nat, failed : Nat] /\ holders \subseteq Emitters
  BY DEF EmitterInv, EmitterTypes
<1>4. e \in 1 .. Len(edits) /\ first \in {0} \cup CallEnds(e)
  BY <1>2 DEF EmitterInv, HandInv
<1>5. last \in CallEnds(e) /\ last > first /\ last <= first + SlabSize
  BY <1>2, <1>4, NextEnd DEF EmitterInv
<1>6. /\ first \in Nat /\ last \in Nat /\ first % 2 = 0 /\ e \in Nat
      /\ call \in Nat /\ n \in Nat /\ counters.calls \in Nat /\ sent \in Nat /\ sent <= SlabSize
      /\ sent <= last - first /\ SlabSize \in Nat
  <2>1. \A i \in CallEnds(e) : i \in 1 .. Inputs(e) /\ i % 2 = 0
    BY <1>4, EndsAreEven DEF EmitterInv
  <2>2. Inputs(e) \in Nat  BY <1>4, EndsAreEven DEF EmitterInv
  <2>3. first \in Nat /\ last \in Nat /\ first % 2 = 0
    BY <1>4, <1>5, <2>1, <2>2
  <2>4. e \in Nat /\ counters.calls \in Nat /\ n \in Nat /\ SlabSize \in Nat
    BY <1>3, <1>4 DEF WholeSlab
  <2> HIDE DEF last, first, e, n
  <2> QED  BY <1>1, <1>5, <2>3, <2>4
<1>7. /\ hand'[t] = [edit |-> e, pushed |-> last] /\ hand' \in [Emitters -> Slots]
      /\ \A u \in Emitters \ {t} : hand'[u] = hand[u]
  BY <1>2, <1>3, <1>6 DEF Slots
<1>8. \A u \in Emitters : hand'[u].edit = hand[u].edit
  BY <1>7
<1> HIDE DEF e, first, last, call, n
<1>9. /\ stream' \in Seq(Places) /\ Len(stream') = n + sent
      /\ \A i \in 1 .. n : stream'[i] = stream[i]
      /\ \A i \in n + 1 .. n + sent : stream'[i] = <<e, first + (i - n), call>>
  <2> DEFINE new == [i \in 1 .. sent |-> <<e, first + i, call>>]
  <2>1. new \in Seq(Places) /\ Len(new) = sent
    BY <1>6 DEF Places
  <2>2. \A i \in 1 .. sent : new[i] = <<e, first + i, call>>  OBVIOUS
  <2> HIDE DEF new
  <2>3. stream' = stream \o new  BY <1>1 DEF new
  <2>4. /\ stream' \in Seq(Places) /\ Len(stream') = n + sent
        /\ \A i \in 1 .. n : stream'[i] = stream[i]
    <3>1. stream' \in Seq(Places) /\ Len(stream') = n + sent
      BY <1>3, <2>1, <2>3, ConcatProperties DEF n
    <3>2. \A i \in 1 .. n : stream'[i] = stream[i]
      BY <1>3, <2>1, <2>3, ConcatProperties DEF n
    <3> QED  BY <3>1, <3>2
  <2>5. ASSUME NEW i \in n + 1 .. n + sent PROVE stream'[i] = <<e, first + (i - n), call>>
    <3>1. stream'[i] = new[i - n]  BY <1>3, <1>6, <2>1, <2>3, <2>5 DEF n
    <3>2. i - n \in 1 .. sent  BY <1>6, <2>5
    <3> QED  BY <2>2, <3>1, <3>2
  <2> QED  BY <2>4, <2>5
<1>10. counters' \in [calls : Nat, injected : Nat, failed : Nat]
       /\ counters'.calls = call /\ counters'.injected = Len(stream') /\ stamped' = Len(stream')
  <2>1. counters.injected \in Nat /\ counters.failed \in Nat  BY <1>3
  <2>2. counters.injected = n /\ stamped = n  BY DEF EmitterInv, n
  <2>3. counters.injected + sent \in Nat /\ counters.failed + last - first - sent \in Nat
    BY <1>6, <2>1
  <2> QED  BY <1>1, <1>6, <1>9, <2>2, <2>3
<1>11. EmitterTypes'
  BY <1>2, <1>3, <1>7, <1>9, <1>10 DEF EmitterTypes
<1>12. HandInv'
  <2>1. \A x : CallEnds(x)' = CallEnds(x)  BY <1>2, SameEnds
  <2>2. hand'[t] # Resting  BY <1>4, <1>7 DEF Resting
  <2>3. ASSUME NEW u \in Emitters
        PROVE  (hand[u] = Resting
                \/ (hand[u].edit \in 1 .. Len(edits)
                      /\ hand[u].pushed \in {0} \cup CallEnds(hand[u].edit)))'
    <3>1. CASE u = t  BY <1>2, <1>4, <1>5, <1>7, <2>1, <3>1
    <3>2. CASE u # t
      BY <1>2, <1>7, <2>1, <3>2 DEF EmitterInv, HandInv, Resting
    <3> QED  BY <3>1, <3>2
  <2>4. \A u, v \in Emitters : u # v /\ hand'[u].edit = hand'[v].edit => hand'[u].edit = 0
    BY <1>8 DEF EmitterInv, HandInv
  <2>5. \A u \in holders : hand'[u] # Resting
    BY <1>3, <1>7, <2>2 DEF EmitterInv, HandInv
  <2>6. \A u \in Emitters \ holders : hand'[u].pushed = 0
    BY <1>2, <1>7 DEF EmitterInv, HandInv
  <2>7. \A u, v \in holders : u = v  BY DEF EmitterInv, HandInv
  <2>8. Resting' = Resting /\ holders' = holders  BY <1>2 DEF Resting
  <2> QED  BY <2>3, <2>4, <2>5, <2>6, <2>7, <2>8 DEF HandInv
\* What the stream had, and what it has now.
<1>13. ASSUME NEW i \in 1 .. n
       PROVE  /\ stream[i][1] \in 1 .. Len(edits) /\ stream[i][2] > 0
              /\ stream[i][3] <= counters.calls
              /\ stream[i] \in Places
              /\ stream[i][1] = e =>
                   stream[i][2] <= first /\ \A k \in i .. n : stream[k][1] = e
              /\ \A u \in Emitters \ {t} : stream[i][1] # hand[u].edit
  <2>1. /\ stream[i][1] \in 1 .. Len(edits) /\ stream[i][2] > 0 /\ stream[i][3] <= counters.calls
        /\ \A u \in Emitters : stream[i][1] = hand[u].edit =>
             /\ stream[i][2] <= hand[u].pushed
             /\ \A k \in i .. n : stream[k][1] = hand[u].edit
    BY DEF EmitterInv, OpenInv, n
  <2>2. stream[i] \in Places  BY <1>3 DEF n
  <2>3. stream[i][2] \in Nat  BY <2>2 DEF Places
  <2>4. \A u \in Emitters \ {t} : hand[u].pushed = 0
    BY <1>2 DEF EmitterInv, HandInv
  <2> QED  BY <2>1, <2>2, <2>3, <2>4 DEF e, first
<1>14. ASSUME NEW i \in n + 1 .. n + sent
       PROVE  stream'[i][1] = e /\ stream'[i][2] = first + (i - n) /\ stream'[i][3] = call
  BY <1>9, <1>14
<1>15. ASSUME NEW i \in 1 .. n + sent, i \notin 1 .. n PROVE i \in n + 1 .. n + sent
  BY <1>6, <1>15
<1>16. ASSUME NEW i \in 1 .. n + sent, stream'[i][1] = e, NEW k \in i .. n + sent
       PROVE  stream'[k][1] = e
  <2>1. k \in 1 .. n + sent  BY <1>6, <1>16
  <2>2. CASE k \in 1 .. n
    <3>1. i \in 1 .. n /\ k \in i .. n  BY <1>6, <1>16, <2>2
    <3> QED  BY <1>9, <1>13, <1>16, <2>2, <3>1
  <2>3. CASE k \notin 1 .. n  BY <1>14, <1>15, <2>1, <2>3
  <2> QED  BY <2>2, <2>3
<1>17. OpenInv'
  <2>1. ASSUME NEW i \in 1 .. n + sent
        PROVE  /\ stream'[i][1] \in 1 .. Len(edits) /\ stream'[i][2] > 0 /\ stream'[i][3] <= call
               /\ stream'[i][1] = e => stream'[i][2] <= last
               /\ \A u \in Emitters \ {t} : stream'[i][1] # hand[u].edit
    <3>1. CASE i \in 1 .. n
      <4>1. stream[i][2] \in Nat /\ stream[i][3] \in Nat  BY <1>13, <3>1 DEF Places
      <4>2. stream[i][3] <= call  BY <1>6, <1>13, <3>1, <4>1 DEF call
      <4>3. ASSUME stream[i][1] = e PROVE stream[i][2] <= last
        <5>1. stream[i][2] <= first  BY <1>13, <3>1, <4>3, Zenon
        <5>2. first \in Nat /\ last \in Nat /\ last > first  BY <1>5, <1>6
        <5> QED  BY <4>1, <5>1, <5>2
      <4> QED  BY <1>9, <1>13, <3>1, <4>2, <4>3
    <3>2. CASE i \notin 1 .. n
      <4>1. i \in n + 1 .. n + sent  BY <1>15, <3>2
      <4>2. first + (i - n) > 0 /\ first + (i - n) <= last  BY <1>6, <4>1
      <4>3. \A u \in Emitters \ {t} : e # hand[u].edit
        BY <1>4 DEF EmitterInv, HandInv, e
      <4>4. stream'[i][1] = e /\ stream'[i][2] = first + (i - n) /\ stream'[i][3] = call
        BY <1>14, <4>1, Zenon
      <4>5. call <= call  BY <1>6
      <4> QED  BY <1>4, <4>2, <4>3, <4>4, <4>5, Zenon
    <3> QED  BY <3>1, <3>2
  <2>2. ASSUME NEW i \in 1 .. n + sent, NEW u \in Emitters, stream'[i][1] = hand'[u].edit
        PROVE  /\ stream'[i][2] <= hand'[u].pushed
               /\ \A k \in i .. n + sent : stream'[k][1] = hand'[u].edit
    <3>1. u = t  BY <1>7, <2>1, <2>2
    <3>2. hand'[u].edit = e /\ hand'[u].pushed = last  BY <1>7, <3>1
    <3> QED  BY <1>16, <2>1, <2>2, <3>2
  <2> QED  BY <1>2, <1>9, <1>10, <2>1, <2>2 DEF OpenInv
<1>18. DOMAIN stream = 1 .. n /\ DOMAIN stream' = 1 .. n + sent
  BY <1>3, <1>9 DEF n
<1>19. EditsStayWhole'
  <2>1. ASSUME NEW i \in 1 .. n + sent, NEW j \in 1 .. n + sent,
               i < j, stream'[i][1] = stream'[j][1]
        PROVE  stream'[i][2] < stream'[j][2] /\ \A k \in i .. j : stream'[k][1] = stream'[i][1]
    <3>1. CASE j \in 1 .. n
      <4>1. i \in 1 .. n /\ \A k \in i .. j : k \in 1 .. n  BY <1>6, <2>1, <3>1
      <4>2. stream[i][2] < stream[j][2] /\ \A k \in i .. j : stream[k][1] = stream[i][1]
        BY <1>9, <1>18, <2>1, <3>1, <4>1, SMTT(30) DEF EmitterInv, EditsStayWhole
      <4> QED  BY <1>9, <3>1, <4>1, <4>2
    <3>2. CASE j \notin 1 .. n
      <4>1. j \in n + 1 .. n + sent /\ stream'[j][1] = e /\ stream'[j][2] = first + (j - n)
        BY <1>14, <1>15, <3>2
      <4>2. \A k \in i .. j : k \in i .. n + sent  BY <1>6, <2>1
      <4>3. \A k \in i .. j : stream'[k][1] = stream'[i][1]
        BY <1>16, <2>1, <4>1, <4>2
      <4>4. CASE i \in 1 .. n
        <5>1. stream[i][2] <= first /\ stream[i][2] \in Nat
          BY <1>9, <1>13, <2>1, <4>1, <4>4 DEF Places
        <5>2. stream[i][2] < first + (j - n)  BY <1>6, <4>1, <5>1
        <5> QED  BY <1>9, <4>1, <4>3, <4>4, <5>2
      <4>5. CASE i \notin 1 .. n
        <5>1. i \in n + 1 .. n + sent /\ stream'[i][2] = first + (i - n)
          BY <1>14, <1>15, <4>5
        <5>2. first + (i - n) < first + (j - n)  BY <1>6, <2>1
        <5> QED  BY <4>1, <4>3, <5>1, <5>2
      <4> QED  BY <4>4, <4>5
    <3> QED  BY <3>1, <3>2
  <2>2. ASSUME NEW i \in 1 .. n + sent, NEW j \in 1 .. n + sent, stream'[i][3] = stream'[j][3]
        PROVE  j - i < SlabSize
    <3>1. CASE i \in 1 .. n /\ j \in 1 .. n
      BY <1>9, <1>18, <2>2, <3>1 DEF EmitterInv, EditsStayWhole
    <3>2. CASE i \notin 1 .. n /\ j \notin 1 .. n
      <4>1. i \in n + 1 .. n + sent /\ j \in n + 1 .. n + sent  BY <1>15, <3>2
      <4> QED  BY <1>6, <4>1
    <3>3. ASSUME NEW x \in 1 .. n, NEW y \in 1 .. n + sent, y \notin 1 .. n
          PROVE  stream'[x][3] # stream'[y][3]
      <4>1. stream'[y][3] = call  BY <1>14, <1>15, <3>3
      <4>2. stream[x][3] \in Nat /\ stream[x][3] <= counters.calls  BY <1>13, <3>3 DEF Places
      <4>3. stream[x][3] # call  BY <1>6, <4>2 DEF call
      <4> QED  BY <1>9, <3>3, <4>1, <4>3
    <3> QED  BY <2>2, <3>1, <3>2, <3>3
  <2> QED  BY <1>18, <2>1, <2>2 DEF EditsStayWhole
<1>20. KeysStayWhole'
  <2>1. ASSUME NEW i \in 1 .. n + sent, NEW j \in 1 .. n + sent, stream'[i][1] = stream'[j][1],
               stream'[j][2] = stream'[i][2] + 1, stream'[j][2] % 2 = 0
        PROVE  stream'[i][3] = stream'[j][3]
    <3>1. CASE i \in 1 .. n /\ j \in 1 .. n
      BY <1>9, <1>18, <2>1, <3>1 DEF EmitterInv, KeysStayWhole
    <3>2. CASE i \notin 1 .. n /\ j \notin 1 .. n
      BY <1>14, <1>15, <3>2
    <3>3. CASE i \in 1 .. n /\ j \notin 1 .. n
      <4>1. j \in n + 1 .. n + sent /\ stream'[j][1] = e /\ stream'[j][2] = first + (j - n)
        BY <1>14, <1>15, <3>3
      <4>2. stream[i][2] <= first /\ stream[i][2] \in Nat
        BY <1>9, <1>13, <2>1, <3>3, <4>1 DEF Places
      <4>3. first + (j - n) = first + 1
        <5>1. first + (j - n) = stream[i][2] + 1  BY <1>9, <2>1, <3>3, <4>1
        <5> QED  BY <1>6, <4>1, <4>2, <5>1
      <4>4. (first + 1) % 2 = 0  BY <2>1, <4>1, <4>3
      <4> QED  BY <1>6, <4>4
    <3>4. CASE i \notin 1 .. n /\ j \in 1 .. n
      <4>1. i \in n + 1 .. n + sent /\ stream'[i][1] = e /\ stream'[i][2] = first + (i - n)
        BY <1>14, <1>15, <3>4
      <4>2. stream[j][2] <= first /\ stream[j][2] \in Nat
        BY <1>9, <1>13, <2>1, <3>4, <4>1 DEF Places
      <4>3. stream[j][2] = first + (i - n) + 1  BY <1>9, <2>1, <3>4, <4>1
      <4> QED  BY <1>6, <4>1, <4>2, <4>3
    <3> QED  BY <3>1, <3>2, <3>3, <3>4
  <2> QED  BY <1>18, <2>1 DEF KeysStayWhole
<1> QED  BY <1>10, <1>11, <1>12, <1>17, <1>19, <1>20 DEF EmitterInv

\* A step that changes nothing.
LEMMA EmitterStays ==
  ASSUME EmitterInv, UNCHANGED emitterVars
  PROVE  EmitterInv'
<1>1. /\ UNCHANGED <<edits, stream, stamped, counters>> /\ holders' = holders /\ hand' = hand
  BY DEF emitterVars
<1>2. EmitterTypes'  BY <1>1 DEF EmitterInv, EmitterTypes
<1>3. \A e : CallEnds(e)' = CallEnds(e)  BY <1>1, SameEnds
<1>4. HandInv'  BY <1>1, <1>3 DEF EmitterInv, HandInv
<1> QED  BY <1>1, <1>2, <1>4, StreamStays

\* The invariant is kept by every step.
LEMMA EmitterStep ==
  ASSUME WholeSlab, EmitterInv, [EmitterNext]_emitterVars
  PROVE  EmitterInv'
<1>1. ASSUME NEW t \in Emitters, SendEdit(t) \/ Lock(t) \/ Flush(t) \/ Unlock(t)
      PROVE  EmitterInv'
  BY <1>1, StepSendEdit, StepLock, StepEmit, StepUnlock
<1>2. CASE UNCHANGED emitterVars  BY <1>2, EmitterStays
<1> QED  BY <1>1, <1>2 DEF EmitterNext

\* The emitter's invariant, for any threads, edits and slab of whole keys.
THEOREM EmitterInvariant ==
  ASSUME WholeSlab
  PROVE  EmitterSpec => []EmitterInv
<1>1. EmitterInv /\ [EmitterNext]_emitterVars => EmitterInv'  BY EmitterStep
<1> QED  BY <1>1, InitEmitter, PTL DEF EmitterSpec

\* The inputs of two edits never mix, those of one keep their order, and a call takes no more
\* than the slab holds, however many inputs the system refuses (sendEdit under emitMtx).
THEOREM EditsNeverMix ==
  ASSUME WholeSlab
  PROVE  EmitterSpec => []EditsStayWhole
<1>1. EmitterInv => EditsStayWhole  BY DEF EmitterInv
<1> QED  BY <1>1, EmitterInvariant, PTL

\* The two inputs of a key travel in one call: no boundary between calls falls inside a key
\* (the two flushes of sendEdit's loops).
THEOREM KeysTravelWhole ==
  ASSUME WholeSlab
  PROVE  EmitterSpec => []KeysStayWhole
<1>1. EmitterInv => KeysStayWhole  BY DEF EmitterInv
<1> QED  BY <1>1, EmitterInvariant, PTL

(***************************************************************************)
(* What is pushed is counted.                                              *)
(***************************************************************************)
\* The two counts add up to the inputs pushed.
CountInv ==
  /\ IsFiniteSet(PushedInputs)
  /\ counters.injected + counters.failed = Cardinality(PushedInputs)

\* An input is pushed when its edit has begun and no thread that holds the edit is before it.
LEMMA PushedIs ==
  ASSUME NEW e, NEW i
  PROVE  <<e, i>> \in PushedInputs <=>
           /\ e \in DOMAIN edits /\ i \in 1 .. Inputs(e)
           /\ \A t \in Emitters : hand[t].edit = e => i <= hand[t].pushed
BY DEF PushedInputs

\* Pushed inputs are pairs.
LEMMA PushedPairs == \A p \in PushedInputs : p = <<p[1], p[2]>>
BY DEF PushedInputs

\* At the start nothing is pushed and nothing counted.
LEMMA InitCount == EmitterInit => CountInv
<1> SUFFICES ASSUME EmitterInit PROVE CountInv
  OBVIOUS
<1>1. PushedInputs = {}  BY DEF PushedInputs, EmitterInit
<1>2. counters.injected = 0 /\ counters.failed = 0  BY DEF EmitterInit
<1> QED  BY <1>1, <1>2, FS_EmptySet DEF CountInv

\* While the same inputs are pushed the counts stay right.
LEMMA SameCount ==
  ASSUME CountInv, PushedInputs' = PushedInputs, counters' = counters
  PROVE  CountInv'
BY DEF CountInv

\* An edit that begins has nothing pushed.
LEMMA SendCount ==
  ASSUME EmitterInv, CountInv, NEW t \in Emitters, SendEdit(t)
  PROVE  CountInv'
<1> DEFINE n == Len(edits)
<1>1. PICK shape \in Shapes : edits' = Append(edits, shape)
  BY DEF SendEdit
<1>2. /\ hand[t] = Resting /\ hand' = [hand EXCEPT ![t].edit = n + 1]
      /\ UNCHANGED <<holders, stream, stamped, counters>>
  BY DEF SendEdit
<1>3. /\ edits \in Seq(Shapes) /\ hand \in [Emitters -> Slots] /\ n \in Nat
  BY DEF EmitterInv, EmitterTypes
<1>4. /\ DOMAIN edits = 1 .. n /\ DOMAIN edits' = 1 .. n + 1
      /\ \A e \in 1 .. n : edits'[e] = edits[e]
  BY <1>1, <1>3
<1>5. /\ hand'[t].edit = n + 1 /\ hand'[t].pushed = 0 /\ hand[t].edit = 0
      /\ \A u \in Emitters \ {t} : hand'[u] = hand[u]
  BY <1>2, <1>3 DEF Slots, Resting
<1>6. \A e \in 1 .. n : Inputs(e)' = Inputs(e)  BY <1>4, SameEnds
<1> HIDE DEF n
<1>7. ASSUME NEW e, NEW i PROVE <<e, i>> \in PushedInputs' <=> <<e, i>> \in PushedInputs
  <2> DEFINE Free == \A u \in Emitters : hand[u].edit = e => i <= hand[u].pushed
             FreeNow == \A u \in Emitters : hand'[u].edit = e => i <= hand'[u].pushed
  <2>1. <<e, i>> \in PushedInputs <=> e \in 1 .. n /\ i \in 1 .. Inputs(e) /\ Free
    BY <1>4, PushedIs
  <2>2. <<e, i>> \in PushedInputs' <=> e \in 1 .. n + 1 /\ i \in 1 .. Inputs(e)' /\ FreeNow
    BY <1>4 DEF PushedInputs
  <2>3. CASE e \in 1 .. n
    <3>1. e # n + 1 /\ e # 0  BY <1>3, <2>3 DEF n
    <3>2. FreeNow <=> Free  BY <1>5, <3>1
    <3>3. e \in 1 .. n + 1  BY <1>3, <2>3 DEF n
    <3> HIDE DEF Free, FreeNow
    <3> QED  BY <1>6, <2>1, <2>2, <2>3, <3>2, <3>3
  <2>4. CASE e = n + 1
    <3>1. e \notin 1 .. n  BY <1>3, <2>4 DEF n
    <3>2. FreeNow => i <= 0  BY <1>5, <2>4
    <3>3. i \in 1 .. Inputs(e)' => ~(i <= 0)  OBVIOUS
    <3> HIDE DEF Free, FreeNow
    <3> QED  BY <2>1, <2>2, <3>1, <3>2, <3>3
  <2>5. CASE e \notin 1 .. n /\ e # n + 1
    <3>1. e \notin 1 .. n + 1  BY <1>3, <2>5 DEF n
    <3> QED  BY <2>1, <2>2, <2>5, <3>1
  <2> QED  BY <2>3, <2>4, <2>5
<1>8. \A p \in PushedInputs' : p = <<p[1], p[2]>>  BY DEF PushedInputs
<1>9. PushedInputs' = PushedInputs
  <2>1. ASSUME NEW p \in PushedInputs PROVE p \in PushedInputs'
    BY <1>7, <2>1, PushedPairs, Zenon
  <2>2. ASSUME NEW p \in PushedInputs' PROVE p \in PushedInputs
    BY <1>7, <1>8, <2>2, Zenon
  <2> QED  BY <2>1, <2>2
<1> QED  BY <1>2, <1>9, SameCount

\* The mutex changes no count.
LEMMA LockCount ==
  ASSUME CountInv, NEW t \in Emitters, Lock(t)
  PROVE  CountInv'
<1>1. edits' = edits /\ hand' = hand /\ counters' = counters  BY DEF Lock
<1>2. PushedInputs' = PushedInputs  BY <1>1 DEF PushedInputs, Inputs
<1> QED  BY <1>1, <1>2, SameCount

\* Of an edit that is over every input is pushed.
LEMMA UnlockCount ==
  ASSUME EmitterInv, CountInv, NEW t \in Emitters, Unlock(t)
  PROVE  CountInv'
<1>1. /\ hand' = [hand EXCEPT ![t] = Resting] /\ edits' = edits /\ counters' = counters
      /\ hand[t].pushed = Inputs(hand[t].edit)
  BY DEF Unlock
<1>2. hand \in [Emitters -> Slots]  BY DEF EmitterInv, EmitterTypes
<1>3. hand'[t] = Resting /\ \A u \in Emitters \ {t} : hand'[u] = hand[u]
  BY <1>1, <1>2
<1>4. \A e : Inputs(e)' = Inputs(e)  BY <1>1 DEF Inputs
<1>5. Resting.edit = 0 /\ 0 \notin DOMAIN edits
  BY DEF Resting, EmitterInv, EmitterTypes
<1>6. PushedInputs' = PushedInputs
  <2>1. ASSUME NEW e \in DOMAIN edits, NEW i \in 1 .. Inputs(e)
        PROVE  (\A u \in Emitters : hand'[u].edit = e => i <= hand'[u].pushed)
                 <=> (\A u \in Emitters : hand[u].edit = e => i <= hand[u].pushed)
    <3>1. hand'[t].edit # e  BY <1>3, <1>5
    <3>2. hand[t].edit = e => i <= hand[t].pushed  BY <1>1, <2>1
    <3> QED  BY <1>3, <3>1, <3>2
  <2> QED  BY <1>1, <1>4, <2>1 DEF PushedInputs
<1> QED  BY <1>1, <1>6, SameCount

\* A call counts the inputs it pushes, those that are taken and those that are not.
LEMMA FlushCount ==
  ASSUME WholeSlab, EmitterInv, CountInv, NEW t \in Emitters, Flush(t)
  PROVE  CountInv'
<1> DEFINE e == hand[t].edit
           first == hand[t].pushed
           last == Min({i \in CallEnds(e) : i > first})
           new == {e} \X (first + 1 .. last)
<1>1. PICK sent \in 0 .. last - first :
        /\ counters' = [calls |-> counters.calls + 1, injected |-> counters.injected + sent,
                        failed |-> counters.failed + last - first - sent]
  BY DEF Flush
<1>2. /\ t \in holders /\ first < Inputs(e)
      /\ hand' = [hand EXCEPT ![t].pushed = last] /\ edits' = edits
  BY DEF Flush
<1>3. /\ hand \in [Emitters -> Slots]
      /\ counters \in [calls : Nat, injected : Nat, failed : Nat]
  BY DEF EmitterInv, EmitterTypes
<1>4. e \in 1 .. Len(edits) /\ first \in {0} \cup CallEnds(e)
  BY <1>2 DEF EmitterInv, HandInv
<1>5. last \in CallEnds(e) /\ last > first
  BY <1>2, <1>4, NextEnd DEF EmitterInv
<1>6. /\ last \in 1 .. Inputs(e) /\ last \in Nat /\ first \in Nat /\ Inputs(e) \in Nat
  <2>1. \A i \in CallEnds(e) : i \in 1 .. Inputs(e)
    BY <1>4, EndsAreEven DEF EmitterInv
  <2>2. Inputs(e) \in Nat  BY <1>4, EndsAreEven DEF EmitterInv
  <2> QED  BY <1>4, <1>5, <2>1, <2>2
<1>7. /\ hand'[t].edit = e /\ hand'[t].pushed = last
      /\ \A u \in Emitters \ {t} : hand'[u] = hand[u]
  BY <1>2, <1>3, <1>6 DEF Slots
<1>8. \A u \in Emitters \ {t} : hand[u].edit # e
  <2>1. e # 0  BY <1>4 DEF EmitterInv, EmitterTypes
  <2> QED  BY <2>1 DEF EmitterInv, HandInv
<1>9. \A x : Inputs(x)' = Inputs(x)  BY <1>2 DEF Inputs
<1>10. e \in DOMAIN edits  BY <1>4 DEF EmitterInv, EmitterTypes
<1> HIDE DEF e, first, last
<1>11. ASSUME NEW x, NEW i
       PROVE  <<x, i>> \in PushedInputs' <=> <<x, i>> \in PushedInputs \/ <<x, i>> \in new
  <2> DEFINE Free == \A u \in Emitters : hand[u].edit = x => i <= hand[u].pushed
             FreeNow == \A u \in Emitters : hand'[u].edit = x => i <= hand'[u].pushed
  <2>1. <<x, i>> \in PushedInputs <=> x \in DOMAIN edits /\ i \in 1 .. Inputs(x) /\ Free
    BY PushedIs
  <2>2. <<x, i>> \in PushedInputs' <=> x \in DOMAIN edits /\ i \in 1 .. Inputs(x) /\ FreeNow
    BY <1>2, <1>9 DEF PushedInputs
  <2>3. <<x, i>> \in new <=> x = e /\ i \in first + 1 .. last  OBVIOUS
  <2>4. hand[t].edit = e /\ hand[t].pushed = first  BY DEF e, first
  <2>5. CASE x = e
    <3>1. Free <=> i <= first  BY <1>8, <2>4, <2>5
    <3>2. FreeNow <=> i <= last  BY <1>7, <1>8, <2>5
    <3>3. i \in first + 1 .. last <=> i \in 1 .. Inputs(e) /\ i <= last /\ ~(i <= first)
      BY <1>6
    <3>4. i \in 1 .. Inputs(e) /\ i <= first => i <= last  BY <1>5, <1>6
    <3> HIDE DEF Free, FreeNow
    <3> QED  BY <1>10, <2>1, <2>2, <2>3, <2>5, <3>1, <3>2, <3>3, <3>4
  <2>6. CASE x # e
    <3>1. FreeNow <=> Free  BY <1>7, <2>4, <2>6
    <3> HIDE DEF Free, FreeNow
    <3> QED  BY <2>1, <2>2, <2>3, <2>6, <3>1
  <2> QED  BY <2>5, <2>6
<1>12. PushedInputs' = PushedInputs \cup new
  <2>1. \A p \in PushedInputs' : p = <<p[1], p[2]>>  BY DEF PushedInputs
  <2>2. \A p \in new : p = <<p[1], p[2]>>  OBVIOUS
  <2> HIDE DEF new
  <2>3. ASSUME NEW p PROVE p = <<p[1], p[2]>> =>
                             (p \in PushedInputs' <=> p \in PushedInputs \/ p \in new)
    <3>1. <<p[1], p[2]>> \in PushedInputs'
            <=> <<p[1], p[2]>> \in PushedInputs \/ <<p[1], p[2]>> \in new
      BY <1>11
    <3> QED  BY <3>1, Zenon
  <2> QED  BY <2>1, <2>2, <2>3, PushedPairs
<1>13. PushedInputs \cap new = {}
  <2>1. ASSUME NEW i, <<e, i>> \in PushedInputs, i \in first + 1 .. last PROVE FALSE
    <3>1. hand[t].edit = e /\ hand[t].pushed = first  BY DEF e, first
    <3>2. i <= first  BY <2>1, <3>1, PushedIs
    <3> QED  BY <1>6, <2>1, <3>2
  <2> QED  BY <2>1
<1>14. IsFiniteSet(new) /\ Cardinality(new) = last - first
  <2>1. IsFiniteSet({e}) /\ Cardinality({e}) = 1  BY FS_Singleton
  <2>2. IsFiniteSet(first + 1 .. last) /\ Cardinality(first + 1 .. last) = last - first
    <3>1. first + 1 \in Int /\ last \in Int  BY <1>6
    <3>2. ~(first + 1 > last) /\ last - (first + 1) + 1 = last - first  BY <1>5, <1>6
    <3> QED  BY <3>1, <3>2, FS_Interval
  <2>3. IsFiniteSet(new) /\ Cardinality(new) = 1 * (last - first)
    BY <2>1, <2>2, FS_Product
  <2> QED  BY <1>6, <2>3
<1> HIDE DEF new
<1>15. /\ IsFiniteSet(PushedInputs')
       /\ Cardinality(PushedInputs') = Cardinality(PushedInputs) + (last - first)
  <2>1. IsFiniteSet(PushedInputs) /\ Cardinality(PushedInputs) \in Nat
    BY FS_CardinalityType DEF CountInv
  <2>2. /\ IsFiniteSet(PushedInputs \cup new)
        /\ Cardinality(PushedInputs \cup new)
             = Cardinality(PushedInputs) + Cardinality(new) - Cardinality(PushedInputs \cap new)
    BY <1>14, <2>1, FS_Union
  <2>3. Cardinality(PushedInputs \cap new) = 0  BY <1>13, FS_EmptySet
  <2> QED  BY <1>6, <1>12, <1>14, <2>1, <2>2, <2>3
<1>16. counters'.injected + counters'.failed
         = (counters.injected + counters.failed) + (last - first)
  <2>1. sent \in Int /\ counters.injected \in Int /\ counters.failed \in Int
        /\ last \in Int /\ first \in Int
    BY <1>1, <1>3, <1>6
  <2>2. /\ counters'.injected = counters.injected + sent
        /\ counters'.failed = counters.failed + last - first - sent
    BY <1>1
  <2> QED  BY <2>1, <2>2
<1> QED  BY <1>15, <1>16 DEF CountInv

\* The counts are right after every step.
LEMMA CountStep ==
  ASSUME WholeSlab, EmitterInv, CountInv, [EmitterNext]_emitterVars
  PROVE  CountInv'
<1>1. ASSUME NEW t \in Emitters, SendEdit(t) \/ Lock(t) \/ Flush(t) \/ Unlock(t)
      PROVE  CountInv'
  BY <1>1, SendCount, LockCount, FlushCount, UnlockCount
<1>2. CASE UNCHANGED emitterVars
  <2>1. edits' = edits /\ hand' = hand /\ counters' = counters  BY <1>2 DEF emitterVars
  <2>2. PushedInputs' = PushedInputs  BY <2>1 DEF PushedInputs, Inputs
  <2> QED  BY <2>1, <2>2, SameCount
<1> QED  BY <1>1, <1>2 DEF EmitterNext

\* Invariant and counts hold the whole statement.
LEMMA EmitterInvIsSound == EmitterInv /\ CountInv => EmitterIsSound
BY DEF EmitterInv, CountInv, EmitterIsSound, InputsAccounted

\* Every input that was pushed is counted once, as taken or as failed; the stamp is of the last
\* input taken; and with it the whole statement of the emitter, for any threads, edits and slab
\* of whole keys (sendEdit's flush, InlineEmitter's counters).
THEOREM EmitterSafe ==
  ASSUME WholeSlab
  PROVE  EmitterSpec => []EmitterIsSound
<1>1. EmitterInv /\ CountInv /\ [EmitterNext]_emitterVars => (EmitterInv /\ CountInv)'
  BY CountStep, EmitterStep
<1>2. EmitterInv /\ CountInv => EmitterIsSound  BY EmitterInvIsSound
<1> QED  BY <1>1, <1>2, InitEmitter, InitCount, PTL DEF EmitterSpec

(***************************************************************************)
(* Sums over finite sets: the function that adds an element at a time.     *)
(***************************************************************************)
\* A property of finite sets holds of S when it holds of each subset of which it holds of all
\* the proper subsets.
LEMMA FiniteInduction ==
  ASSUME NEW S, IsFiniteSet(S), NEW P, P \subseteq SUBSET S,
         \A T \in SUBSET S : (\A U \in SUBSET T : U # T => U \in P) => T \in P
  PROVE  \A T \in SUBSET S : T \in P
<1> DEFINE R == StrictSubsetOrdering(S)
           D == {T \in SUBSET S : T \notin P}
<1> SUFFICES ASSUME D # {} PROVE FALSE
  OBVIOUS
<1>1. IsWellFoundedOn(R, SUBSET S)
  <2>1. IsWellFoundedOn(R, FiniteSubsetsOf(S))  BY FS_StrictSubsetOrderingWellFounded
  <2>2. FiniteSubsetsOf(S) = SUBSET S  BY FS_FiniteSubsetsOfFinite
  <2> QED  BY <2>1, <2>2
<1>2. D \subseteq SUBSET S /\ D # {}  OBVIOUS
<1> HIDE DEF R, D
<1>3. PICK T \in D : \A U \in D : ~(<<U, T>> \in R)  BY <1>1, <1>2, WFMin
<1> USE DEF D
<1>4. ASSUME NEW U \in SUBSET T, U # T PROVE U \in P
  <2>1. U \in SUBSET S /\ <<U, T>> \in (SUBSET S) \X (SUBSET S)  OBVIOUS
  <2>2. <<U, T>>[1] = U /\ <<U, T>>[2] = T  OBVIOUS
  <2>3. <<U, T>> \in R  BY <1>4, <2>1, <2>2, Zenon DEF R, StrictSubsetOrdering
  <2> QED  BY <1>3, <2>1, <2>3
<1> QED  BY <1>3, <1>4

\* f adds what w gives over the subsets of S, an element at a time.
Adds(f, w, S) ==
  f = [s \in SUBSET S |->
         IF s = {} THEN 0 ELSE LET e == CHOOSE e \in s : TRUE IN w[e] + f[s \ {e}]]

First(s) == CHOOSE e \in s : TRUE

LEMMA FirstIn == \A s : s # {} => First(s) \in s
BY DEF First

\* The same, step by step.
Stepwise(f, w, S) ==
  f[{}] = 0 /\ \A s \in SUBSET S : s # {} => f[s] = w[First(s)] + f[s \ {First(s)}]

LEMMA AddsSteps == \A f, w, S : Adds(f, w, S) => Stepwise(f, w, S)
<1> SUFFICES ASSUME NEW f, NEW w, NEW S, Adds(f, w, S) PROVE Stepwise(f, w, S)
  OBVIOUS
<1>1. DOMAIN f = SUBSET S /\ {} \in SUBSET S  BY DEF Adds
<1>2. \A s \in SUBSET S : f[s] = IF s = {} THEN 0 ELSE w[First(s)] + f[s \ {First(s)}]
  BY Zenon DEF Adds, First
<1> QED  BY <1>1, <1>2 DEF Stepwise

LEMMA AddsFrom ==
  ASSUME NEW f, NEW w, NEW S, DOMAIN f = SUBSET S, f = [s \in SUBSET S |-> f[s]],
         \A s \in SUBSET S : f[s] = IF s = {} THEN 0 ELSE w[First(s)] + f[s \ {First(s)}]
  PROVE  Adds(f, w, S)
<1> DEFINE g == [s \in SUBSET S |-> IF s = {} THEN 0 ELSE w[First(s)] + f[s \ {First(s)}]]
<1>1. f = g  OBVIOUS
<1> QED  BY <1>1, Zenon DEF Adds, First

\* Two functions that give the same to the elements of a set, or to its subsets.
SameOn(v, w, S) == \A e \in S : v[e] = w[e]
SameSums(f, g, S) == \A s \in SUBSET S : f[s] = g[s]

\* Two that add the same give the same.
LEMMA AddsAgree ==
  \A S, T, U, v, w, f, g :
    /\ IsFiniteSet(S) /\ S \subseteq T /\ S \subseteq U /\ SameOn(v, w, S)
    /\ Adds(f, v, T) /\ Adds(g, w, U)
    => SameSums(f, g, S)
<1> SUFFICES ASSUME NEW S, IsFiniteSet(S), NEW T, NEW U, S \subseteq T, S \subseteq U,
                    NEW v, NEW w, SameOn(v, w, S),
                    NEW f, NEW g, Adds(f, v, T), Adds(g, w, U)
             PROVE  SameSums(f, g, S)
  BY Zenon
<1> DEFINE P == {s \in SUBSET S : f[s] = g[s]}
<1>0. Stepwise(f, v, T) /\ Stepwise(g, w, U)  BY AddsSteps, Zenon
<1>1. ASSUME NEW s \in SUBSET S, \A t \in SUBSET s : t # s => t \in P PROVE s \in P
  <2>1. s \in SUBSET T /\ s \in SUBSET U  OBVIOUS
  <2>2. CASE s = {}  BY <1>0, <2>2 DEF Stepwise
  <2>3. CASE s # {}
    <3>1. First(s) \in s /\ First(s) \in S  BY <2>3, FirstIn
    <3>2. s \ {First(s)} \in SUBSET s /\ s \ {First(s)} # s  BY <3>1
    <3>3. f[s \ {First(s)}] = g[s \ {First(s)}]  BY <1>1, <3>2
    <3>4. f[s] = v[First(s)] + f[s \ {First(s)}]  BY <1>0, <2>1, <2>3 DEF Stepwise
    <3>5. g[s] = w[First(s)] + g[s \ {First(s)}]  BY <1>0, <2>1, <2>3 DEF Stepwise
    <3> QED  BY <3>1, <3>3, <3>4, <3>5 DEF SameOn
  <2> QED  BY <2>2, <2>3
<1>2. P \subseteq SUBSET S  OBVIOUS
<1> HIDE DEF P
<1>3. \A s \in SUBSET S : s \in P  BY <1>1, <1>2, FiniteInduction
<1> QED  BY <1>3 DEF P, SameSums

\* The recursive function exists.
LEMMA AddsExists ==
  ASSUME NEW S, IsFiniteSet(S), NEW w
  PROVE  \E f : Adds(f, w, S)
<1> DEFINE P == {T \in SUBSET S : \E f : Adds(f, w, T)}
<1>1. ASSUME NEW T \in SUBSET S, \A U \in SUBSET T : U # T => U \in P PROVE T \in P
  <2> DEFINE G(U) == CHOOSE f : Adds(f, w, U)
             f == [s \in SUBSET T |->
                     IF s = {} THEN 0
                     ELSE w[First(s)] + G(s \ {First(s)})[s \ {First(s)}]]
  <2>1. ASSUME NEW U \in SUBSET T, U # T PROVE Adds(G(U), w, U)
    BY <1>1, <2>1, Zenon
  <2>2. ASSUME NEW s \in SUBSET T, s # T PROVE f[s] = G(s)[s]
    <3>1. CASE s = {}
      <4>1. Stepwise(G(s), w, s)  BY <2>1, <2>2, AddsSteps, Zenon
      <4> QED  BY <3>1, <4>1 DEF Stepwise
    <3>2. CASE s # {}
      <4> DEFINE t == s \ {First(s)}
      <4>1. First(s) \in s  BY <3>2, FirstIn
      <4>2. t \in SUBSET T /\ t # T /\ t \subseteq s /\ t \in SUBSET t  BY <4>1
      <4>3. IsFiniteSet(t)
        <5>1. t \in SUBSET S  BY <4>2
        <5> QED  BY <5>1, FS_Subset
      <4>4. Adds(G(s), w, s) /\ Adds(G(t), w, t)  BY <2>1, <2>2, <4>2
      <4> HIDE DEF G
      <4>5. G(s)[s] = w[First(s)] + G(s)[t]
        <5>1. s \in SUBSET s  OBVIOUS
        <5>2. Stepwise(G(s), w, s)  BY <4>4, AddsSteps, Zenon
        <5> QED  BY <3>2, <5>1, <5>2 DEF Stepwise
      <4>6. G(s)[t] = G(t)[t]
        <5> HIDE DEF t
        <5>0. t \subseteq s /\ t \subseteq t /\ SameOn(w, w, t)  BY <4>2 DEF SameOn
        <5>1. SameSums(G(s), G(t), t)  BY <4>3, <4>4, <5>0, AddsAgree, Zenon
        <5> QED  BY <4>2, <5>1 DEF SameSums
      <4> QED  BY <3>2, <4>5, <4>6
    <3> QED  BY <3>1, <3>2
  <2>3. ASSUME NEW s \in SUBSET T
        PROVE f[s] = IF s = {} THEN 0 ELSE w[First(s)] + f[s \ {First(s)}]
    <3>1. CASE s = {}  BY <3>1
    <3>2. CASE s # {}
      <4> DEFINE t == s \ {First(s)}
      <4>1. First(s) \in s  BY <3>2, FirstIn
      <4>2. t \in SUBSET T /\ t # T  BY <4>1
      <4>3. f[t] = G(t)[t]  BY <2>2, <4>2
      <4>4. f[s] = w[First(s)] + G(t)[t]  BY <3>2
      <4> QED  BY <3>2, <4>3, <4>4
    <3> QED  BY <3>1, <3>2
  <2>4. DOMAIN f = SUBSET T /\ f = [s \in SUBSET T |-> f[s]]  OBVIOUS
  <2> HIDE DEF f
  <2>5. Adds(f, w, T)  BY <2>3, <2>4, AddsFrom
  <2> QED  BY <2>5
<1>2. P \subseteq SUBSET S  OBVIOUS
<1> HIDE DEF P
<1>3. S \in P
  <2>1. S \in SUBSET S  OBVIOUS
  <2> QED  BY <1>1, <1>2, <2>1, FiniteInduction
<1> QED  BY <1>3 DEF P

\* Added is that function, of the whole set.
LEMMA AddedIs ==
  ASSUME NEW S, IsFiniteSet(S), NEW w
  PROVE  \E f : Adds(f, w, S) /\ Added(w, S) = f[S]
<1> DEFINE F == CHOOSE f : Adds(f, w, S)
<1>1. Adds(F, w, S)  BY AddsExists, Zenon
<1>2. Added(w, S) = F[S]  BY Zenon DEF Added, Adds
<1> QED  BY <1>1, <1>2

\* The sum over nothing, and over a set as its first element and the rest.
LEMMA AddedSteps ==
  ASSUME NEW S, IsFiniteSet(S), NEW w
  PROVE  /\ S = {} => Added(w, S) = 0
         /\ S # {} => /\ First(S) \in S
                      /\ Added(w, S) = w[First(S)] + Added(w, S \ {First(S)})
<1>1. PICK f : Adds(f, w, S) /\ Added(w, S) = f[S]  BY AddedIs
<1>0. Stepwise(f, w, S)  BY <1>1, AddsSteps, Zenon
<1>2. CASE S = {}  BY <1>0, <1>1, <1>2 DEF Stepwise
<1>3. CASE S # {}
  <2> DEFINE T == S \ {First(S)}
  <2>1. First(S) \in S /\ S \in SUBSET S  BY <1>3, FirstIn
  <2>2. IsFiniteSet(T) /\ T \subseteq S /\ T \subseteq T /\ T \in SUBSET T
    BY FS_RemoveElement
  <2>3. f[S] = w[First(S)] + f[T]  BY <1>0, <1>3, <2>1 DEF Stepwise
  <2> HIDE DEF T
  <2>4. PICK g : Adds(g, w, T) /\ Added(w, T) = g[T]  BY <2>2, AddedIs
  <2>5. SameOn(w, w, T)  BY DEF SameOn
  <2>6. SameSums(f, g, T)  BY <1>1, <2>2, <2>4, <2>5, AddsAgree, Zenon
  <2>7. f[T] = g[T]  BY <2>2, <2>6 DEF SameSums
  <2> QED  BY <1>1, <1>3, <2>1, <2>3, <2>4, <2>7 DEF T
<1> QED  BY <1>2, <1>3

\* The sum of natural numbers is one.
LEMMA AddedNat ==
  ASSUME NEW S, IsFiniteSet(S), NEW w, \A e \in S : w[e] \in Nat
  PROVE  Added(w, S) \in Nat
<1> DEFINE P == {T \in SUBSET S : Added(w, T) \in Nat}
<1>1. ASSUME NEW T \in SUBSET S, \A U \in SUBSET T : U # T => U \in P PROVE T \in P
  <2>1. IsFiniteSet(T)  BY FS_Subset
  <2>2. CASE T = {}
    <3>1. Added(w, T) = 0  BY <2>1, <2>2, AddedSteps
    <3> QED  BY <3>1
  <2>3. CASE T # {}
    <3>1. First(T) \in T /\ Added(w, T) = w[First(T)] + Added(w, T \ {First(T)})
      BY <2>1, <2>3, AddedSteps
    <3>2. T \ {First(T)} \in SUBSET T /\ T \ {First(T)} # T  BY <3>1
    <3>3. Added(w, T \ {First(T)}) \in Nat /\ w[First(T)] \in Nat  BY <1>1, <3>1, <3>2
    <3> QED  BY <3>1, <3>3
  <2> QED  BY <2>2, <2>3
<1>2. P \subseteq SUBSET S /\ S \in SUBSET S  OBVIOUS
<1> HIDE DEF P
<1>3. S \in P  BY <1>1, <1>2, FiniteInduction
<1> QED  BY <1>3 DEF P

\* Any element may be taken out first.
LEMMA AddedOut ==
  ASSUME NEW S, IsFiniteSet(S), NEW w, \A e \in S : w[e] \in Nat, NEW b \in S
  PROVE  Added(w, S) = w[b] + Added(w, S \ {b})
<1> DEFINE P == {T \in SUBSET S : \A c \in T : Added(w, T) = w[c] + Added(w, T \ {c})}
<1>1. ASSUME NEW T \in SUBSET S, \A U \in SUBSET T : U # T => U \in P PROVE T \in P
  <2> SUFFICES ASSUME NEW c \in T PROVE Added(w, T) = w[c] + Added(w, T \ {c})
    OBVIOUS
  <2> DEFINE a == First(T)
  <2>1. IsFiniteSet(T)  BY FS_Subset
  <2>2. a \in T /\ Added(w, T) = w[a] + Added(w, T \ {a})  BY <2>1, AddedSteps
  <2> HIDE DEF a
  <2>3. CASE a = c  BY <2>2, <2>3
  <2>4. CASE a # c
    <3>1. T \ {a} \in SUBSET T /\ T \ {a} # T /\ T \ {c} \in SUBSET T /\ T \ {c} # T
      BY <2>2
    <3>2. c \in T \ {a} /\ a \in T \ {c} /\ (T \ {a}) \ {c} = (T \ {c}) \ {a}  BY <2>2, <2>4
    <3>3. Added(w, T \ {a}) = w[c] + Added(w, (T \ {a}) \ {c})  BY <1>1, <3>1, <3>2
    <3>4. Added(w, T \ {c}) = w[a] + Added(w, (T \ {c}) \ {a})  BY <1>1, <3>1, <3>2
    <3>5. Added(w, (T \ {c}) \ {a}) \in Nat
      <4>1. (T \ {c}) \ {a} \in SUBSET S  OBVIOUS
      <4>2. IsFiniteSet((T \ {c}) \ {a})  BY <4>1, FS_Subset
      <4> QED  BY <4>1, <4>2, AddedNat
    <3>6. w[a] \in Nat /\ w[c] \in Nat  BY <2>2
    <3> QED  BY <2>2, <3>2, <3>3, <3>4, <3>5, <3>6
  <2> QED  BY <2>3, <2>4
<1>2. P \subseteq SUBSET S /\ S \in SUBSET S  OBVIOUS
<1> HIDE DEF P
<1>3. S \in P  BY <1>1, <1>2, FiniteInduction
<1> QED  BY <1>3 DEF P

\* Two functions that agree on a set have the same sum over it.
LEMMA AddedSame ==
  ASSUME NEW S, IsFiniteSet(S), NEW v, NEW w, SameOn(v, w, S)
  PROVE  Added(v, S) = Added(w, S)
<1>1. PICK f : Adds(f, v, S) /\ Added(v, S) = f[S]  BY AddedIs
<1>2. PICK g : Adds(g, w, S) /\ Added(w, S) = g[S]  BY AddedIs
<1>3. S \subseteq S /\ S \in SUBSET S  OBVIOUS
<1>4. SameSums(f, g, S)  BY <1>1, <1>2, <1>3, AddsAgree, Zenon
<1> QED  BY <1>1, <1>2, <1>3, <1>4 DEF SameSums

\* The sum of zeros.
LEMMA AddedZero ==
  ASSUME NEW S, IsFiniteSet(S), NEW w, \A e \in S : w[e] = 0
  PROVE  Added(w, S) = 0
<1> DEFINE P == {T \in SUBSET S : Added(w, T) = 0}
<1>1. ASSUME NEW T \in SUBSET S, \A U \in SUBSET T : U # T => U \in P PROVE T \in P
  <2>1. IsFiniteSet(T)  BY FS_Subset
  <2>2. CASE T = {}
    <3>1. Added(w, T) = 0  BY <2>1, <2>2, AddedSteps
    <3> QED  BY <3>1
  <2>3. CASE T # {}
    <3>1. First(T) \in T /\ Added(w, T) = w[First(T)] + Added(w, T \ {First(T)})
      BY <2>1, <2>3, AddedSteps
    <3>2. T \ {First(T)} \in SUBSET T /\ T \ {First(T)} # T  BY <3>1
    <3> QED  BY <1>1, <3>1, <3>2
  <2> QED  BY <2>2, <2>3
<1>2. P \subseteq SUBSET S /\ S \in SUBSET S  OBVIOUS
<1> HIDE DEF P
<1>3. S \in P  BY <1>1, <1>2, FiniteInduction
<1> QED  BY <1>3 DEF P

\* The sum over a set is the sums over a part of it and over the rest.
LEMMA AddedParts ==
  ASSUME NEW S, IsFiniteSet(S), NEW w, \A e \in S : w[e] \in Nat, NEW T \in SUBSET S
  PROVE  Added(w, S) = Added(w, T) + Added(w, S \ T)
<1> DEFINE P == {U \in SUBSET S :
                   U \subseteq T => Added(w, U \cup (S \ T)) = Added(w, U) + Added(w, S \ T)}
<1>0. IsFiniteSet(S \ T) /\ Added(w, S \ T) \in Nat
  <2>1. S \ T \in SUBSET S  OBVIOUS
  <2>2. IsFiniteSet(S \ T)  BY <2>1, FS_Subset
  <2> QED  BY <2>2, AddedNat
<1>1. ASSUME NEW U \in SUBSET S, \A V \in SUBSET U : V # U => V \in P PROVE U \in P
  <2> SUFFICES ASSUME U \subseteq T
               PROVE Added(w, U \cup (S \ T)) = Added(w, U) + Added(w, S \ T)
    OBVIOUS
  <2>1. IsFiniteSet(U)  BY FS_Subset
  <2>2. CASE U = {}
    <3>1. Added(w, U) = 0  BY <2>1, <2>2, AddedSteps
    <3>2. U \cup (S \ T) = S \ T  BY <2>2
    <3>3. Added(w, U \cup (S \ T)) = Added(w, S \ T)  BY <3>2, Zenon
    <3> QED  BY <1>0, <3>1, <3>3
  <2>3. CASE U # {}
    <3> DEFINE a == First(U)
               V == U \ {a}
    <3>1. a \in U  BY <2>3, FirstIn
    <3> HIDE DEF a
    <3>2. V \in SUBSET U /\ V # U /\ V \subseteq T /\ V \in SUBSET S  BY <3>1
    <3>3. Added(w, V \cup (S \ T)) = Added(w, V) + Added(w, S \ T)  BY <1>1, <3>2
    <3>4. IsFiniteSet(U \cup (S \ T)) /\ \A e \in U \cup (S \ T) : w[e] \in Nat
      <4>1. U \cup (S \ T) \in SUBSET S  OBVIOUS
      <4> QED  BY <4>1, FS_Subset
    <3>5. (U \cup (S \ T)) \ {a} = V \cup (S \ T) /\ a \in U \cup (S \ T)  BY <3>1
    <3>6. Added(w, U \cup (S \ T)) = w[a] + Added(w, V \cup (S \ T))
      BY <3>4, <3>5, AddedOut
    <3>7. Added(w, U) = w[a] + Added(w, V)  BY <2>1, <3>1, AddedOut
    <3>8. Added(w, V) \in Nat /\ w[a] \in Nat
      <4>1. IsFiniteSet(V)  BY <3>2, FS_Subset
      <4> QED  BY <3>1, <4>1, AddedNat
    <3> QED  BY <1>0, <3>3, <3>6, <3>7, <3>8
  <2> QED  BY <2>2, <2>3
<1>2. P \subseteq SUBSET S /\ T \in SUBSET S  OBVIOUS
<1> HIDE DEF P
<1>3. T \in P  BY <1>1, <1>2, FiniteInduction
<1>4. T \cup (S \ T) = S /\ T \subseteq T  OBVIOUS
<1> QED  BY <1>3, <1>4 DEF P

(***************************************************************************)
(* Progression: the invariant.                                             *)
(***************************************************************************)
CountSet == [chars : Nat, keys : Nat, backs : Nat]
TextSet == [chars : Nat, keys : Nat, xp : Nat, level : Nat, got : SUBSET Achievements,
            combo : Nat, earned : Nat, salvaged : BOOLEAN]
FoldStates == [pc : {"idle", "keys", "backs", "merge"}, took : CountSet]
SaverSet ==
  [pc : {"idle"}] \cup [pc : {"text", "open", "written"}, why : {"sweep", "exit"}, text : TextSet]

ProgressTypes ==
  /\ pend \in CountSet /\ hook \in {"idle", "second"} /\ fold \in [Folders -> FoldStates]
  /\ stats \in TextSet
  /\ progressFile \in [kind : {"missing", "empty", "whole", "keys", "xp"}, text : TextSet]
  /\ saver \in SaverSet /\ saved \in [xp : Nat, keys : Nat]
  /\ sweep \in {"due", "fresh"} /\ power \in {"on", "off"}
  /\ typedKeys \in [keys : Nat, chars : Nat] /\ recent \in Nat /\ aged \in Nat
  /\ behind \in BOOLEAN

\* A fold has taken the counters before its place, and none behind it.
InPlace(n) ==
  /\ n.pc = "idle" => n.took = NoCount
  /\ n.pc = "keys" => n.took.keys = 0 /\ n.took.backs = 0
  /\ n.pc = "backs" => n.took.backs = 0

\* Nothing is in memory between two lives.
OffIsEmpty ==
  power = "off" => /\ pend = NoCount /\ hook = "idle" /\ fold = [f \in Folders |-> NoFold]
                   /\ saver = [pc |-> "idle"] /\ stats = Fresh

\* The points of a text are those earned and those of its achievements.
PaidOnce(s) ==
  s.salvaged \/ s.earned + Paid(s.got) > MaxXp \/ s.xp = s.earned + Paid(s.got)

\* So in memory, in the file, and in the text on its way to it.
AllPaidOnce ==
  PaidOnce(stats) /\ PaidOnce(progressFile.text) /\ (saver.pc # "idle" => PaidOnce(saver.text))

\* A file without content counts as one without keys.
FilesHold ==
  progressFile.kind \in {"missing", "empty"} => progressFile.text = Fresh

\* What the file holds, against the saved numbers and the two marks, while the saved numbers are
\* not ahead of it.
MarksAreSaved ==
  /\ aged <= recent
  /\ power = "on" =>
       /\ recent <= stats.keys
       /\ ~behind =>
            /\ saver.pc \in {"idle", "text"} =>
                 progressFile.text.keys = saved.keys /\ aged <= progressFile.text.keys
            /\ saver.pc = "idle" /\ sweep = "fresh" => recent <= progressFile.text.keys
            /\ saver.pc # "idle" => saver.text.keys = stats.keys
            /\ saver.pc = "open" => progressFile = Empty
            /\ saver.pc = "written" => progressFile = Whole(saver.text)
  /\ power = "off" /\ ~behind /\ progressFile # Empty => aged <= progressFile.text.keys

\* The invariant of the progression.
ProgressInv ==
  /\ ProgressTypes /\ (\A f \in Folders : InPlace(fold[f])) /\ OffIsEmpty
  /\ KeysCountedOnce /\ AllPaidOnce /\ LevelFits /\ FilesHold /\ MarksAreSaved

LEMMA RewardsAre ==
  /\ \A A \in SUBSET Achievements : IsFiniteSet(A) /\ Paid(A) \in Nat
  /\ Paid({}) = 0
<1>1. IsFiniteSet(Achievements) /\ \A a \in Achievements : Rewards[a] \in Nat
  BY ProgressAssumption DEF Achievements
<1>2. ASSUME NEW A \in SUBSET Achievements PROVE IsFiniteSet(A) /\ Paid(A) \in Nat
  <2>1. IsFiniteSet(A)  BY <1>1, FS_Subset
  <2>2. \A a \in A : Rewards[a] \in Nat  BY <1>1
  <2> QED  BY <2>1, <2>2, AddedNat DEF Paid
<1>3. Paid({}) = 0
  <2>1. IsFiniteSet({})  BY FS_EmptySet
  <2> QED  BY <2>1, AddedSteps DEF Paid
<1> QED  BY <1>2, <1>3

\* What is unlocked now is paid on top of what was unlocked before.
LEMMA PaidOnTop ==
  ASSUME NEW A \in SUBSET Achievements, NEW B \in SUBSET Achievements
  PROVE  Paid(A \cup B) = Paid(A) + Paid(B \ A)
<1>1. \A a \in Achievements : Rewards[a] \in Nat
  BY ProgressAssumption DEF Achievements
<1> DEFINE C == A \cup B
<1>2. IsFiniteSet(C) /\ A \in SUBSET C /\ C \ A = B \ A /\ \A a \in C : Rewards[a] \in Nat
  BY <1>1, RewardsAre
<1> HIDE DEF C
<1>3. Added(Rewards, C) = Added(Rewards, A) + Added(Rewards, C \ A)  BY <1>2, AddedParts
<1> QED  BY <1>2, <1>3 DEF Paid, C

LEMMA LevelType == \A xp \in Nat : calculateLevel(xp) \in Nat
<1> SUFFICES ASSUME NEW xp \in Nat PROVE calculateLevel(xp) \in Nat
  OBVIOUS
<1> DEFINE L == {l \in DOMAIN Thresholds : Thresholds[l] <= Capped(xp)}
<1>1. L \in SUBSET DOMAIN Thresholds  OBVIOUS
<1> HIDE DEF L
<1>2. IsFiniteSet(L)  BY <1>1, ProgressAssumption, FS_Subset
<1>3. Cardinality(L) \in Nat  BY <1>2, FS_CardinalityType
<1> QED  BY <1>3 DEF calculateLevel, L

LEMMA CappedType == \A xp \in Nat : Capped(xp) \in Nat /\ Capped(xp) <= MaxXp
BY ProgressAssumption DEF Capped

\* A new profile.
LEMMA FreshIs ==
  /\ Fresh \in TextSet /\ PaidOnce(Fresh) /\ Fresh.level = calculateLevel(Fresh.xp)
  /\ NoCount \in CountSet /\ NoFold \in FoldStates /\ InPlace(NoFold)
<1>1. Fresh \in TextSet /\ NoCount \in CountSet /\ NoFold \in FoldStates /\ InPlace(NoFold)
  BY DEF Fresh, TextSet, NoCount, CountSet, NoFold, FoldStates, InPlace
<1>2. PaidOnce(Fresh)  BY RewardsAre DEF PaidOnce, Fresh
<1>3. Fresh.level = calculateLevel(Fresh.xp)
  <2> DEFINE L == {l \in DOMAIN Thresholds : Thresholds[l] <= Capped(0)}
  <2>1. Capped(0) = 0  BY ProgressAssumption DEF Capped
  <2>2. L = {}  BY <2>1, ProgressAssumption
  <2>3. Cardinality(L) = 0  BY <2>2, FS_EmptySet
  <2> QED  BY <2>3 DEF calculateLevel, Fresh
<1> QED  BY <1>1, <1>2, <1>3

\* What a credit makes of a text.
LEMMA CreditIs ==
  ASSUME NEW s \in TextSet
  PROVE  LET c == Levelled(checkAchievements(s))
         IN  /\ c \in TextSet /\ c.level = calculateLevel(c.xp)
             /\ c.keys = s.keys /\ c.chars = s.chars
             /\ PaidOnce(s) => PaidOnce(c)
<1> DEFINE due == {a \in Achievements : s.keys >= KeysFor[a]}
           m == [s EXCEPT !.got = @ \cup due, !.xp = @ + Paid(due \ s.got)]
           c == [m EXCEPT !.level = calculateLevel(m.xp)]
<1>1. /\ due \in SUBSET Achievements /\ s.got \in SUBSET Achievements
      /\ due \ s.got \in SUBSET Achievements
  BY DEF TextSet
<1>2. c = Levelled(checkAchievements(s))  BY DEF Levelled, checkAchievements
<1> HIDE DEF due
<1>3. Paid(due \ s.got) \in Nat /\ Paid(s.got) \in Nat  BY <1>1, RewardsAre
<1>4. m \in TextSet /\ m.keys = s.keys /\ m.chars = s.chars /\ m.earned = s.earned
      /\ m.salvaged = s.salvaged /\ m.got = s.got \cup due /\ m.xp = s.xp + Paid(due \ s.got)
  <2> DEFINE g == s.got \cup due
             x == s.xp + Paid(due \ s.got)
  <2>1. g \in SUBSET Achievements /\ x \in Nat  BY <1>1, <1>3 DEF TextSet
  <2>2. m = [s EXCEPT !.got = g, !.xp = x]  OBVIOUS
  <2> HIDE DEF g, x, m
  <2>3. m \in TextSet /\ m.keys = s.keys /\ m.chars = s.chars /\ m.earned = s.earned
        /\ m.salvaged = s.salvaged /\ m.got = g /\ m.xp = x
    BY <2>1, <2>2 DEF TextSet
  <2> QED  BY <2>3 DEF g, x
<1> HIDE DEF m
<1>5. calculateLevel(m.xp) \in Nat
  <2>1. m.xp \in Nat  BY <1>4 DEF TextSet
  <2> QED  BY <2>1, LevelType
<1>6. c \in TextSet /\ c.level = calculateLevel(m.xp) /\ c.xp = m.xp /\ c.keys = m.keys
      /\ c.chars = m.chars /\ c.earned = m.earned /\ c.salvaged = m.salvaged /\ c.got = m.got
  BY <1>4, <1>5 DEF TextSet
<1> HIDE DEF c
<1>7. PaidOnce(s) => PaidOnce(c)
  <2>1. Paid(c.got) = Paid(s.got) + Paid(due \ s.got)
    BY <1>1, <1>4, <1>6, PaidOnTop
  <2>2. s.earned \in Nat /\ s.xp \in Nat /\ MaxXp \in Nat  BY ProgressAssumption DEF TextSet
  <2> QED  BY <1>3, <1>4, <1>6, <2>1, <2>2 DEF PaidOnce
<1> QED  BY <1>2, <1>4, <1>6, <1>7

\* What is read from a file.
LEMMA LoadIs ==
  ASSUME ProgressTypes, FilesHold, PaidOnce(progressFile.text)
  PROVE  /\ loadFromFile \in TextSet /\ loadFromFile.level = calculateLevel(loadFromFile.xp)
         /\ loadFromFile.keys = progressFile.text.keys /\ PaidOnce(loadFromFile)
         /\ progressFile.kind \in {"missing", "empty", "whole"} \/ loadFromFile.salvaged
<1> DEFINE t == progressFile.text
           k == progressFile.kind
<1>0. t \in TextSet /\ k \in {"missing", "empty", "whole", "keys", "xp"}  BY DEF ProgressTypes
<1>1. CASE k \in {"missing", "empty"}
  <2>1. loadFromFile = Fresh  BY <1>1 DEF loadFromFile
  <2> QED  BY <1>1, <2>1, FreshIs DEF FilesHold
<1>2. CASE k = "whole"
  <2>1. loadFromFile = [t EXCEPT !.level = calculateLevel(t.xp)]
    BY <1>2 DEF loadFromFile, Recovered, Levelled
  <2>2. calculateLevel(t.xp) \in Nat
    <3>1. t.xp \in Nat  BY <1>0 DEF TextSet
    <3> QED  BY <3>1, LevelType
  <2>3. /\ loadFromFile \in TextSet /\ loadFromFile.level = calculateLevel(t.xp)
        /\ loadFromFile.xp = t.xp /\ loadFromFile.keys = t.keys /\ loadFromFile.got = t.got
        /\ loadFromFile.earned = t.earned /\ loadFromFile.salvaged = t.salvaged
    BY <1>0, <2>1, <2>2 DEF TextSet
  <2> QED  BY <1>2, <2>3 DEF PaidOnce
<1>3. CASE k \in {"keys", "xp"}
  <2> DEFINE s == [Fresh EXCEPT !.chars = t.chars, !.keys = t.keys, !.salvaged = TRUE,
                                !.xp = IF k = "xp" THEN t.xp ELSE 0]
  <2>1. loadFromFile = [s EXCEPT !.level = calculateLevel(s.xp)]
    BY <1>3 DEF loadFromFile, Salvaged, Recovered, Levelled
  <2>2. s \in TextSet /\ s.keys = t.keys /\ s.salvaged
    BY <1>0, FreshIs DEF TextSet
  <2> HIDE DEF s
  <2>3. calculateLevel(s.xp) \in Nat
    <3>1. s.xp \in Nat  BY <2>2 DEF TextSet
    <3> QED  BY <3>1, LevelType
  <2>4. /\ loadFromFile \in TextSet /\ loadFromFile.level = calculateLevel(s.xp)
        /\ loadFromFile.xp = s.xp /\ loadFromFile.keys = s.keys /\ loadFromFile.salvaged
    BY <2>1, <2>2, <2>3 DEF TextSet
  <2> QED  BY <2>2, <2>4 DEF PaidOnce
<1> QED  BY <1>0, <1>1, <1>2, <1>3

\* What the folds hold of a counter.
Flight(F, counter) == Added([f \in Folders |-> F[f].took[counter]], Folders)

LEMMA InFlightIs ==
  /\ InFlight("keys") = Flight(fold, "keys") + (IF hook = "second" THEN 1 ELSE 0)
  /\ InFlight("chars") = Flight(fold, "chars") + 0
BY DEF InFlight, Flight

LEMMA TookType ==
  ASSUME NEW F \in [Folders -> FoldStates], NEW c \in {"keys", "chars"}
  PROVE  \A f \in Folders : F[f].took[c] \in Nat
BY DEF FoldStates, CountSet

LEMMA FlightType ==
  ASSUME NEW F \in [Folders -> FoldStates], NEW c \in {"keys", "chars"}
  PROVE  Flight(F, c) \in Nat
<1> DEFINE w == [f \in Folders |-> F[f].took[c]]
<1>1. \A f \in Folders : w[f] \in Nat  BY TookType
<1> HIDE DEF w
<1>2. Added(w, Folders) \in Nat  BY <1>1, AddedNat, ProgressAssumption
<1> QED  BY <1>2 DEF Flight, w

\* One fold changes what it holds.
LEMMA FlightMoves ==
  ASSUME NEW F \in [Folders -> FoldStates], NEW f \in Folders, NEW n \in FoldStates,
         NEW c \in {"keys", "chars"}
  PROVE  Flight([F EXCEPT ![f] = n], c) + F[f].took[c] = Flight(F, c) + n.took[c]
<1> DEFINE G == [F EXCEPT ![f] = n]
           v == [g \in Folders |-> F[g].took[c]]
           w == [g \in Folders |-> G[g].took[c]]
           R == Folders \ {f}
<1>1. G \in [Folders -> FoldStates]  OBVIOUS
<1>2. (\A g \in Folders : v[g] \in Nat) /\ (\A g \in Folders : w[g] \in Nat)
  BY <1>1, TookType
<1>3. v[f] = F[f].took[c] /\ w[f] = n.took[c]  OBVIOUS
<1>4. SameOn(v, w, R)  BY DEF SameOn
<1>5. IsFiniteSet(Folders) /\ IsFiniteSet(R) /\ R \in SUBSET Folders
  BY ProgressAssumption, FS_RemoveElement
<1> HIDE DEF v, w
<1>6. Added(v, Folders) = v[f] + Added(v, R) /\ Added(w, Folders) = w[f] + Added(w, R)
  BY <1>2, <1>5, AddedOut
<1>7. Added(v, R) = Added(w, R)
  <2> HIDE DEF R
  <2> QED  BY <1>4, <1>5, AddedSame
<1>8. Added(v, R) \in Nat  BY <1>2, <1>5, AddedNat
<1>9. Flight(F, c) = Added(v, Folders) /\ Flight(G, c) = Added(w, Folders)
  BY DEF Flight, v, w
<1> QED  BY <1>2, <1>3, <1>6, <1>7, <1>8, <1>9

LEMMA FlightNone ==
  ASSUME NEW c \in {"keys", "chars"} PROVE Flight([f \in Folders |-> NoFold], c) = 0
<1> DEFINE w == [f \in Folders |-> [g \in Folders |-> NoFold][f].took[c]]
<1>1. \A f \in Folders : w[f] = 0  BY DEF NoFold, NoCount
<1> HIDE DEF w
<1>2. Added(w, Folders) = 0  BY <1>1, AddedZero, ProgressAssumption
<1> QED  BY <1>2 DEF Flight, w

\* Every key and character is somewhere, in a life.
Accounted == 
  /\ typedKeys.keys = stats.keys + pend.keys
                        + (Flight(fold, "keys") + (IF hook = "second" THEN 1 ELSE 0))
  /\ typedKeys.chars = stats.chars + pend.chars + (Flight(fold, "chars") + 0)

LEMMA CountedIs == KeysCountedOnce <=> (power = "on" => Accounted)
BY InFlightIs, Zenon DEF KeysCountedOnce, Accounted

LEMMA CountedLater == (KeysCountedOnce <=> (power = "on" => Accounted))'
BY CountedIs, PTL

\* What the folds, the hook and the statistics hold, while none of them moves.
CoreInv ==
  /\ \A f \in Folders : InPlace(fold[f])
  /\ KeysCountedOnce /\ PaidOnce(stats) /\ LevelFits

coreVars == <<pend, hook, fold, stats, typedKeys, power>>

LEMMA CoreStays == ProgressTypes /\ ProgressTypes' /\ CoreInv /\ UNCHANGED coreVars => CoreInv'
<1> SUFFICES ASSUME ProgressTypes, ProgressTypes', CoreInv, UNCHANGED coreVars PROVE CoreInv'
  OBVIOUS
<1>1. KeysCountedOnce'  BY CountedIs, CountedLater DEF CoreInv, coreVars, Accounted
<1> QED  BY <1>1 DEF CoreInv, coreVars, PaidOnce, LevelFits, InPlace

LEMMA ProgressInvIs ==
  ProgressInv <=>
    ProgressTypes /\ CoreInv /\ OffIsEmpty /\ AllPaidOnce /\ FilesHold /\ MarksAreSaved
BY DEF ProgressInv, CoreInv, AllPaidOnce

LEMMA ProgressInvLater ==
  (ProgressTypes /\ CoreInv /\ OffIsEmpty /\ AllPaidOnce /\ FilesHold /\ MarksAreSaved)'
  => ProgressInv'
<1>1. ProgressTypes /\ CoreInv /\ OffIsEmpty /\ AllPaidOnce /\ FilesHold /\ MarksAreSaved
      => ProgressInv
  BY ProgressInvIs
<1> QED  BY <1>1, PTL

LEMMA EmptyIs == Empty \in [kind : {"empty"}, text : TextSet] /\ Empty.kind = "empty"
                 /\ Empty.text = Fresh
BY FreshIs DEF Empty

\* The initial state.
LEMMA InitProgress == ProgressInit => ProgressInv
<1> SUFFICES ASSUME ProgressInit PROVE ProgressInv
  OBVIOUS
<1>1. ProgressTypes
  BY FreshIs DEF ProgressInit, ProgressTypes, NoFile, SaverSet, NoneSaved
<1>2. CoreInv
  <2>1. Accounted
    <3>1. Flight(fold, "keys") = 0 /\ Flight(fold, "chars") = 0
      BY FlightNone DEF ProgressInit
    <3> QED  BY <3>1 DEF ProgressInit, Accounted, Fresh, NoCount
  <2>2. KeysCountedOnce  BY <1>1, <2>1, CountedIs
  <2> QED  BY <2>2, FreshIs DEF CoreInv, ProgressInit, LevelFits
<1>3. OffIsEmpty /\ AllPaidOnce /\ FilesHold
  BY FreshIs DEF ProgressInit, OffIsEmpty, AllPaidOnce, FilesHold, NoFile
<1>4. MarksAreSaved
  BY DEF ProgressInit, MarksAreSaved, NoFile, NoneSaved, Fresh
<1> QED  BY <1>1, <1>2, <1>3, <1>4, ProgressInvIs

(***************************************************************************)
(* The hook thread.                                                        *)
(***************************************************************************)
LEMMA KeyStep == ProgressInv /\ (KeyBegins \/ KeyEnds) => ProgressInv'
<1> SUFFICES ASSUME ProgressInv, KeyBegins \/ KeyEnds PROVE ProgressInv'
  OBVIOUS
<1>0. ProgressTypes /\ CoreInv /\ OffIsEmpty /\ AllPaidOnce /\ FilesHold /\ MarksAreSaved
  BY ProgressInvIs
<1>1. ProgressTypes'
  <2>1. CASE KeyBegins  BY <1>0, <2>1 DEF KeyBegins, ProgressTypes, CountSet, Disk
  <2>2. CASE KeyEnds  BY <1>0, <2>2 DEF KeyEnds, ProgressTypes, CountSet, Disk, Ledger
  <2> QED  BY <2>1, <2>2
<1>2. Accounted'
  <2>1. Accounted  BY <1>0, CountedIs DEF KeyBegins, KeyEnds, CoreInv
  <2>2. Flight(fold, "keys") \in Nat /\ Flight(fold, "chars") \in Nat
    BY <1>0, FlightType DEF ProgressTypes
  <2>3. CASE KeyBegins
    BY <1>0, <2>1, <2>2, <2>3 DEF KeyBegins, ProgressTypes, CountSet, TextSet, Accounted
  <2>4. CASE KeyEnds
    BY <1>0, <2>1, <2>2, <2>4 DEF KeyEnds, ProgressTypes, CountSet, TextSet, Accounted, Ledger
  <2> QED  BY <2>3, <2>4
<1>3. KeysCountedOnce'  BY <1>1, <1>2, CountedLater
<1>4. UNCHANGED <<fold, stats, progressFile, saver, saved, sweep, power, recent, aged, behind>>
  BY DEF KeyBegins, KeyEnds, Disk, Ledger
<1>5. CoreInv'  BY <1>0, <1>3, <1>4 DEF CoreInv, PaidOnce, LevelFits
<1>6. OffIsEmpty'  BY <1>4 DEF OffIsEmpty, KeyBegins, KeyEnds
<1>7. AllPaidOnce' /\ FilesHold' /\ MarksAreSaved'
  BY <1>0, <1>4 DEF AllPaidOnce, FilesHold, MarksAreSaved, PaidOnce
<1> QED  BY <1>1, <1>5, <1>6, <1>7, ProgressInvLater

(***************************************************************************)
(* The folds.                                                              *)
(***************************************************************************)
LEMMA TakenStep ==
  ASSUME ProgressInv, NEW f \in Folders, FlushBegins(f) \/ FlushKeys(f) \/ FlushBackspaces(f)
  PROVE  ProgressInv'
<1>0. ProgressTypes /\ CoreInv /\ OffIsEmpty /\ AllPaidOnce /\ FilesHold /\ MarksAreSaved
  BY ProgressInvIs
<1>1. UNCHANGED <<hook, stats, progressFile, saver, saved, sweep, power, typedKeys, recent, aged,
                  behind>>
  BY DEF FlushBegins, FlushKeys, FlushBackspaces, Taken, Disk, Ledger
<1> DEFINE t == fold[f].took
<1>2. fold[f] \in FoldStates /\ t \in CountSet /\ pend \in CountSet /\ InPlace(fold[f])
  BY <1>0 DEF ProgressTypes, FoldStates, CoreInv
<1>3. PICK n \in FoldStates :
        /\ fold' = [fold EXCEPT ![f] = n] /\ InPlace(n) /\ pend' \in CountSet
        /\ n.took.keys + pend'.keys = t.keys + pend.keys
        /\ n.took.chars + pend'.chars = t.chars + pend.chars
  <2>1. CASE FlushBegins(f)
    <3> DEFINE n == [pc |-> "keys", took |-> [t EXCEPT !["chars"] = pend["chars"]]]
    <3>1. fold' = [fold EXCEPT ![f] = n] /\ pend' = [pend EXCEPT !["chars"] = 0]
      BY <1>0, <2>1 DEF FlushBegins, Taken, ProgressTypes
    <3>2. t = NoCount  BY <1>2, <2>1 DEF FlushBegins, InPlace
    <3>3. /\ n \in FoldStates /\ InPlace(n) /\ pend' \in CountSet
          /\ n.took.keys + pend'.keys = t.keys + pend.keys
          /\ n.took.chars + pend'.chars = t.chars + pend.chars
      BY <1>2, <3>1, <3>2 DEF FoldStates, CountSet, InPlace, NoCount
    <3> HIDE DEF n
    <3> QED  BY <3>1, <3>3
  <2>2. CASE FlushKeys(f)
    <3> DEFINE n == [pc |-> "backs", took |-> [t EXCEPT !["keys"] = pend["keys"]]]
    <3>1. fold' = [fold EXCEPT ![f] = n] /\ pend' = [pend EXCEPT !["keys"] = 0]
      BY <1>0, <2>2 DEF FlushKeys, Taken, ProgressTypes
    <3>2. t.keys = 0 /\ t.backs = 0  BY <1>2, <2>2 DEF FlushKeys, InPlace
    <3>3. /\ n \in FoldStates /\ InPlace(n) /\ pend' \in CountSet
          /\ n.took.keys + pend'.keys = t.keys + pend.keys
          /\ n.took.chars + pend'.chars = t.chars + pend.chars
      BY <1>2, <3>1, <3>2 DEF FoldStates, CountSet, InPlace
    <3> HIDE DEF n
    <3> QED  BY <3>1, <3>3
  <2>3. CASE FlushBackspaces(f)
    <3> DEFINE n == [pc |-> "merge", took |-> [t EXCEPT !["backs"] = pend["backs"]]]
    <3>1. fold' = [fold EXCEPT ![f] = n] /\ pend' = [pend EXCEPT !["backs"] = 0]
      BY <1>0, <2>3 DEF FlushBackspaces, Taken, ProgressTypes
    <3>2. /\ n \in FoldStates /\ InPlace(n) /\ pend' \in CountSet
          /\ n.took.keys + pend'.keys = t.keys + pend.keys
          /\ n.took.chars + pend'.chars = t.chars + pend.chars
      BY <1>2, <3>1 DEF FoldStates, CountSet, InPlace
    <3> HIDE DEF n
    <3> QED  BY <3>1, <3>2
  <2> QED  BY <2>1, <2>2, <2>3
<1>4. ProgressTypes'
  <2>1. fold' \in [Folders -> FoldStates]  BY <1>0, <1>3 DEF ProgressTypes
  <2> QED  BY <1>0, <1>1, <1>3, <2>1 DEF ProgressTypes
<1>5. power = "on"  BY DEF FlushBegins, FlushKeys, FlushBackspaces, MayFold
<1>6. KeysCountedOnce'
  <2>1. Accounted  BY <1>0, <1>5, CountedIs DEF CoreInv
  <2>2. /\ Flight(fold', "keys") + t.keys = Flight(fold, "keys") + n.took.keys
        /\ Flight(fold', "chars") + t.chars = Flight(fold, "chars") + n.took.chars
    BY <1>0, <1>3, FlightMoves DEF ProgressTypes
  <2>3. /\ Flight(fold, "keys") \in Nat /\ Flight(fold, "chars") \in Nat
        /\ Flight(fold', "keys") \in Nat /\ Flight(fold', "chars") \in Nat
    BY <1>0, <1>4, FlightType DEF ProgressTypes
  <2>4. /\ t.keys \in Nat /\ t.chars \in Nat /\ n.took.keys \in Nat /\ n.took.chars \in Nat
        /\ pend.keys \in Nat /\ pend.chars \in Nat /\ pend'.keys \in Nat /\ pend'.chars \in Nat
        /\ stats.keys \in Nat /\ stats.chars \in Nat
    BY <1>0, <1>2, <1>3 DEF FoldStates, CountSet, ProgressTypes, TextSet
  <2> HIDE DEF t
  <2>5. UNCHANGED <<hook, stats, typedKeys>>  BY <1>1
  <2>6. (IF hook = "second" THEN 1 ELSE 0) \in Nat  OBVIOUS
  <2> DEFINE h == IF hook = "second" THEN 1 ELSE 0
  <2> HIDE DEF h
  <2>7. /\ typedKeys.keys = stats.keys + pend'.keys + (Flight(fold', "keys") + h)
        /\ typedKeys.chars = stats.chars + pend'.chars + (Flight(fold', "chars") + 0)
    BY <1>3, <2>1, <2>2, <2>3, <2>4, <2>6 DEF Accounted, h
  <2>8. Accounted'  BY <2>5, <2>7 DEF Accounted, h
  <2> QED  BY <1>4, <2>8, CountedLater
<1>7. CoreInv'
  <2>1. \A g \in Folders : InPlace(fold'[g])
    <3> SUFFICES ASSUME NEW g \in Folders PROVE InPlace(fold'[g])
      OBVIOUS
    <3>1. CASE g = f  BY <1>0, <1>3, <3>1 DEF ProgressTypes
    <3>2. CASE g # f
      <4>1. fold'[g] = fold[g]  BY <1>0, <1>3, <3>2 DEF ProgressTypes
      <4> QED  BY <1>0, <4>1 DEF CoreInv
    <3> QED  BY <3>1, <3>2
  <2> QED  BY <1>0, <1>1, <1>6, <2>1 DEF CoreInv, PaidOnce, LevelFits
<1>8. OffIsEmpty' /\ AllPaidOnce' /\ FilesHold' /\ MarksAreSaved'
  BY <1>0, <1>1, <1>5 DEF OffIsEmpty, AllPaidOnce, FilesHold, MarksAreSaved, PaidOnce
<1> QED  BY <1>4, <1>7, <1>8, ProgressInvLater

\* What is earned with a batch.
LEMMA EarnedType == \A t \in CountSet : Earned(t) \in Nat
<1> SUFFICES ASSUME NEW t \in CountSet PROVE Earned(t) \in Nat
  OBVIOUS
<1>1. t.chars \in Nat /\ t.backs \in Nat /\ t.chars \div 2 \in Nat
  BY DEF CountSet
<1> QED  BY <1>1 DEF Earned

\* A batch goes into the statistics.
LEMMA FoldIs ==
  ASSUME NEW s \in TextSet, NEW t \in CountSet
  PROVE  LET n == [s EXCEPT !.chars = @ + t.chars, !.keys = @ + t.keys,
                            !.xp = Capped(@ + Earned(t)), !.earned = @ + Earned(t)]
         IN  /\ n \in TextSet /\ n.keys = s.keys + t.keys /\ n.chars = s.chars + t.chars
             /\ PaidOnce(s) => PaidOnce(n)
<1> DEFINE n == [s EXCEPT !.chars = @ + t.chars, !.keys = @ + t.keys,
                          !.xp = Capped(@ + Earned(t)), !.earned = @ + Earned(t)]
<1> DEFINE e == Earned(t)
           x == Capped(s.xp + e)
<1>1. e \in Nat  BY EarnedType
<1>2. s.xp + e \in Nat /\ s.earned \in Nat /\ s.xp \in Nat /\ s.got \in SUBSET Achievements
  BY <1>1 DEF TextSet
<1>3. x \in Nat /\ (x = s.xp + e \/ (x = MaxXp /\ s.xp + e > MaxXp))
  BY <1>2, CappedType DEF Capped
<1> HIDE DEF x
<1> DEFINE c == s.chars + t.chars
           k == s.keys + t.keys
           m == s.earned + e
<1>4. n = [s EXCEPT !.chars = c, !.keys = k, !.xp = x, !.earned = m]
  BY DEF x
<1>a. c \in Nat /\ k \in Nat /\ m \in Nat  BY <1>1, <1>2 DEF TextSet, CountSet
<1> HIDE DEF e, n, c, k, m
<1>5. /\ n \in TextSet /\ n.keys = s.keys + t.keys /\ n.chars = s.chars + t.chars /\ n.xp = x
      /\ n.earned = s.earned + e /\ n.got = s.got /\ n.salvaged = s.salvaged
  <2>1. /\ n \in TextSet /\ n.keys = k /\ n.chars = c /\ n.xp = x
        /\ n.earned = m /\ n.got = s.got /\ n.salvaged = s.salvaged
    BY <1>3, <1>4, <1>a DEF TextSet
  <2> QED  BY <2>1 DEF c, k, m
<1>6. Paid(s.got) \in Nat /\ MaxXp \in Nat  BY <1>2, RewardsAre, ProgressAssumption
<1>7. PaidOnce(s) => PaidOnce(n)
  BY <1>1, <1>2, <1>3, <1>5, <1>6 DEF PaidOnce
<1> QED  BY <1>5, <1>7 DEF n

LEMMA MergeStep ==
  ASSUME ProgressInv, NEW f \in Folders, FlushMerges(f)
  PROVE  ProgressInv'
<1>0. ProgressTypes /\ CoreInv /\ OffIsEmpty /\ AllPaidOnce /\ FilesHold /\ MarksAreSaved
  BY ProgressInvIs
<1> DEFINE t == fold[f].took
           s == [stats EXCEPT !.chars = @ + t.chars, !.keys = @ + t.keys,
                              !.xp = Capped(@ + Earned(t)), !.earned = @ + Earned(t)]
           c == Levelled(checkAchievements(s))
<1>1. /\ power = "on" /\ fold[f].pc = "merge" /\ fold' = [fold EXCEPT ![f] = NoFold]
      /\ behind' = (behind \/ (saver.pc # "idle" /\ WorthFolding(t)))
      /\ UNCHANGED <<pend, hook, progressFile, saver, saved, sweep, power, typedKeys, recent, aged>>
      /\ IF WorthFolding(t) THEN stats' = c ELSE UNCHANGED stats
  BY DEF FlushMerges, MayFold, Credit, Disk
<1>2. fold[f] \in FoldStates /\ t \in CountSet /\ stats \in TextSet /\ PaidOnce(stats)
  BY <1>0 DEF ProgressTypes, FoldStates, CoreInv
<1>3. /\ stats' \in TextSet /\ stats'.keys = stats.keys + t.keys
      /\ stats'.chars = stats.chars + t.chars /\ PaidOnce(stats')
      /\ stats'.level = calculateLevel(stats'.xp)
      /\ ~WorthFolding(t) => stats' = stats
  <2>1. CASE WorthFolding(t)
    <3> HIDE DEF t
    <3>1. s \in TextSet /\ s.keys = stats.keys + t.keys /\ s.chars = stats.chars + t.chars
          /\ PaidOnce(s)
      BY <1>2, FoldIs
    <3>2. stats' = c  BY <1>1, <2>1
    <3> HIDE DEF s
    <3>3. /\ c \in TextSet /\ c.level = calculateLevel(c.xp) /\ c.keys = s.keys
          /\ c.chars = s.chars /\ PaidOnce(c)
      BY <3>1, CreditIs
    <3> HIDE DEF c
    <3> QED  BY <2>1, <3>1, <3>2, <3>3
  <2>2. CASE ~WorthFolding(t)
    <3>1. stats' = stats /\ t.keys = 0 /\ t.chars = 0  BY <1>1, <2>2 DEF WorthFolding
    <3>2. stats.keys \in Nat /\ stats.chars \in Nat  BY <1>2 DEF TextSet
    <3> HIDE DEF t
    <3> QED  BY <1>0, <1>2, <3>1, <3>2 DEF CoreInv, LevelFits
  <2> QED  BY <2>1, <2>2
<1> HIDE DEF c, s, t
<1>4. ProgressTypes'
  <2>1. fold' \in [Folders -> FoldStates]  BY <1>0, <1>1, FreshIs DEF ProgressTypes
  <2>2. behind' \in BOOLEAN  BY <1>1
  <2> QED  BY <1>0, <1>1, <1>3, <2>1, <2>2 DEF ProgressTypes
<1>5. KeysCountedOnce'
  <2>1. Accounted  BY <1>0, <1>1, CountedIs DEF CoreInv
  <2>2. /\ Flight(fold', "keys") + t.keys = Flight(fold, "keys") + 0
        /\ Flight(fold', "chars") + t.chars = Flight(fold, "chars") + 0
    <3>1. NoFold \in FoldStates /\ NoFold.took["keys"] = 0 /\ NoFold.took["chars"] = 0
      BY FreshIs DEF NoFold, NoCount
    <3>2. fold \in [Folders -> FoldStates]  BY <1>0 DEF ProgressTypes
    <3>3. /\ Flight(fold', "keys") + fold[f].took["keys"]
               = Flight(fold, "keys") + NoFold.took["keys"]
          /\ Flight(fold', "chars") + fold[f].took["chars"]
               = Flight(fold, "chars") + NoFold.took["chars"]
      BY <1>1, <3>1, <3>2, FlightMoves
    <3> QED  BY <3>1, <3>3 DEF t
  <2>3. /\ Flight(fold, "keys") \in Nat /\ Flight(fold, "chars") \in Nat
        /\ Flight(fold', "keys") \in Nat /\ Flight(fold', "chars") \in Nat
    BY <1>0, <1>4, FlightType DEF ProgressTypes
  <2>4. /\ t.keys \in Nat /\ t.chars \in Nat /\ pend.keys \in Nat /\ pend.chars \in Nat
        /\ stats.keys \in Nat /\ stats.chars \in Nat
    BY <1>0, <1>2 DEF CountSet, ProgressTypes, TextSet
  <2> DEFINE h == IF hook = "second" THEN 1 ELSE 0
  <2>5. h \in Nat  OBVIOUS
  <2> HIDE DEF h
  <2>6. /\ typedKeys.keys = stats'.keys + pend.keys + (Flight(fold', "keys") + h)
        /\ typedKeys.chars = stats'.chars + pend.chars + (Flight(fold', "chars") + 0)
    BY <1>3, <2>1, <2>2, <2>3, <2>4, <2>5 DEF Accounted, h
  <2>7. Accounted'  BY <1>1, <2>6 DEF Accounted, h
  <2> QED  BY <1>4, <2>7, CountedLater
<1>6. CoreInv'
  <2>1. \A g \in Folders : InPlace(fold'[g])
    <3> SUFFICES ASSUME NEW g \in Folders PROVE InPlace(fold'[g])
      OBVIOUS
    <3>1. CASE g = f  BY <1>0, <1>1, <3>1, FreshIs DEF ProgressTypes
    <3>2. CASE g # f
      <4>1. fold'[g] = fold[g]  BY <1>0, <1>1, <3>2 DEF ProgressTypes
      <4> QED  BY <1>0, <4>1 DEF CoreInv
    <3> QED  BY <3>1, <3>2
  <2> QED  BY <1>3, <1>5, <2>1 DEF CoreInv, PaidOnce, LevelFits
<1>7. OffIsEmpty' /\ AllPaidOnce' /\ FilesHold'
  BY <1>0, <1>1, <1>3 DEF OffIsEmpty, AllPaidOnce, FilesHold, PaidOnce
<1>8. MarksAreSaved'
  <2>1. stats.keys \in Nat /\ t.keys \in Nat /\ recent \in Nat
    BY <1>0, <1>2 DEF ProgressTypes, TextSet, CountSet
  <2>2. recent' <= stats'.keys  BY <1>0, <1>1, <1>3, <2>1 DEF MarksAreSaved
  <2>3. CASE WorthFolding(t) /\ saver.pc # "idle"
    BY <1>0, <1>1, <2>2, <2>3 DEF MarksAreSaved
  <2>4. CASE saver.pc = "idle"
    BY <1>0, <1>1, <2>2, <2>4 DEF MarksAreSaved
  <2>5. CASE ~WorthFolding(t)
    BY <1>0, <1>1, <1>3, <2>2, <2>5 DEF MarksAreSaved
  <2> QED  BY <2>3, <2>4, <2>5
<1> QED  BY <1>4, <1>6, <1>7, <1>8, ProgressInvLater

(***************************************************************************)
(* The games, the hub and the reset button.                                *)
(***************************************************************************)
LEMMA RunStep == ProgressInv /\ recordArcadeRun => ProgressInv'
<1> SUFFICES ASSUME ProgressInv, recordArcadeRun PROVE ProgressInv'
  OBVIOUS
<1>0. ProgressTypes /\ CoreInv /\ OffIsEmpty /\ AllPaidOnce /\ FilesHold /\ MarksAreSaved
  BY ProgressInvIs
<1>1. power = "on" /\ saver.pc = "idle"
  BY DEF recordArcadeRun, UiIsFree
<1>2. UNCHANGED <<pend, hook, fold, progressFile, saver, saved, sweep, power, typedKeys, recent,
                  aged, behind>>
  BY DEF recordArcadeRun, Disk
<1>3. PICK s \in TextSet : /\ stats' = Levelled(checkAchievements(s))
                           /\ s.keys = stats.keys /\ s.chars = stats.chars /\ PaidOnce(s)
  <2>0. stats \in TextSet /\ PaidOnce(stats) /\ RunXp \in Nat /\ MaxXp \in Nat
    BY <1>0, ProgressAssumption DEF ProgressTypes, CoreInv
  <2>1. CASE stats' = Levelled(checkAchievements([stats EXCEPT !.xp = @ + RunXp,
                                                               !.earned = @ + RunXp]))
    <3> DEFINE s == [stats EXCEPT !.xp = @ + RunXp, !.earned = @ + RunXp]
    <3>1. /\ s \in TextSet /\ s.keys = stats.keys /\ s.chars = stats.chars
          /\ s.xp = stats.xp + RunXp /\ s.earned = stats.earned + RunXp /\ s.got = stats.got
          /\ s.salvaged = stats.salvaged /\ stats.xp \in Nat /\ stats.earned \in Nat
          /\ stats.got \in SUBSET Achievements
      <4>1. stats.xp \in Nat /\ stats.earned \in Nat /\ stats.got \in SUBSET Achievements
            /\ stats.keys \in Nat /\ stats.chars \in Nat
        BY <2>0 DEF TextSet
      <4> DEFINE x == stats.xp + RunXp
                 e == stats.earned + RunXp
                 n == [stats EXCEPT !.chars = stats.chars, !.keys = stats.keys, !.xp = x,
                                    !.earned = e]
      <4>2. x \in Nat /\ e \in Nat  BY <2>0, <4>1
      <4>3. s = n  BY <2>0 DEF TextSet
      <4> HIDE DEF x, e, s
      <4>4. /\ n \in TextSet /\ n.keys = stats.keys /\ n.chars = stats.chars /\ n.xp = x
            /\ n.earned = e /\ n.got = stats.got /\ n.salvaged = stats.salvaged
        BY <2>0, <4>1, <4>2 DEF TextSet
      <4> HIDE DEF n
      <4> QED  BY <4>1, <4>3, <4>4 DEF x, e
    <3>2. stats' = Levelled(checkAchievements(s))  BY <2>1
    <3> HIDE DEF s
    <3>3. Paid(stats.got) \in Nat  BY <3>1, RewardsAre
    <3>4. PaidOnce(s)  BY <2>0, <3>1, <3>3 DEF PaidOnce
    <3> QED  BY <3>1, <3>2, <3>4
  <2>2. CASE stats' = Levelled(checkAchievements([stats EXCEPT !.combo = @ + 1]))
    <3> DEFINE s == [stats EXCEPT !.combo = @ + 1]
    <3>1. /\ s \in TextSet /\ s.keys = stats.keys /\ s.chars = stats.chars
          /\ s.xp = stats.xp /\ s.earned = stats.earned /\ s.got = stats.got
          /\ s.salvaged = stats.salvaged
      BY <2>0 DEF TextSet
    <3>2. stats' = Levelled(checkAchievements(s))  BY <2>2
    <3> HIDE DEF s
    <3>3. PaidOnce(s)  BY <2>0, <3>1 DEF PaidOnce
    <3> QED  BY <3>1, <3>2, <3>3
  <2> QED  BY <2>1, <2>2 DEF recordArcadeRun, Credit
<1>4. /\ stats' \in TextSet /\ stats'.keys = stats.keys /\ stats'.chars = stats.chars
      /\ PaidOnce(stats') /\ stats'.level = calculateLevel(stats'.xp)
  BY <1>3, CreditIs
<1>5. ProgressTypes'  BY <1>0, <1>2, <1>4 DEF ProgressTypes
<1>6. KeysCountedOnce'
  <2>1. Accounted  BY <1>0, <1>1, CountedIs DEF CoreInv
  <2>2. Accounted'  BY <1>2, <1>4, <2>1 DEF Accounted
  <2> QED  BY <2>2, CountedLater
<1>7. CoreInv' /\ OffIsEmpty' /\ AllPaidOnce' /\ FilesHold'
  BY <1>0, <1>1, <1>2, <1>4, <1>6
     DEF CoreInv, OffIsEmpty, AllPaidOnce, FilesHold, PaidOnce, LevelFits
<1>8. MarksAreSaved'  BY <1>0, <1>1, <1>2, <1>4 DEF MarksAreSaved
<1> QED  BY <1>5, <1>7, <1>8, ProgressInvLater

LEMMA ResetStep == ProgressInv /\ reset => ProgressInv'
<1> SUFFICES ASSUME ProgressInv, reset PROVE ProgressInv'
  OBVIOUS
<1>0. ProgressTypes /\ CoreInv /\ OffIsEmpty /\ AllPaidOnce /\ FilesHold /\ MarksAreSaved
  BY ProgressInvIs
<1>1. /\ power = "on" /\ saver.pc = "idle" /\ stats' = Fresh /\ pend' = NoCount
      /\ typedKeys' = [keys |-> InFlight("keys"), chars |-> InFlight("chars")]
      /\ recent' = 0 /\ aged' = 0
      /\ UNCHANGED <<hook, fold, progressFile, saver, saved, sweep, power, behind>>
  BY DEF reset, UiIsFree, Disk
<1>2. Flight(fold, "keys") \in Nat /\ Flight(fold, "chars") \in Nat
  BY <1>0, FlightType DEF ProgressTypes
<1>3. InFlight("keys") \in Nat /\ InFlight("chars") \in Nat  BY <1>2, InFlightIs
<1>4. ProgressTypes'  BY <1>0, <1>1, <1>3, FreshIs DEF ProgressTypes
<1>5. KeysCountedOnce'
  <2>1. Accounted'
    BY <1>1, <1>2, InFlightIs DEF Accounted, Fresh, NoCount
  <2> QED  BY <2>1, CountedLater
<1>6. CoreInv' /\ OffIsEmpty' /\ AllPaidOnce' /\ FilesHold'
  BY <1>0, <1>1, <1>5, FreshIs
     DEF CoreInv, OffIsEmpty, AllPaidOnce, FilesHold, PaidOnce, LevelFits
<1>7. MarksAreSaved'
  <2>1. progressFile.text.keys \in Nat  BY <1>0 DEF ProgressTypes, TextSet
  <2>2. stats'.keys = 0  BY <1>1 DEF Fresh
  <2> QED  BY <1>0, <1>1, <2>1, <2>2 DEF MarksAreSaved
<1> QED  BY <1>4, <1>6, <1>7, ProgressInvLater

(***************************************************************************)
(* The toast, the throttle and the save.                                   *)
(***************************************************************************)
LEMMA QuietStep ==
  ASSUME ProgressInv, consumeLevelUp \/ HalfAMinute
  PROVE  ProgressInv'
<1>0. ProgressTypes /\ CoreInv /\ OffIsEmpty /\ AllPaidOnce /\ FilesHold /\ MarksAreSaved
  BY ProgressInvIs
<1>1. /\ UNCHANGED coreVars /\ UNCHANGED <<progressFile, saver, saved, behind>>
      /\ power = "on" /\ saver.pc = "idle"
  BY DEF consumeLevelUp, HalfAMinute, UiIsFree, Disk, Ledger, coreVars
<1>2. ProgressTypes'
  <2>1. CASE consumeLevelUp
    BY <1>0, <1>1, <2>1 DEF consumeLevelUp, ProgressTypes, coreVars, Disk, Ledger
  <2>2. CASE HalfAMinute
    <3>1. stats.keys \in Nat  BY <1>0 DEF ProgressTypes, TextSet
    <3> QED  BY <1>0, <1>1, <2>2, <3>1 DEF HalfAMinute, ProgressTypes, coreVars
  <2> QED  BY <2>1, <2>2
<1>3. CoreInv'  BY <1>0, <1>1, <1>2, CoreStays
<1>4. OffIsEmpty' /\ AllPaidOnce' /\ FilesHold'
  BY <1>0, <1>1 DEF OffIsEmpty, AllPaidOnce, FilesHold, PaidOnce, coreVars
<1>5. MarksAreSaved'
  <2>1. CASE consumeLevelUp
    BY <1>0, <1>1, <2>1 DEF consumeLevelUp, MarksAreSaved, coreVars, Disk, Ledger
  <2>2. CASE HalfAMinute
    <3>1. /\ recent' = stats.keys /\ aged' = recent /\ stats' = stats /\ power' = "on"
          /\ sweep' = "due" /\ (sweep = "fresh" \/ saved.keys = stats.keys)
      BY <1>0, <1>1, <2>2 DEF HalfAMinute, persistSweepDue, ProgressTypes, coreVars
    <3>2. recent <= stats.keys /\ recent \in Nat /\ stats.keys \in Nat
      BY <1>0, <1>1 DEF MarksAreSaved, ProgressTypes, TextSet
    <3>3. ~behind => recent <= progressFile.text.keys
      BY <1>0, <1>1, <3>1, <3>2 DEF MarksAreSaved
    <3> QED  BY <1>0, <1>1, <3>1, <3>2, <3>3 DEF MarksAreSaved
  <2> QED  BY <2>1, <2>2
<1> QED  BY <1>2, <1>3, <1>4, <1>5, ProgressInvLater

LEMMA SaveStep ==
  ASSUME ProgressInv, \/ SaveBegins("sweep") \/ SaveBegins("exit")
                      \/ FileOpens \/ FileIsLocked \/ FileIsWritten
  PROVE  ProgressInv'
<1>0. ProgressTypes /\ CoreInv /\ OffIsEmpty /\ AllPaidOnce /\ FilesHold /\ MarksAreSaved
  BY ProgressInvIs
<1>1. UNCHANGED coreVars /\ UNCHANGED <<saved, recent, aged>> /\ power = "on"
  BY DEF SaveBegins, FileOpens, FileIsLocked, FileIsWritten, UiIsFree, Ledger, coreVars
<1>2. stats \in TextSet /\ aged \in Nat /\ recent \in Nat /\ stats.keys \in Nat
      /\ aged <= recent /\ recent <= stats.keys /\ aged <= stats.keys
  BY <1>0, <1>1 DEF ProgressTypes, TextSet, MarksAreSaved
<1>3. CASE SaveBegins("sweep") \/ SaveBegins("exit")
  <2>1. PICK why \in {"sweep", "exit"} : SaveBegins(why)  BY <1>3
  <2>2. /\ saver.pc = "idle" /\ saver' = [pc |-> "text", why |-> why, text |-> stats]
        /\ UNCHANGED <<progressFile, behind>> /\ sweep' \in {sweep, "fresh"}
    BY <2>1 DEF SaveBegins, UiIsFree, Ledger
  <2>3. /\ saver' \in SaverSet /\ saver'.pc = "text" /\ saver'.text = stats
    BY <1>2, <2>2 DEF SaverSet
  <2>4. ProgressTypes'  BY <1>0, <1>1, <2>2, <2>3 DEF ProgressTypes, coreVars
  <2>5. CoreInv'  BY <1>0, <1>1, <2>4, CoreStays
  <2>6. OffIsEmpty' /\ AllPaidOnce' /\ FilesHold'
    BY <1>0, <1>1, <2>2, <2>3 DEF OffIsEmpty, AllPaidOnce, FilesHold, PaidOnce, coreVars
  <2>7. MarksAreSaved'
    BY <1>0, <1>1, <2>2, <2>3 DEF MarksAreSaved, coreVars
  <2> QED  BY <2>4, <2>5, <2>6, <2>7, ProgressInvLater
<1>4. CASE FileOpens
  <2>1. /\ saver.pc = "text" /\ progressFile' = Empty /\ saver' = [saver EXCEPT !.pc = "open"]
        /\ UNCHANGED <<sweep, behind>>
    BY <1>4 DEF FileOpens, Ledger
  <2>2. saver' \in SaverSet /\ saver'.pc = "open" /\ saver'.text = saver.text
    BY <1>0, <2>1 DEF ProgressTypes, SaverSet
  <2>3. progressFile' \in [kind : {"missing", "empty", "whole", "keys", "xp"}, text : TextSet]
    BY <2>1, FreshIs DEF Empty
  <2>4. ProgressTypes'  BY <1>0, <1>1, <2>1, <2>2, <2>3 DEF ProgressTypes, coreVars
  <2>5. CoreInv'  BY <1>0, <1>1, <2>4, CoreStays
  <2>6. OffIsEmpty' /\ AllPaidOnce' /\ FilesHold'
    BY <1>0, <1>1, <2>1, <2>2, FreshIs, EmptyIs
       DEF OffIsEmpty, AllPaidOnce, FilesHold, PaidOnce, coreVars
  <2>7. MarksAreSaved'
    BY <1>0, <1>1, <1>2, <2>1, <2>2 DEF MarksAreSaved, coreVars
  <2> QED  BY <2>4, <2>5, <2>6, <2>7, ProgressInvLater
<1>5. CASE FileIsLocked
  <2>1. /\ saver.pc = "text" /\ saver' = [saver EXCEPT !.pc = "written"] /\ behind' = TRUE
        /\ UNCHANGED <<progressFile, sweep>>
    BY <1>5 DEF FileIsLocked
  <2>2. saver' \in SaverSet /\ saver'.pc = "written" /\ saver'.text = saver.text
    BY <1>0, <2>1 DEF ProgressTypes, SaverSet
  <2>3. ProgressTypes'  BY <1>0, <1>1, <2>1, <2>2 DEF ProgressTypes, coreVars
  <2>4. CoreInv'  BY <1>0, <1>1, <2>3, CoreStays
  <2>5. OffIsEmpty' /\ AllPaidOnce' /\ FilesHold'
    BY <1>0, <1>1, <2>1, <2>2 DEF OffIsEmpty, AllPaidOnce, FilesHold, PaidOnce, coreVars
  <2>6. MarksAreSaved'
    BY <1>0, <1>1, <1>2, <2>1, <2>2 DEF MarksAreSaved, coreVars
  <2> QED  BY <2>3, <2>4, <2>5, <2>6, ProgressInvLater
<1>6. CASE FileIsWritten
  <2>1. /\ saver.pc = "open" /\ progressFile' = Whole(saver.text)
        /\ saver' = [saver EXCEPT !.pc = "written"] /\ UNCHANGED <<sweep, behind>>
    BY <1>6 DEF FileIsWritten, Ledger
  <2>2. /\ saver' \in SaverSet /\ saver'.pc = "written" /\ saver'.text = saver.text
        /\ saver.text \in TextSet
    BY <1>0, <2>1 DEF ProgressTypes, SaverSet
  <2>3. /\ progressFile' \in [kind : {"missing", "empty", "whole", "keys", "xp"}, text : TextSet]
        /\ progressFile'.text = saver.text /\ progressFile'.kind = "whole"
    BY <2>1, <2>2 DEF Whole
  <2>4. ProgressTypes'  BY <1>0, <1>1, <2>1, <2>2, <2>3 DEF ProgressTypes, coreVars
  <2>5. CoreInv'  BY <1>0, <1>1, <2>4, CoreStays
  <2>6. OffIsEmpty' /\ AllPaidOnce' /\ FilesHold'
    BY <1>0, <1>1, <2>1, <2>2, <2>3
       DEF OffIsEmpty, AllPaidOnce, FilesHold, PaidOnce, coreVars
  <2>7. MarksAreSaved'
    BY <1>0, <1>1, <1>2, <2>1, <2>2, <2>3 DEF MarksAreSaved, coreVars
  <2> QED  BY <2>4, <2>5, <2>6, <2>7, ProgressInvLater
<1> QED  BY <1>3, <1>4, <1>5, <1>6

\* What every end of a life leaves.
LEMMA EndOfLife ==
  ASSUME ProgressInv, power' = "off", MemoryIsGone, stats' = Fresh, saved' = NoneSaved,
         sweep' = "due", UNCHANGED <<typedKeys, recent, aged, behind>>,
         progressFile' = progressFile \/ /\ progressFile'.text = progressFile.text
                                         /\ progressFile'.kind \in {"keys", "xp"},
         progressFile' \in [kind : {"missing", "empty", "whole", "keys", "xp"}, text : TextSet],
         /\ power = "on"
         /\ ~behind /\ progressFile' # Empty => aged <= progressFile.text.keys
  PROVE  ProgressInv'
<1>0. ProgressTypes /\ CoreInv /\ OffIsEmpty /\ AllPaidOnce /\ FilesHold /\ MarksAreSaved
  BY ProgressInvIs
<1>1. /\ pend' = NoCount /\ hook' = "idle" /\ fold' = [f \in Folders |-> NoFold]
      /\ saver' = [pc |-> "idle"]
  BY DEF MemoryIsGone
<1>2. ProgressTypes'
  <2>1. saver' \in SaverSet  BY <1>1 DEF SaverSet
  <2>2. fold' \in [Folders -> FoldStates]  BY <1>1, FreshIs
  <2>3. saved' \in [xp : Nat, keys : Nat]  BY DEF NoneSaved
  <2> QED  BY <1>0, <1>1, <2>1, <2>2, <2>3, FreshIs DEF ProgressTypes
<1>3. CoreInv'
  <2>1. KeysCountedOnce'  BY CountedLater
  <2>2. \A f \in Folders : InPlace(fold'[f])  BY <1>1, FreshIs
  <2> QED  BY <2>1, <2>2, FreshIs DEF CoreInv, PaidOnce, LevelFits
<1>4. OffIsEmpty' /\ AllPaidOnce' /\ FilesHold'
  <2>1. saver'.pc = "idle"  BY <1>1
  <2> QED  BY <1>0, <1>1, <2>1, FreshIs DEF OffIsEmpty, AllPaidOnce, FilesHold, PaidOnce
<1>5. MarksAreSaved'
  <2>1. progressFile'.text = progressFile.text  OBVIOUS
  <2> QED  BY <1>0, <2>1 DEF MarksAreSaved
<1> QED  BY <1>2, <1>3, <1>4, <1>5, ProgressInvLater

LEMMA SaveEndsStep == ProgressInv /\ SaveEnds => ProgressInv'
<1> SUFFICES ASSUME ProgressInv, SaveEnds PROVE ProgressInv'
  OBVIOUS
<1>0. ProgressTypes /\ CoreInv /\ OffIsEmpty /\ AllPaidOnce /\ FilesHold /\ MarksAreSaved
  BY ProgressInvIs
<1>1. /\ power = "on" /\ saver.pc = "written"
      /\ UNCHANGED <<progressFile, typedKeys, recent, aged, behind>>
  BY DEF SaveEnds, Ledger
<1>2. saver.text \in TextSet /\ stats.keys \in Nat /\ stats.xp \in Nat /\ recent \in Nat
      /\ aged \in Nat /\ aged <= recent /\ recent <= stats.keys /\ aged <= stats.keys
  BY <1>0, <1>1 DEF ProgressTypes, SaverSet, TextSet, MarksAreSaved
<1>3. ~behind => progressFile.text = saver.text /\ saver.text.keys = stats.keys
  BY <1>0, <1>1 DEF MarksAreSaved, Whole
<1>4. CASE saver.why = "exit"
  <2>1. power' = "off" /\ MemoryIsGone /\ stats' = Fresh /\ saved' = NoneSaved /\ sweep' = "due"
    BY <1>4 DEF SaveEnds
  <2>2. progressFile' \in [kind : {"missing", "empty", "whole", "keys", "xp"}, text : TextSet]
    BY <1>0, <1>1 DEF ProgressTypes
  <2>3. ~behind /\ progressFile' # Empty => aged <= progressFile.text.keys
    BY <1>2, <1>3
  <2> QED  BY <1>1, <2>1, <2>2, <2>3, EndOfLife
<1>5. CASE saver.why # "exit"
  <2>1. /\ saved' = [xp |-> stats.xp, keys |-> stats.keys] /\ saver' = [pc |-> "idle"]
        /\ UNCHANGED <<pend, hook, fold, stats, told, sweep, power>>
    BY <1>5 DEF SaveEnds, SavedNumbers
  <2>2. saver' \in SaverSet /\ saver'.pc = "idle" /\ saved'.keys = stats.keys
        /\ saved' \in [xp : Nat, keys : Nat]
    BY <1>2, <2>1 DEF SaverSet
  <2>3. ProgressTypes'  BY <1>0, <1>1, <2>1, <2>2 DEF ProgressTypes
  <2>4. CoreInv'
    <3>1. UNCHANGED coreVars  BY <1>1, <2>1 DEF coreVars
    <3> QED  BY <1>0, <2>3, <3>1, CoreStays
  <2>5. OffIsEmpty' /\ AllPaidOnce' /\ FilesHold'
    BY <1>0, <1>1, <2>1, <2>2 DEF OffIsEmpty, AllPaidOnce, FilesHold, PaidOnce
  <2>6. MarksAreSaved'
    BY <1>0, <1>1, <1>2, <1>3, <2>1, <2>2 DEF MarksAreSaved
  <2> QED  BY <2>3, <2>4, <2>5, <2>6, ProgressInvLater
<1> QED  BY <1>4, <1>5

LEMMA KillStep == ProgressInv /\ Kill => ProgressInv'
<1> SUFFICES ASSUME ProgressInv, Kill PROVE ProgressInv'
  OBVIOUS
<1>0. ProgressTypes /\ CoreInv /\ OffIsEmpty /\ AllPaidOnce /\ FilesHold /\ MarksAreSaved
  BY ProgressInvIs
<1>1. /\ power = "on" /\ power' = "off" /\ MemoryIsGone /\ stats' = Fresh /\ saved' = NoneSaved
      /\ sweep' = "due" /\ UNCHANGED <<typedKeys, recent, aged, behind>>
  BY DEF Kill, Ledger
<1>2. CASE progressFile' = progressFile
  <2>1. progressFile' \in [kind : {"missing", "empty", "whole", "keys", "xp"}, text : TextSet]
    BY <1>0, <1>2 DEF ProgressTypes
  <2>2. ~behind /\ progressFile' # Empty => aged <= progressFile.text.keys
    <3> SUFFICES ASSUME ~behind, progressFile # Empty PROVE aged <= progressFile.text.keys
      BY <1>2
    <3>1. CASE saver.pc \in {"idle", "text"}  BY <1>0, <1>1, <3>1 DEF MarksAreSaved
    <3>2. CASE saver.pc = "open"  BY <1>0, <1>1, <3>2 DEF MarksAreSaved
    <3>3. CASE saver.pc = "written"
      <4>1. progressFile.text = saver.text /\ saver.text.keys = stats.keys
        BY <1>0, <1>1, <3>3 DEF MarksAreSaved, Whole
      <4>2. aged <= recent /\ recent <= stats.keys /\ aged \in Nat /\ recent \in Nat
            /\ stats.keys \in Nat
        BY <1>0, <1>1 DEF MarksAreSaved, ProgressTypes, TextSet
      <4> QED  BY <4>1, <4>2
    <3> QED  BY <1>0, <3>1, <3>2, <3>3 DEF ProgressTypes, SaverSet
  <2> QED  BY <1>1, <1>2, <2>1, <2>2, EndOfLife
<1>3. CASE /\ saver.pc = "written" /\ progressFile = Whole(saver.text)
           /\ progressFile' \in [kind : Cuts, text : {saver.text}]
  <2>1. saver.text \in TextSet  BY <1>0, <1>3 DEF ProgressTypes, SaverSet
  <2>2. /\ progressFile'.text = saver.text /\ progressFile'.kind \in {"keys", "xp"}
        /\ progressFile.text = saver.text
        /\ progressFile' \in [kind : {"missing", "empty", "whole", "keys", "xp"}, text : TextSet]
    BY <1>3, <2>1, ProgressAssumption DEF Whole
  <2>3. ~behind => aged <= progressFile.text.keys
    <3>1. aged <= recent /\ recent <= stats.keys /\ aged \in Nat /\ recent \in Nat
          /\ stats.keys \in Nat
      BY <1>0, <1>1 DEF MarksAreSaved, ProgressTypes, TextSet
    <3>2. ~behind => saver.text.keys = stats.keys  BY <1>0, <1>1, <1>3 DEF MarksAreSaved
    <3> QED  BY <2>2, <3>1, <3>2
  <2> QED  BY <1>1, <2>2, <2>3, EndOfLife
<1> QED  BY <1>2, <1>3 DEF Kill

LEMMA ReloadStep == ProgressInv /\ Reload => ProgressInv'
<1> SUFFICES ASSUME ProgressInv, Reload PROVE ProgressInv'
  OBVIOUS
<1>0. ProgressTypes /\ CoreInv /\ OffIsEmpty /\ AllPaidOnce /\ FilesHold /\ MarksAreSaved
  BY ProgressInvIs
<1> DEFINE s == loadFromFile
<1>1. /\ power = "off" /\ power' = "on" /\ stats' = s
      /\ saved' = [xp |-> s.xp, keys |-> s.keys]
      /\ typedKeys' = [keys |-> s.keys, chars |-> s.chars]
      /\ sweep' = "due" /\ behind' = FALSE /\ recent' = s.keys /\ aged' = s.keys
      /\ UNCHANGED <<pend, hook, fold, told, saver, progressFile>>
  BY DEF Reload
<1>2. /\ s \in TextSet /\ s.level = calculateLevel(s.xp) /\ s.keys = progressFile.text.keys
      /\ PaidOnce(s)
  BY <1>0, LoadIs DEF AllPaidOnce
<1> HIDE DEF s
<1>3. s.keys \in Nat /\ s.chars \in Nat /\ s.xp \in Nat  BY <1>2 DEF TextSet
<1>4. ProgressTypes'  BY <1>0, <1>1, <1>2, <1>3 DEF ProgressTypes
<1>5. /\ pend = NoCount /\ hook = "idle" /\ fold = [f \in Folders |-> NoFold]
      /\ saver.pc = "idle"
  BY <1>0, <1>1 DEF OffIsEmpty
<1>6. KeysCountedOnce'
  <2>1. Flight(fold', "keys") = 0 /\ Flight(fold', "chars") = 0  BY <1>1, <1>5, FlightNone
  <2>2. Accounted'  BY <1>1, <1>3, <1>5, <2>1 DEF Accounted, NoCount
  <2> QED  BY <2>2, CountedLater
<1>7. CoreInv' /\ OffIsEmpty' /\ AllPaidOnce' /\ FilesHold'
  BY <1>0, <1>1, <1>2, <1>5, <1>6
     DEF CoreInv, OffIsEmpty, AllPaidOnce, FilesHold, PaidOnce, LevelFits
<1>8. MarksAreSaved'
  <2>1. saved'.keys = s.keys  BY <1>1
  <2> QED  BY <1>1, <1>2, <1>3, <1>5, <2>1 DEF MarksAreSaved
<1> QED  BY <1>4, <1>7, <1>8, ProgressInvLater

\* Each step of the progression keeps the invariant.
LEMMA ProgressStepInv == ProgressInv /\ ProgressNext => ProgressInv'
BY KeyStep, TakenStep, MergeStep, RunStep, QuietStep, ResetStep, SaveStep, SaveEndsStep, KillStep,
   ReloadStep, Zenon DEF ProgressNext, flushStats

LEMMA ProgressStays == ProgressInv /\ UNCHANGED progressVars => ProgressInv'
<1> SUFFICES ASSUME ProgressInv, UNCHANGED progressVars PROVE ProgressInv'
  OBVIOUS
<1>0. ProgressTypes /\ CoreInv /\ OffIsEmpty /\ AllPaidOnce /\ FilesHold /\ MarksAreSaved
  BY ProgressInvIs
<1>1. ProgressTypes'  BY <1>0 DEF progressVars, ProgressTypes
<1>2. CoreInv'
  <2>1. UNCHANGED coreVars  BY DEF progressVars, coreVars
  <2> QED  BY <1>0, <1>1, <2>1, CoreStays
<1>3. OffIsEmpty' /\ AllPaidOnce' /\ FilesHold' /\ MarksAreSaved'
  BY <1>0 DEF progressVars, OffIsEmpty, AllPaidOnce, FilesHold, PaidOnce, MarksAreSaved
<1> QED  BY <1>1, <1>2, <1>3, ProgressInvLater

LEMMA ProgressInvIsSound == ProgressInv => ProgressSound
BY DEF ProgressInv, ProgressSound, AllPaidOnce, PaidOnce, RewardsPaidOnce

\* A restart finds what had been folded at the last mark but one.
LEMMA RestartFinds ==
  ProgressInv /\ ProgressNext =>
    (power = "off" /\ power' = "on" /\ ~behind /\ progressFile # Empty /\ ~stats'.salvaged
       => stats'.keys >= aged)
<1> SUFFICES ASSUME ProgressInv, ProgressNext, power = "off", power' = "on", ~behind,
                    progressFile # Empty, ~stats'.salvaged
             PROVE  stats'.keys >= aged
  OBVIOUS
<1>1. Reload
  BY DEF ProgressNext, KeyBegins, KeyEnds, flushStats, FlushBegins, FlushKeys, FlushBackspaces,
     FlushMerges, MayFold, recordArcadeRun, consumeLevelUp, reset, UiIsFree, SaveBegins, FileOpens,
     FileIsLocked, FileIsWritten, SaveEnds, HalfAMinute, Kill
<1>2. stats'.keys = progressFile.text.keys
  BY <1>1, LoadIs DEF Reload, ProgressInv, AllPaidOnce
<1>3. aged <= progressFile.text.keys /\ aged \in Nat /\ progressFile.text.keys \in Nat
  BY DEF ProgressInv, MarksAreSaved, ProgressTypes, TextSet
<1> QED  BY <1>2, <1>3

\* Keys counted once, rewards paid once and files that hold what was folded, for all thresholds and
\* rewards and any threads that fold (Progression.cpp, main.cpp).
THEOREM ProgressInvariant == ProgressSpec => []ProgressInv
BY InitProgress, ProgressStepInv, ProgressStays, PTL DEF ProgressSpec

(***************************************************************************)
(* The rival: the sequence lock, the readers and the purge.                *)
(***************************************************************************)
KeyNumbers == 0 .. MaxSamples
SlotSet == [seq : Nat, stamp : KeyNumbers, payload : KeyNumbers]
SampleSet == [stamp : KeyNumbers, payload : KeyNumbers]
PushSet == [pc : {"idle", "odd", "stamp", "payload", "even", "head"}, index : Nat, seq : Nat]
ReaderSet == [pc : {"idle", "first", "stamp", "payload", "second", "blend"}, index : Nat,
              total : Nat, seq : Nat, stamp : KeyNumbers, payload : KeyNumbers,
              batch : Seq(SampleSet)]
CountsSet == [keys : KeyNumbers, outs : Nat, trains : Nat, boots : Nat]

RivalTypes ==
  /\ slots \in [0 .. Capacity - 1 -> SlotSet] /\ head \in Nat /\ trained \in Nat
  /\ push \in PushSet /\ reader \in [{"ui"} -> ReaderSet] /\ counts \in CountsSet
  /\ learned \in [Keys -> Nat] /\ aiFile \in [Keys -> Nat] /\ forgotten \in SUBSET Keys
  /\ reader["ui"].pc = "idle" => reader["ui"] = IdleReader

\* A slot is being written while its number is odd.
Even(n) == n % 2 = 0
\* Stamp and payload are of one key, as far as they are written.
WholeSample(s) == s.stamp = 0 \/ s.payload = 0 \/ s.stamp = s.payload

\* The slot s under a push p of key k; a purge may have reset it at any point.
Written(s, p, k) ==
  /\ p.pc = "odd" => s.seq = p.seq \/ s.seq = 0
  /\ p.pc = "stamp" => \/ s.seq = p.seq + 1
                       \/ s.seq = 0 /\ s.stamp = 0 /\ s.payload = 0
  /\ p.pc = "payload" => /\ s.seq = p.seq + 1 \/ (s.seq = 0 /\ s.payload = 0)
                         /\ s.stamp \in {0, k}
  /\ p.pc = "even" => /\ s.seq = p.seq + 1 \/ s.seq = 0
                      /\ s.stamp \in {0, k} /\ s.payload \in {0, k}
  /\ p.pc = "head" => s.seq = p.seq + 2 \/ s.seq = 0

\* Every slot that is not being written is even, and an even one is whole.
SlotsAre ==
  /\ Even(push.seq)
  /\ push.pc # "idle" => Written(slots[Slot(push.index)], push, counts.keys)
  /\ \A i \in 0 .. Capacity - 1 :
       IF Even(slots[i].seq) THEN WholeSample(slots[i])
       ELSE push.pc \in {"stamp", "payload", "even"} /\ i = Slot(push.index)

\* What a reader holds of a slot is of the slot, as long as its number stands.
Reads(r, s) ==
  r.pc \in {"stamp", "payload", "second"} =>
    /\ Even(r.seq) /\ r.seq <= s.seq
    /\ r.seq = s.seq => /\ r.pc # "stamp" => r.stamp \in {0, s.stamp}
                        /\ r.pc = "second" => r.payload \in {0, s.payload}

ReaderIs ==
  /\ Reads(reader["ui"], slots[Slot(reader["ui"].index)])
  /\ \A i \in DOMAIN reader["ui"].batch : WholeSample(reader["ui"].batch[i])

\* Nothing of before the purge is left, until the file is read again.
Gone ==
  counts.boots = 0 =>
    /\ \A k \in forgotten : /\ k <= counts.keys /\ (push.pc # "idle" => k < counts.keys)
                            /\ learned[k] = 0
    /\ \A i \in 0 .. Capacity - 1 : slots[i].stamp \notin forgotten
    /\ reader["ui"].stamp \notin forgotten
    /\ \A i \in DOMAIN reader["ui"].batch : reader["ui"].batch[i].stamp \notin forgotten

\* The invariant of the rival.
RivalInv == RivalTypes /\ SlotsAre /\ ReaderIs /\ Gone
LEMMA SlotIs == \A n \in Nat : Slot(n) \in 0 .. Capacity - 1
BY ModRange, RivalAssumption DEF Slot

LEMMA InitRival ==
  ASSUME Trainers = {"ui"}, RivalInit
  PROVE  RivalInv
<1>1. 0 \in KeyNumbers  BY RivalAssumption DEF KeyNumbers
<1> DEFINE none == [seq |-> 0, stamp |-> 0, payload |-> 0]
<1>2. none \in SlotSet  BY <1>1 DEF SlotSet
<1>3. /\ slots = [s \in 0 .. Capacity - 1 |-> none] /\ head = 0 /\ push = IdlePush
      /\ trained = 0 /\ reader = [t \in {"ui"} |-> IdleReader]
      /\ learned = NoProfile /\ aiFile = NoProfile /\ forgotten = {}
      /\ counts = [keys |-> 0, outs |-> 0, trains |-> 0, boots |-> 0]
  BY DEF RivalInit, EmptySlots
<1>4. IdlePush \in PushSet  BY DEF IdlePush, PushSet
<1>5. IdleReader \in ReaderSet  BY <1>1 DEF IdleReader, ReaderSet
<1>6. NoProfile \in [Keys -> Nat]  BY DEF NoProfile
<1>7. counts \in CountsSet  BY <1>1, <1>3 DEF CountsSet
<1>8. RivalTypes
  <2> HIDE DEF none
  <2> QED  BY <1>2, <1>3, <1>4, <1>5, <1>6, <1>7 DEF RivalTypes
<1>9. \A i \in 0 .. Capacity - 1 : slots[i] = none  BY <1>3
<1>10. SlotsAre  BY <1>3, <1>9 DEF SlotsAre, IdlePush, Even, WholeSample
<1>11. ReaderIs  BY <1>3 DEF ReaderIs, Reads, IdleReader
<1>12. Gone  BY <1>3, <1>11 DEF Gone
<1> QED  BY <1>8, <1>10, <1>11, <1>12 DEF RivalInv

\* A store of the hook's into the slot it pushes to: the slot becomes s.
LEMMA StoreStep ==
  ASSUME RivalInv, NEW s \in SlotSet, NEW to \in {"stamp", "payload", "even", "head"},
         NEW old, old = slots[Slot(push.index)],
         push.pc # "idle", push' = [push EXCEPT !.pc = to],
         slots' = [slots EXCEPT ![Slot(push.index)] = s],
         UNCHANGED <<head, counts, optIn, trained, reader, learned, aiFile, forgotten>>,
         Written(s, [push EXCEPT !.pc = to], counts.keys),
         IF Even(s.seq) THEN WholeSample(s) ELSE to # "head",
         old.seq <= s.seq,
         Even(s.seq) /\ s.seq = old.seq =>
           old.stamp \in {0, s.stamp} /\ old.payload \in {0, s.payload},
         s.stamp \in {old.stamp, counts.keys}
  PROVE  RivalInv'
<1> DEFINE n == Slot(push.index)
<1>1. RivalTypes /\ SlotsAre /\ ReaderIs /\ Gone  BY DEF RivalInv
<1>2. /\ slots \in [0 .. Capacity - 1 -> SlotSet] /\ push \in PushSet
      /\ reader \in [{"ui"} -> ReaderSet] /\ counts \in CountsSet
      /\ forgotten \in SUBSET Keys
  BY <1>1 DEF RivalTypes
<1>3. push.index \in Nat /\ push.seq \in Nat  BY <1>2 DEF PushSet
<1>4. n \in 0 .. Capacity - 1  BY <1>3, SlotIs
<1>5. push' \in PushSet /\ push'.pc = to /\ push'.index = push.index /\ push'.seq = push.seq
  BY <1>2 DEF PushSet
<1>6. Slot(push'.index) = n  BY <1>5
<1>7. slots'[n] = s /\ \A i \in (0 .. Capacity - 1) \ {n} : slots'[i] = slots[i]
  BY <1>2, <1>4
<1>8. slots' \in [0 .. Capacity - 1 -> SlotSet]  BY <1>2, <1>4
<1>9. RivalTypes'  BY <1>1, <1>5, <1>8 DEF RivalTypes
<1>10. SlotsAre'
  <2>1. Even(push'.seq)  BY <1>1, <1>5 DEF SlotsAre
  <2>2. Written(slots'[Slot(push'.index)], push', counts'.keys)  BY <1>6, <1>7
  <2>3. ASSUME NEW i \in 0 .. Capacity - 1
        PROVE  IF Even(slots'[i].seq) THEN WholeSample(slots'[i])
               ELSE push'.pc \in {"stamp", "payload", "even"} /\ i = Slot(push'.index)
    <3>1. CASE i = n  BY <1>5, <1>6, <1>7, <3>1
    <3>2. CASE i # n
      <4>1. slots'[i] = slots[i]  BY <1>7, <3>2
      <4>2. Even(slots[i].seq) /\ WholeSample(slots[i])  BY <1>1, <3>2 DEF SlotsAre
      <4> QED  BY <4>1, <4>2
    <3> QED  BY <3>1, <3>2
  <2> QED  BY <2>1, <2>2, <2>3 DEF SlotsAre
<1> DEFINE r == reader["ui"]
<1>11. r \in ReaderSet /\ reader' = reader  BY <1>2
<1>12. ReaderIs'
  <2>1. Slot(r.index) \in 0 .. Capacity - 1  BY <1>11, SlotIs DEF ReaderSet
  <2>2. Reads(r, slots[Slot(r.index)])  BY <1>1 DEF ReaderIs
  <2>3. Reads(r, slots'[Slot(r.index)])
    <3>1. CASE Slot(r.index) # n  BY <1>7, <2>1, <2>2, <3>1
    <3>2. CASE Slot(r.index) = n
      <4>1. slots'[Slot(r.index)] = s /\ slots[Slot(r.index)] = old  BY <1>7, <3>2
      <4>2. old \in SlotSet  BY <1>2, <1>4
      <4>3. Reads(r, old)  BY <2>2, <4>1
      <4>4. Reads(r, s)
        <5> HIDE DEF r
        <5> QED  BY <1>11, <4>2, <4>3 DEF Reads, SlotSet, ReaderSet
      <4> QED  BY <4>1, <4>4
    <3> QED  BY <3>1, <3>2
  <2> QED  BY <1>1, <1>11, <2>3 DEF ReaderIs
<1>13. Gone'
  <2> SUFFICES ASSUME counts.boots = 0 PROVE Gone'  BY DEF Gone
  <2>1. /\ \A k \in forgotten : k <= counts.keys /\ k < counts.keys /\ learned[k] = 0
        /\ \A i \in 0 .. Capacity - 1 : slots[i].stamp \notin forgotten
        /\ reader["ui"].stamp \notin forgotten
        /\ \A i \in DOMAIN reader["ui"].batch : reader["ui"].batch[i].stamp \notin forgotten
    BY <1>1 DEF Gone
  <2>2. counts.keys \notin forgotten
    <3>1. counts.keys \in Nat  BY <1>2 DEF CountsSet, KeyNumbers
    <3> QED  BY <2>1, <3>1
  <2>3. \A i \in 0 .. Capacity - 1 : slots'[i].stamp \notin forgotten
    BY <1>4, <1>7, <2>1, <2>2
  <2> QED  BY <2>1, <2>3 DEF Gone
<1> QED  BY <1>9, <1>10, <1>12, <1>13 DEF RivalInv

LEMMA StoredStep ==
  ASSUME RivalInv, PushOdd \/ PushStamp \/ PushPayload \/ PushEven
  PROVE  RivalInv'
<1> DEFINE old == slots[Slot(push.index)]
           k == counts.keys
<1>1. RivalTypes /\ SlotsAre  BY DEF RivalInv
<1>2. slots \in [0 .. Capacity - 1 -> SlotSet] /\ push \in PushSet /\ counts \in CountsSet
  BY <1>1 DEF RivalTypes
<1>3. push.index \in Nat /\ push.seq \in Nat  BY <1>2 DEF PushSet
<1>4. Slot(push.index) \in 0 .. Capacity - 1  BY <1>3, SlotIs
<1>5. old \in SlotSet  BY <1>2, <1>4
<1>6. old.seq \in Nat /\ old.stamp \in KeyNumbers /\ old.payload \in KeyNumbers  BY <1>5 DEF SlotSet
<1>7. k \in KeyNumbers  BY <1>2 DEF CountsSet
<1>8. Even(push.seq)  BY <1>1 DEF SlotsAre
<1>9. push.pc # "idle" => Written(old, push, k)  BY <1>1 DEF SlotsAre
<1>10. IF Even(old.seq) THEN WholeSample(old) ELSE push.pc \in {"stamp", "payload", "even"}
  BY <1>1, <1>4 DEF SlotsAre
<1>11. UNCHANGED <<head, counts, optIn, trained, reader, learned, aiFile, forgotten>>
  BY DEF PushOdd, PushStamp, PushPayload, PushEven, OthersWait
<1>16. old = slots[Slot(push.index)] /\ k = counts.keys  OBVIOUS
<1> HIDE DEF old, k
<1>12. CASE PushOdd
  <2> DEFINE s == [old EXCEPT !.seq = push.seq + 1]
  <2>1. /\ push.pc = "odd" /\ push' = [push EXCEPT !.pc = "stamp"]
        /\ slots' = [slots EXCEPT ![Slot(push.index)] = s]
    BY <1>12 DEF PushOdd, PushStep, Stored, old
  <2>2. /\ s \in SlotSet /\ s.seq = push.seq + 1 /\ s.stamp = old.stamp
        /\ s.payload = old.payload
    BY <1>3, <1>5 DEF SlotSet
  <2> HIDE DEF s
  <2>3. old.seq = push.seq \/ old.seq = 0  BY <1>9, <2>1 DEF Written
  <2>4. ~Even(s.seq) /\ old.seq < s.seq  BY <1>3, <1>6, <1>8, <2>2, <2>3 DEF Even
  <2>5. Written(s, [push EXCEPT !.pc = "stamp"], k)  BY <1>2, <2>2 DEF Written, PushSet
  <2> QED
    <3> DEFINE to == "stamp"
    <3>1. to \in {"stamp", "payload", "even", "head"} /\ push.pc # "idle"  BY <2>1
    <3>2. Written(s, [push EXCEPT !.pc = to], counts.keys)  BY <1>16, <2>2, <2>4, <2>5
    <3>3. IF Even(s.seq) THEN WholeSample(s) ELSE to # "head"  BY <2>2, <2>4, <2>5
    <3>4. old.seq <= s.seq /\ s.stamp \in {old.stamp, counts.keys}
      BY <1>3, <1>6, <1>16, <2>2, <2>4, <2>5
    <3>5. Even(s.seq) /\ s.seq = old.seq =>
            old.stamp \in {0, s.stamp} /\ old.payload \in {0, s.payload}
      BY <1>3, <1>6, <2>2, <2>4, <2>5
    <3> HIDE DEF to
    <3> QED  BY <1>11, <1>16, <2>1, <2>2, <3>1, <3>2, <3>3, <3>4, <3>5, StoreStep, Zenon DEF to
<1>13. CASE PushStamp
  <2> DEFINE s == [old EXCEPT !.stamp = k]
  <2>1. /\ push.pc = "stamp" /\ push' = [push EXCEPT !.pc = "payload"]
        /\ slots' = [slots EXCEPT ![Slot(push.index)] = s]
    BY <1>13 DEF PushStamp, PushStep, Stored, old, k
  <2>2. /\ s \in SlotSet /\ s.seq = old.seq /\ s.stamp = k /\ s.payload = old.payload
    BY <1>5, <1>7 DEF SlotSet
  <2> HIDE DEF s
  <2>3. \/ old.seq = push.seq + 1
        \/ old.seq = 0 /\ old.stamp = 0 /\ old.payload = 0
    BY <1>9, <2>1 DEF Written
  <2>4. Even(s.seq) => old.stamp = 0 /\ old.payload = 0
    BY <1>3, <1>8, <2>2, <2>3 DEF Even
  <2>5. IF Even(s.seq) THEN WholeSample(s) ELSE TRUE  BY <2>2, <2>4 DEF WholeSample
  <2>6. Written(s, [push EXCEPT !.pc = "payload"], k)
    BY <1>2, <2>2, <2>3 DEF Written, PushSet
  <2> QED
    <3> DEFINE to == "payload"
    <3>1. to \in {"stamp", "payload", "even", "head"} /\ push.pc # "idle"  BY <2>1
    <3>2. Written(s, [push EXCEPT !.pc = to], counts.keys)  BY <1>16, <2>2, <2>5, <2>6
    <3>3. IF Even(s.seq) THEN WholeSample(s) ELSE to # "head"  BY <2>2, <2>5, <2>6
    <3>4. old.seq <= s.seq /\ s.stamp \in {old.stamp, counts.keys}
      BY <1>3, <1>6, <1>16, <2>2, <2>5, <2>6
    <3>5. Even(s.seq) /\ s.seq = old.seq =>
            old.stamp \in {0, s.stamp} /\ old.payload \in {0, s.payload}
      BY <1>3, <1>6, <2>2, <2>4, <2>5, <2>6
    <3> HIDE DEF to
    <3> QED  BY <1>11, <1>16, <2>1, <2>2, <3>1, <3>2, <3>3, <3>4, <3>5, StoreStep, Zenon DEF to
<1>14. CASE PushPayload
  <2> DEFINE s == [old EXCEPT !.payload = k]
  <2>1. /\ push.pc = "payload" /\ push' = [push EXCEPT !.pc = "even"]
        /\ slots' = [slots EXCEPT ![Slot(push.index)] = s]
    BY <1>14 DEF PushPayload, PushStep, Stored, old, k
  <2>2. /\ s \in SlotSet /\ s.seq = old.seq /\ s.stamp = old.stamp /\ s.payload = k
    BY <1>5, <1>7 DEF SlotSet
  <2> HIDE DEF s
  <2>3. /\ old.seq = push.seq + 1 \/ (old.seq = 0 /\ old.payload = 0)
        /\ old.stamp \in {0, k}
    BY <1>9, <2>1 DEF Written
  <2>4. Even(s.seq) => old.payload = 0  BY <1>3, <1>8, <2>2, <2>3 DEF Even
  <2>5. WholeSample(s)  BY <2>2, <2>3 DEF WholeSample
  <2>6. Written(s, [push EXCEPT !.pc = "even"], k)
    BY <1>2, <2>2, <2>3 DEF Written, PushSet
  <2> QED
    <3> DEFINE to == "even"
    <3>1. to \in {"stamp", "payload", "even", "head"} /\ push.pc # "idle"  BY <2>1
    <3>2. Written(s, [push EXCEPT !.pc = to], counts.keys)  BY <1>16, <2>2, <2>4, <2>5, <2>6
    <3>3. IF Even(s.seq) THEN WholeSample(s) ELSE to # "head"  BY <2>2, <2>4, <2>5, <2>6
    <3>4. old.seq <= s.seq /\ s.stamp \in {old.stamp, counts.keys}
      BY <1>3, <1>6, <1>16, <2>2, <2>4, <2>5, <2>6
    <3>5. Even(s.seq) /\ s.seq = old.seq =>
            old.stamp \in {0, s.stamp} /\ old.payload \in {0, s.payload}
      BY <1>3, <1>6, <2>2, <2>4, <2>5, <2>6
    <3> HIDE DEF to
    <3> QED  BY <1>11, <1>16, <2>1, <2>2, <3>1, <3>2, <3>3, <3>4, <3>5, StoreStep, Zenon DEF to
<1>15. CASE PushEven
  <2> DEFINE s == [old EXCEPT !.seq = push.seq + 2]
  <2>1. /\ push.pc = "even" /\ push' = [push EXCEPT !.pc = "head"]
        /\ slots' = [slots EXCEPT ![Slot(push.index)] = s]
    BY <1>15 DEF PushEven, PushStep, Stored, old
  <2>2. /\ s \in SlotSet /\ s.seq = push.seq + 2 /\ s.stamp = old.stamp
        /\ s.payload = old.payload
    BY <1>3, <1>5 DEF SlotSet
  <2> HIDE DEF s
  <2>3. /\ old.seq = push.seq + 1 \/ old.seq = 0
        /\ old.stamp \in {0, k} /\ old.payload \in {0, k}
    BY <1>9, <2>1 DEF Written
  <2>4. Even(s.seq) /\ old.seq < s.seq  BY <1>3, <1>6, <1>8, <2>2, <2>3 DEF Even
  <2>5. WholeSample(s)  BY <2>2, <2>3 DEF WholeSample
  <2>6. Written(s, [push EXCEPT !.pc = "head"], k)  BY <1>2, <2>2 DEF Written, PushSet
  <2> QED
    <3> DEFINE to == "head"
    <3>1. to \in {"stamp", "payload", "even", "head"} /\ push.pc # "idle"  BY <2>1
    <3>2. Written(s, [push EXCEPT !.pc = to], counts.keys)  BY <1>16, <2>2, <2>4, <2>5, <2>6
    <3>3. IF Even(s.seq) THEN WholeSample(s) ELSE to # "head"  BY <2>2, <2>4, <2>5, <2>6
    <3>4. old.seq <= s.seq /\ s.stamp \in {old.stamp, counts.keys}
      BY <1>3, <1>6, <1>16, <2>2, <2>4, <2>5, <2>6
    <3>5. Even(s.seq) /\ s.seq = old.seq =>
            old.stamp \in {0, s.stamp} /\ old.payload \in {0, s.payload}
      BY <1>3, <1>6, <2>2, <2>4, <2>5, <2>6
    <3> HIDE DEF to
    <3> QED  BY <1>11, <1>16, <2>1, <2>2, <3>1, <3>2, <3>3, <3>4, <3>5, StoreStep, Zenon DEF to
<1> QED  BY <1>12, <1>13, <1>14, <1>15

LEMMA KeyPushed ==
  ASSUME RivalInv, observeKeystroke
  PROVE  RivalInv'
<1>1. RivalTypes /\ SlotsAre /\ ReaderIs /\ Gone  BY DEF RivalInv
<1> DEFINE q == slots[Slot(head)].seq
<1>2. /\ push.pc = "idle" /\ counts.keys < MaxSamples
      /\ counts' = [counts EXCEPT !.keys = @ + 1]
      /\ push' = [pc |-> "odd", index |-> head, seq |-> q]
      /\ UNCHANGED <<slots, head, trained, reader, learned, aiFile, forgotten>>
  BY DEF observeKeystroke, OthersWait
<1>3. Slot(head) \in 0 .. Capacity - 1 /\ head \in Nat  BY <1>1, SlotIs DEF RivalTypes
<1>4. q \in Nat /\ Even(q)
  BY <1>1, <1>2, <1>3 DEF RivalTypes, SlotSet, SlotsAre
<1>5. /\ counts' \in CountsSet /\ counts'.keys = counts.keys + 1
      /\ counts'.boots = counts.boots
  <2> DEFINE n == counts.keys + 1
  <2>1. counts \in CountsSet  BY <1>1 DEF RivalTypes
  <2>2. n \in KeyNumbers  BY <1>2, <2>1, RivalAssumption DEF CountsSet, KeyNumbers
  <2>3. counts' = [counts EXCEPT !.keys = n]  BY <1>2
  <2> HIDE DEF n
  <2>4. counts' \in CountsSet /\ counts'.keys = n /\ counts'.boots = counts.boots
    BY <2>1, <2>2, <2>3 DEF CountsSet
  <2> QED  BY <2>4 DEF n
<1>6. slots[Slot(head)].seq = q  OBVIOUS
<1> HIDE DEF q
<1>7. push' \in PushSet /\ push'.pc = "odd" /\ push'.index = head /\ push'.seq = q
  BY <1>2, <1>3, <1>4 DEF PushSet
<1>8. RivalTypes'  BY <1>1, <1>2, <1>5, <1>7 DEF RivalTypes
<1>9. SlotsAre'  BY <1>1, <1>2, <1>4, <1>6, <1>7 DEF SlotsAre, Written
<1>10. ReaderIs'  BY <1>1, <1>2 DEF ReaderIs
<1>11. Gone'
  <2>1. counts.keys \in Nat  BY <1>1 DEF RivalTypes, CountsSet, KeyNumbers
  <2>2. forgotten \subseteq Nat  BY <1>1 DEF RivalTypes, Keys
  <2> QED  BY <1>1, <1>2, <1>5, <2>1, <2>2 DEF Gone
<1> QED  BY <1>8, <1>9, <1>10, <1>11 DEF RivalInv

LEMMA HeadStep ==
  ASSUME RivalInv, PushHead
  PROVE  RivalInv'
<1>1. RivalTypes /\ SlotsAre /\ ReaderIs /\ Gone  BY DEF RivalInv
<1>2. /\ push.pc = "head" /\ push' = [push EXCEPT !.pc = "idle"] /\ head' = push.index + 1
      /\ UNCHANGED <<slots, counts, trained, reader, learned, aiFile, forgotten>>
  BY DEF PushHead, PushStep, OthersWait
<1>3. push \in PushSet  BY <1>1 DEF RivalTypes
<1>4. /\ push' \in PushSet /\ push'.pc = "idle" /\ push'.seq = push.seq
      /\ push.index \in Nat
  BY <1>2, <1>3 DEF PushSet
<1>5. RivalTypes'  BY <1>1, <1>2, <1>4 DEF RivalTypes
<1>6. SlotsAre'  BY <1>1, <1>2, <1>4 DEF SlotsAre
<1>7. ReaderIs'  BY <1>1, <1>2 DEF ReaderIs
<1>8. Gone'  BY <1>1, <1>2, <1>4 DEF Gone
<1> QED  BY <1>5, <1>6, <1>7, <1>8 DEF RivalInv

\* A step of the reader to r, which reads what it should and holds nothing forgotten.
LEMMA ReaderGoes ==
  ASSUME RivalInv, Trainers = {"ui"}, NEW r \in ReaderSet,
         reader' = [reader EXCEPT !["ui"] = r], r.pc # "idle",
         UNCHANGED <<slots, head, push, aiFile, forgotten, learned>>,
         trained' \in {trained, head},
         counts' \in CountsSet, counts'.keys = counts.keys, counts'.boots = counts.boots,
         Reads(r, slots[Slot(r.index)]),
         \A i \in DOMAIN r.batch : WholeSample(r.batch[i]),
         counts.boots = 0 => /\ r.stamp \notin forgotten
                            /\ \A i \in DOMAIN r.batch : r.batch[i].stamp \notin forgotten
  PROVE  RivalInv'
<1>1. RivalTypes /\ SlotsAre /\ ReaderIs /\ Gone  BY DEF RivalInv
<1>2. reader' \in [{"ui"} -> ReaderSet] /\ reader'["ui"] = r  BY <1>1 DEF RivalTypes
<1>3. RivalTypes'  BY <1>1, <1>2 DEF RivalTypes
<1>4. SlotsAre'  BY <1>1 DEF SlotsAre
<1>5. ReaderIs'  BY <1>2 DEF ReaderIs
<1>6. Gone'  BY <1>1, <1>2 DEF Gone
<1> QED  BY <1>3, <1>4, <1>5, <1>6 DEF RivalInv

\* The next sample, or the end of the batch.
LEMMA NextIs ==
  ASSUME NEW r \in ReaderSet
  PROVE  /\ NextIndex(r) \in ReaderSet /\ NextIndex(r).pc \in {"first", "blend"}
         /\ NextIndex(r).stamp = r.stamp /\ NextIndex(r).batch = r.batch
<1>1. CASE r.index + 1 < r.total
  <2> DEFINE n == r.index + 1
  <2>1. NextIndex(r) = [r EXCEPT !.pc = "first", !.index = n]  BY <1>1 DEF NextIndex
  <2>2. n \in Nat  BY DEF ReaderSet
  <2> HIDE DEF n
  <2> QED  BY <2>1, <2>2 DEF ReaderSet
<1>2. CASE ~(r.index + 1 < r.total)
  <2>1. NextIndex(r) = [r EXCEPT !.pc = "blend"]  BY <1>2 DEF NextIndex
  <2> QED  BY <2>1 DEF ReaderSet
<1> QED  BY <1>1, <1>2

LEMMA TrainStep ==
  ASSUME RivalInv, Trainers = {"ui"}, trainBatch("ui")
  PROVE  RivalInv'
<1>1. RivalTypes /\ SlotsAre /\ ReaderIs /\ Gone  BY DEF RivalInv
<1> DEFINE f == IF trained < Oldest THEN Oldest ELSE trained
           r == [IdleReader EXCEPT !.pc = "first", !.index = f, !.total = head]
<1>2. /\ counts' = [counts EXCEPT !.trains = @ + 1] /\ trained' = head
      /\ reader' = [reader EXCEPT !["ui"] = r]
      /\ UNCHANGED <<slots, head, push, aiFile, forgotten, learned>>
  BY DEF trainBatch, HookWaits
<1>3. f \in Nat /\ head \in Nat
  <2>1. head \in Nat /\ trained \in Nat  BY <1>1 DEF RivalTypes
  <2>2. Oldest \in Nat  BY <2>1, RivalAssumption DEF Oldest
  <2> QED  BY <2>1, <2>2
<1> HIDE DEF f
<1>4. 0 \in KeyNumbers  BY RivalAssumption DEF KeyNumbers
<1>5. r \in ReaderSet /\ r.pc = "first" /\ r.stamp = 0 /\ r.batch = <<>>
  <2>1. IdleReader \in ReaderSet /\ IdleReader.stamp = 0 /\ IdleReader.batch = <<>>
    BY <1>4 DEF IdleReader, ReaderSet
  <2> QED  BY <1>3, <2>1 DEF ReaderSet
<1> HIDE DEF r
<1>6. /\ counts' \in CountsSet /\ counts'.keys = counts.keys
      /\ counts'.boots = counts.boots
  BY <1>1, <1>2 DEF RivalTypes, CountsSet
<1>7. 0 \notin forgotten  BY <1>1 DEF RivalTypes, Keys
<1>8. Reads(r, slots[Slot(r.index)])  BY <1>5 DEF Reads
<1>9. /\ \A i \in DOMAIN r.batch : WholeSample(r.batch[i])
      /\ counts.boots = 0 =>
           /\ r.stamp \notin forgotten
           /\ \A i \in DOMAIN r.batch : r.batch[i].stamp \notin forgotten
  <2>1. DOMAIN r.batch = {}  BY <1>5
  <2> QED  BY <1>5, <1>7, <2>1
<1>10. r.pc # "idle" /\ trained' \in {trained, head}  BY <1>2, <1>5
<1> QED  BY <1>2, <1>5, <1>6, <1>8, <1>9, <1>10, ReaderGoes, Zenon

\* What a reader finds is in a slot.
LEMMA ReadSlot ==
  ASSUME RivalInv
  PROVE  /\ reader["ui"] \in ReaderSet
         /\ slots[Slot(reader["ui"].index)] \in SlotSet
         /\ Slot(reader["ui"].index) \in 0 .. Capacity - 1
<1>1. RivalTypes  BY DEF RivalInv
<1>2. reader["ui"] \in ReaderSet  BY <1>1 DEF RivalTypes
<1>3. reader["ui"].index \in Nat  BY <1>2 DEF ReaderSet
<1>4. Slot(reader["ui"].index) \in 0 .. Capacity - 1  BY <1>3, SlotIs
<1> QED  BY <1>1, <1>2, <1>4 DEF RivalTypes

LEMMA ReadStep ==
  ASSUME RivalInv, Trainers = {"ui"},
         ReadFirst("ui") \/ ReadStamp("ui") \/ ReadPayload("ui") \/ ReadSecond("ui")
  PROVE  RivalInv'
<1>1. RivalTypes /\ SlotsAre /\ ReaderIs /\ Gone  BY DEF RivalInv
<1> DEFINE r == reader["ui"]
           s == slots[Slot(r.index)]
<1>2. r \in ReaderSet /\ s \in SlotSet /\ Slot(r.index) \in 0 .. Capacity - 1
  BY ReadSlot
<1>3. /\ Reads(r, s) /\ \A i \in DOMAIN r.batch : WholeSample(r.batch[i])
  BY <1>1 DEF ReaderIs
<1>4. counts.boots = 0 =>
        /\ r.stamp \notin forgotten /\ s.stamp \notin forgotten
        /\ \A i \in DOMAIN r.batch : r.batch[i].stamp \notin forgotten
  BY <1>1, <1>2 DEF Gone
<1>5. Even(s.seq) => WholeSample(s)  BY <1>1, <1>2 DEF SlotsAre
<1>6. /\ UNCHANGED <<slots, head, push, aiFile, forgotten, learned, trained, counts>>
  BY DEF ReadFirst, ReadStamp, ReadPayload, ReadSecond, ReaderStep, HookWaits
<1>7. counts \in CountsSet  BY <1>1 DEF RivalTypes
<1>8. r.index \in Nat /\ r.seq \in Nat /\ r.stamp \in KeyNumbers /\ r.payload \in KeyNumbers
      /\ r.batch \in Seq(SampleSet)
  BY <1>2 DEF ReaderSet
<1>9. s.seq \in Nat /\ s.stamp \in KeyNumbers /\ s.payload \in KeyNumbers  BY <1>2 DEF SlotSet
<1>10. \A n : /\ n \in ReaderSet /\ n.pc # "idle" /\ reader' = [reader EXCEPT !["ui"] = n]
              /\ Reads(n, slots[Slot(n.index)])
              /\ \A i \in DOMAIN n.batch : WholeSample(n.batch[i])
              /\ counts.boots = 0 =>
                   /\ n.stamp \notin forgotten
                   /\ \A i \in DOMAIN n.batch : n.batch[i].stamp \notin forgotten
              => RivalInv'
  BY <1>6, <1>7, ReaderGoes
<1>11. CASE ReadFirst("ui")
  <2>1. r.pc = "first" /\ reader' = [reader EXCEPT !["ui"] =
          IF s.seq % 2 = 1 THEN NextIndex(r) ELSE [r EXCEPT !.pc = "stamp", !.seq = s.seq]]
    BY <1>11 DEF ReadFirst, ReaderStep
  <2>2. CASE s.seq % 2 = 1
    <3> DEFINE n == NextIndex(r)
    <3>1. reader' = [reader EXCEPT !["ui"] = n]  BY <2>1, <2>2
    <3>2. /\ n \in ReaderSet /\ n.pc \in {"first", "blend"}
          /\ n.stamp = r.stamp /\ n.batch = r.batch
      BY <1>2, NextIs
    <3> HIDE DEF n
    <3>3. Reads(n, slots[Slot(n.index)])  BY <3>2 DEF Reads
    <3> QED  BY <1>3, <1>4, <1>10, <3>1, <3>2, <3>3
  <2>3. CASE s.seq % 2 # 1
    <3> DEFINE n == [r EXCEPT !.pc = "stamp", !.seq = s.seq]
    <3>1. reader' = [reader EXCEPT !["ui"] = n]  BY <2>1, <2>3
    <3>2. /\ n \in ReaderSet /\ n.pc = "stamp" /\ n.seq = s.seq /\ n.index = r.index
          /\ n.stamp = r.stamp /\ n.batch = r.batch
      <4> HIDE DEF r, s
      <4> QED  BY <1>2, <1>9 DEF ReaderSet
    <3> HIDE DEF n
    <3>3. Even(s.seq)  BY <1>9, <2>3 DEF Even
    <3>4. slots[Slot(n.index)] = s  BY <3>2
    <3>5. Reads(n, s)  BY <1>9, <3>2, <3>3 DEF Reads
    <3> QED  BY <1>3, <1>4, <1>10, <3>1, <3>2, <3>4, <3>5
  <2> QED  BY <2>2, <2>3
<1>12. CASE ReadStamp("ui")
  <2> DEFINE n == [r EXCEPT !.pc = "payload", !.stamp = s.stamp]
  <2>1. r.pc = "stamp" /\ reader' = [reader EXCEPT !["ui"] = n]
    BY <1>12 DEF ReadStamp, ReaderStep
  <2>2. /\ n \in ReaderSet /\ n.pc = "payload" /\ n.seq = r.seq /\ n.index = r.index
        /\ n.stamp = s.stamp /\ n.batch = r.batch
    <3> HIDE DEF r, s
    <3> QED  BY <1>2, <1>9 DEF ReaderSet
  <2> HIDE DEF n
  <2>3. slots[Slot(n.index)] = s  BY <2>2
  <2>4. Reads(n, s)  BY <1>3, <2>1, <2>2 DEF Reads
  <2> QED  BY <1>3, <1>4, <1>10, <2>1, <2>2, <2>3, <2>4
<1>13. CASE ReadPayload("ui")
  <2> DEFINE n == [r EXCEPT !.pc = "second", !.payload = s.payload]
  <2>1. r.pc = "payload" /\ reader' = [reader EXCEPT !["ui"] = n]
    BY <1>13 DEF ReadPayload, ReaderStep
  <2>2. /\ n \in ReaderSet /\ n.pc = "second" /\ n.seq = r.seq /\ n.index = r.index
        /\ n.stamp = r.stamp /\ n.payload = s.payload /\ n.batch = r.batch
    <3> HIDE DEF r, s
    <3> QED  BY <1>2, <1>9 DEF ReaderSet
  <2> HIDE DEF n
  <2>3. slots[Slot(n.index)] = s  BY <2>2
  <2>4. Reads(n, s)  BY <1>3, <2>1, <2>2 DEF Reads
  <2> QED  BY <1>3, <1>4, <1>10, <2>1, <2>2, <2>3, <2>4
<1>14. CASE ReadSecond("ui")
  <2> DEFINE e == [stamp |-> r.stamp, payload |-> r.payload]
             m == IF r.seq = s.seq THEN [r EXCEPT !.batch = Append(@, e)] ELSE r
             n == NextIndex(m)
  <2>1. r.pc = "second" /\ reader' = [reader EXCEPT !["ui"] = n]
    BY <1>14 DEF ReadSecond, ReaderStep, UnchangedSince
  <2>2. e \in SampleSet /\ e.stamp = r.stamp /\ e.payload = r.payload
    BY <1>8 DEF SampleSet
  <2>3. /\ m \in ReaderSet /\ m.stamp = r.stamp
        /\ m.batch = IF r.seq = s.seq THEN Append(r.batch, e) ELSE r.batch
    <3>1. CASE r.seq = s.seq
      <4> DEFINE b == Append(r.batch, e)
      <4>1. m = [r EXCEPT !.batch = b]  BY <3>1
      <4>2. b \in Seq(SampleSet)  BY <1>8, <2>2
      <4> HIDE DEF b, m, r
      <4>3. m \in ReaderSet /\ m.stamp = r.stamp /\ m.batch = b
        BY <1>2, <4>1, <4>2 DEF ReaderSet
      <4> QED  BY <3>1, <4>3 DEF b
    <3>2. CASE r.seq # s.seq
      <4>1. m = r  BY <3>2
      <4> QED  BY <1>2, <3>2, <4>1
    <3> QED  BY <3>1, <3>2
  <2>4. r.seq = s.seq => WholeSample(e) /\ (counts.boots = 0 => e.stamp \notin forgotten)
    <3> SUFFICES ASSUME r.seq = s.seq
                 PROVE  WholeSample(e) /\ (counts.boots = 0 => e.stamp \notin forgotten)
      OBVIOUS
    <3>1. Even(r.seq) /\ r.stamp \in {0, s.stamp} /\ r.payload \in {0, s.payload}
      BY <1>3, <2>1 DEF Reads
    <3>2. WholeSample(s)  BY <1>5, <3>1
    <3>3. WholeSample(e)  BY <2>2, <3>1, <3>2 DEF WholeSample
    <3> QED  BY <1>4, <2>2, <3>3
  <2>5. \A i \in DOMAIN m.batch :
          /\ WholeSample(m.batch[i]) /\ (counts.boots = 0 => m.batch[i].stamp \notin forgotten)
    <3>1. CASE r.seq # s.seq  BY <1>3, <1>4, <2>3, <3>1
    <3>2. CASE r.seq = s.seq
      <4>1. m.batch = Append(r.batch, e)  BY <2>3, <3>2
      <4>2. \A i \in DOMAIN r.batch :
              /\ WholeSample(r.batch[i]) /\ (counts.boots = 0 => r.batch[i].stamp \notin forgotten)
        BY <1>3, <1>4
      <4>3. WholeSample(e) /\ (counts.boots = 0 => e.stamp \notin forgotten)  BY <2>4, <3>2
      <4>4. \A i \in DOMAIN Append(r.batch, e) :
              \/ i \in DOMAIN r.batch /\ Append(r.batch, e)[i] = r.batch[i]
              \/ Append(r.batch, e)[i] = e
        <5> HIDE DEF e
        <5> QED  BY <1>8, <2>2
      <4> HIDE DEF e, m, r
      <4> QED  BY <4>1, <4>2, <4>3, <4>4
    <3> QED  BY <3>1, <3>2
  <2> HIDE DEF m
  <2>6. /\ n \in ReaderSet /\ n.pc \in {"first", "blend"}
        /\ n.stamp = m.stamp /\ n.batch = m.batch
    BY <2>3, NextIs
  <2> HIDE DEF n
  <2>7. Reads(n, slots[Slot(n.index)])  BY <2>6 DEF Reads
  <2> QED  BY <1>4, <1>10, <2>1, <2>3, <2>5, <2>6, <2>7
<1> QED  BY <1>11, <1>12, <1>13, <1>14

\* How often a batch holds a key.
LEMMA TimesIs ==
  ASSUME NEW b \in Seq(SampleSet), NEW k
  PROVE  /\ Times(b, k) \in Nat
         /\ (\A i \in DOMAIN b : b[i].stamp # k) => Times(b, k) = 0
<1> DEFINE places == {i \in DOMAIN b : b[i].stamp = k}
<1>1. IsFiniteSet(1 .. Len(b)) /\ DOMAIN b = 1 .. Len(b)
  BY FS_Interval
<1>2. IsFiniteSet(places)  BY <1>1, FS_Subset
<1>3. Cardinality(places) \in Nat  BY <1>2, FS_CardinalityType
<1>4. (\A i \in DOMAIN b : b[i].stamp # k) => places = {}  OBVIOUS
<1>5. Cardinality({}) = 0  BY FS_EmptySet
<1>6. Times(b, k) = Cardinality(places)  BY DEF Times
<1> HIDE DEF places
<1> QED  BY <1>3, <1>4, <1>5, <1>6

LEMMA BlendStep ==
  ASSUME RivalInv, Trainers = {"ui"}, Blend("ui")
  PROVE  RivalInv'
<1>1. RivalTypes /\ SlotsAre /\ ReaderIs /\ Gone  BY DEF RivalInv
<1> DEFINE b == reader["ui"].batch
           fitted == [k \in Keys |-> learned[k] + Times(b, k)]
<1>2. /\ learned' = learned \/ learned' = fitted
      /\ reader' = [reader EXCEPT !["ui"] = IdleReader]
      /\ UNCHANGED <<slots, head, push, aiFile, forgotten, trained, counts>>
  BY DEF Blend, HookWaits
<1>3. b \in Seq(SampleSet)  BY ReadSlot DEF ReaderSet
<1>4. \A k \in Keys : Times(b, k) \in Nat  BY <1>3, TimesIs
<1>5. learned \in [Keys -> Nat]  BY <1>1 DEF RivalTypes
<1>6. fitted \in [Keys -> Nat]
  <2>1. \A k \in Keys : learned[k] + Times(b, k) \in Nat  BY <1>4, <1>5
  <2> HIDE DEF b
  <2> QED  BY <2>1
<1>7. 0 \in KeyNumbers  BY RivalAssumption DEF KeyNumbers
<1>8. IdleReader \in ReaderSet  BY <1>7 DEF IdleReader, ReaderSet
<1>9. reader' \in [{"ui"} -> ReaderSet] /\ reader'["ui"] = IdleReader
  BY <1>1, <1>2, <1>8 DEF RivalTypes
<1>10. learned' \in [Keys -> Nat]  BY <1>2, <1>5, <1>6
<1>11. RivalTypes'  BY <1>1, <1>2, <1>9, <1>10 DEF RivalTypes
<1>12. SlotsAre'  BY <1>1, <1>2 DEF SlotsAre
<1>13. IdleReader.pc = "idle" /\ IdleReader.stamp = 0 /\ IdleReader.batch = <<>>
  BY DEF IdleReader
<1>14. ReaderIs'  BY <1>9, <1>13 DEF ReaderIs, Reads
<1>15. Gone'
  <2> SUFFICES ASSUME counts.boots = 0 PROVE Gone'  BY <1>2 DEF Gone
  <2>1. forgotten \subseteq Keys  BY <1>1 DEF RivalTypes
  <2>2. ASSUME NEW k \in forgotten PROVE learned'[k] = 0
    <3>1. learned[k] = 0  BY <1>1 DEF Gone
    <3>2. \A i \in DOMAIN b : b[i].stamp # k  BY <1>1 DEF Gone
    <3>3. Times(b, k) = 0  BY <1>3, <3>2, TimesIs
    <3>4. fitted[k] = 0
      <4>1. fitted[k] = learned[k] + Times(b, k)  BY <2>1
      <4> QED  BY <3>1, <3>3, <4>1
    <3> QED  BY <1>2, <3>1, <3>4
  <2>3. 0 \notin forgotten  BY <2>1 DEF Keys
  <2> HIDE DEF fitted, b
  <2> QED  BY <1>1, <1>2, <1>9, <1>13, <2>2, <2>3 DEF Gone
<1> QED  BY <1>11, <1>12, <1>14, <1>15 DEF RivalInv

LEMMA PurgeStep ==
  ASSUME RivalInv, Trainers = {"ui"}, OptsOut
  PROVE  RivalInv'
<1>1. RivalTypes /\ SlotsAre /\ ReaderIs /\ Gone  BY DEF RivalInv
<1> DEFINE none == [seq |-> 0, stamp |-> 0, payload |-> 0]
<1>2. /\ reader["ui"].pc = "idle" /\ counts' = [counts EXCEPT !.outs = @ + 1]
      /\ learned' = NoProfile /\ slots' = EmptySlots
      /\ forgotten' = {k \in Keys : k <= counts.keys - (IF push.pc = "idle" THEN 0 ELSE 1)}
      /\ UNCHANGED <<head, push, trained, reader, aiFile>>
  BY DEF OptsOut, UiFree, RingReset
<1>3. 0 \in KeyNumbers  BY RivalAssumption DEF KeyNumbers
<1>4. none \in SlotSet  BY <1>3 DEF SlotSet
<1>5. /\ counts' \in CountsSet /\ counts'.keys = counts.keys
      /\ counts'.boots = counts.boots
  <2> DEFINE n == counts.outs + 1
  <2>1. counts \in CountsSet  BY <1>1 DEF RivalTypes
  <2>2. n \in Nat  BY <2>1 DEF CountsSet
  <2>3. counts' = [counts EXCEPT !.outs = n]  BY <1>2
  <2> HIDE DEF n
  <2> QED  BY <2>1, <2>2, <2>3 DEF CountsSet
<1>6. slots' \in [0 .. Capacity - 1 -> SlotSet] /\ \A i \in 0 .. Capacity - 1 : slots'[i] = none
  <2>1. slots' = [s \in 0 .. Capacity - 1 |-> none]  BY <1>2 DEF EmptySlots
  <2> HIDE DEF none
  <2> QED  BY <1>4, <2>1
<1>7. NoProfile \in [Keys -> Nat] /\ \A k \in Keys : NoProfile[k] = 0  BY DEF NoProfile
<1>8. RivalTypes'
  <2>1. forgotten' \in SUBSET Keys  BY <1>2
  <2> QED  BY <1>1, <1>2, <1>5, <1>6, <1>7, <2>1 DEF RivalTypes
<1>9. none.seq = 0 /\ none.stamp = 0 /\ none.payload = 0  OBVIOUS
<1> HIDE DEF none
<1>10. SlotsAre'
  <2>1. push.index \in Nat  BY <1>1 DEF RivalTypes, PushSet
  <2>2. slots'[Slot(push.index)] = none  BY <1>6, <2>1, SlotIs
  <2>3. Written(none, push, counts.keys)  BY <1>9 DEF Written
  <2>4. Even(none.seq) /\ WholeSample(none)  BY <1>9 DEF Even, WholeSample
  <2> QED  BY <1>1, <1>2, <1>5, <1>6, <2>2, <2>3, <2>4 DEF SlotsAre
<1>11. reader["ui"] = IdleReader /\ IdleReader.pc = "idle" /\ IdleReader.stamp = 0
       /\ IdleReader.batch = <<>>
  BY <1>1, <1>2 DEF RivalTypes, IdleReader
<1>12. ReaderIs'  BY <1>2, <1>11 DEF ReaderIs, Reads
<1>13. Gone'
  <2>1. \A k \in forgotten' : /\ k <= counts.keys /\ (push.pc # "idle" => k < counts.keys)
                              /\ learned'[k] = 0
    <3>1. counts.keys \in Nat  BY <1>1 DEF RivalTypes, CountsSet, KeyNumbers
    <3> QED  BY <1>2, <1>7, <3>1 DEF Keys
  <2>2. 0 \notin forgotten'  BY <1>2 DEF Keys
  <2> QED  BY <1>2, <1>5, <1>6, <1>9, <1>11, <2>1, <2>2 DEF Gone
<1> QED  BY <1>8, <1>10, <1>12, <1>13 DEF RivalInv

\* Consent, the end of a purge and the file touch neither the ring nor a reader.
LEMMA AsideStep ==
  ASSUME RivalInv, OptsIn \/ PurgeEnds \/ SaveProfile
  PROVE  RivalInv'
<1>1. RivalTypes /\ SlotsAre /\ ReaderIs /\ Gone  BY DEF RivalInv
<1>2. /\ UNCHANGED <<slots, push, reader, learned, counts, forgotten>>
      /\ head' \in {head, 0} /\ trained' \in {trained, 0} /\ aiFile' \in {aiFile, learned}
  BY DEF OptsIn, PurgeEnds, SaveProfile
<1>3. RivalTypes'  BY <1>1, <1>2 DEF RivalTypes
<1>4. SlotsAre'  BY <1>1, <1>2 DEF SlotsAre
<1>5. ReaderIs'  BY <1>1, <1>2 DEF ReaderIs
<1>6. Gone'  BY <1>1, <1>2 DEF Gone
<1> QED  BY <1>3, <1>4, <1>5, <1>6 DEF RivalInv

LEMMA RestartStep ==
  ASSUME RivalInv, Trainers = {"ui"}, Restart
  PROVE  RivalInv'
<1>1. RivalTypes  BY DEF RivalInv
<1> DEFINE none == [seq |-> 0, stamp |-> 0, payload |-> 0]
<1>2. /\ counts' = [counts EXCEPT !.boots = @ + 1] /\ slots' = EmptySlots /\ head' = 0
      /\ push' = IdlePush /\ trained' = 0 /\ reader' = [t \in {"ui"} |-> IdleReader]
      /\ learned' \in {aiFile, NoProfile} /\ UNCHANGED <<aiFile, forgotten>>
  BY DEF Restart
<1>3. 0 \in KeyNumbers  BY RivalAssumption DEF KeyNumbers
<1>4. none \in SlotSet  BY <1>3 DEF SlotSet
<1>5. counts' \in CountsSet /\ counts'.boots # 0
  <2> DEFINE n == counts.boots + 1
  <2>1. counts \in CountsSet  BY <1>1 DEF RivalTypes
  <2>2. n \in Nat /\ n # 0  BY <2>1 DEF CountsSet
  <2>3. counts' = [counts EXCEPT !.boots = n]  BY <1>2
  <2> HIDE DEF n
  <2> QED  BY <2>1, <2>2, <2>3 DEF CountsSet
<1>6. slots' \in [0 .. Capacity - 1 -> SlotSet] /\ \A i \in 0 .. Capacity - 1 : slots'[i] = none
  <2>1. slots' = [s \in 0 .. Capacity - 1 |-> none]  BY <1>2 DEF EmptySlots
  <2> HIDE DEF none
  <2> QED  BY <1>4, <2>1
<1>7. NoProfile \in [Keys -> Nat]  BY DEF NoProfile
<1>8. IdlePush \in PushSet /\ IdlePush.pc = "idle" /\ IdlePush.seq = 0
  BY DEF IdlePush, PushSet
<1>9. IdleReader \in ReaderSet  BY <1>3 DEF IdleReader, ReaderSet
<1>10. reader' \in [{"ui"} -> ReaderSet] /\ reader'["ui"] = IdleReader  BY <1>2, <1>9
<1>11. RivalTypes'
  BY <1>1, <1>2, <1>5, <1>6, <1>7, <1>8, <1>10 DEF RivalTypes
<1>12. none.seq = 0 /\ none.stamp = 0  OBVIOUS
<1> HIDE DEF none
<1>13. SlotsAre'  BY <1>2, <1>6, <1>8, <1>12 DEF SlotsAre, Even, WholeSample
<1>14. ReaderIs'  BY <1>10 DEF ReaderIs, Reads, IdleReader
<1>15. Gone'  BY <1>5 DEF Gone
<1> QED  BY <1>11, <1>13, <1>14, <1>15 DEF RivalInv

LEMMA RivalStep ==
  ASSUME RivalInv, Trainers = {"ui"}, RivalNext
  PROVE  RivalInv'
<1>1. \/ observeKeystroke \/ PushOdd \/ PushStamp \/ PushPayload \/ PushEven \/ PushHead
      \/ trainBatch("ui") \/ ReadFirst("ui") \/ ReadStamp("ui") \/ ReadPayload("ui")
      \/ ReadSecond("ui") \/ Blend("ui")
      \/ OptsIn \/ OptsOut \/ PurgeEnds \/ SaveProfile \/ Restart
  BY DEF RivalNext
<1> QED
  BY <1>1, KeyPushed, StoredStep, HeadStep, TrainStep, ReadStep, BlendStep, AsideStep,
     PurgeStep, RestartStep

LEMMA RivalStays ==
  ASSUME RivalInv, UNCHANGED rivalVars
  PROVE  RivalInv'
BY DEF RivalInv, rivalVars, RivalTypes, SlotsAre, ReaderIs, Gone

LEMMA RivalInvIsSound ==
  ASSUME RivalInv, Trainers = {"ui"}
  PROVE  RivalSound
<1>1. SamplesAreWhole
  <2> SUFFICES ASSUME NEW i \in 1 .. Len(reader["ui"].batch),
                      0 \notin {reader["ui"].batch[i].stamp, reader["ui"].batch[i].payload}
               PROVE  reader["ui"].batch[i].stamp = reader["ui"].batch[i].payload
    BY DEF SamplesAreWhole
  <2>1. reader["ui"].batch \in Seq(SampleSet)  BY ReadSlot DEF ReaderSet
  <2>2. i \in DOMAIN reader["ui"].batch  BY <2>1
  <2> QED  BY <2>2 DEF RivalInv, ReaderIs, WholeSample
<1>2. PurgeHolds  BY DEF RivalInv, Gone, PurgeHolds
<1> QED  BY <1>1, <1>2 DEF RivalSound

\* The UI's timer never fits a torn sample or one of before a purge, for rings of every size
\* (AiRival.cpp, SeqRing.hpp).
THEOREM RivalInvariant ==
  ASSUME Trainers = {"ui"}
  PROVE  RivalSpec => []RivalSound
<1>1. RivalInit => RivalInv  BY InitRival
<1>2. RivalInv /\ [RivalNext]_rivalVars => RivalInv'  BY RivalStep, RivalStays
<1>3. RivalInv => RivalSound  BY RivalInvIsSound
<1> QED  BY <1>1, <1>2, <1>3, PTL DEF RivalSpec

(***************************************************************************)
(* The settings: what is in force, what is saved, what the dialog shows.   *)
(***************************************************************************)
FlagSet == {"tsf", "inline", "correct", "lowcpu"}
OptionSet == [method : 0..2, quick : BOOLEAN, modern : BOOLEAN, dict : BOOLEAN,
              digits : BOOLEAN]
StoreSet == [method : Nat, quick : BOOLEAN, modern : BOOLEAN, dict : BOOLEAN,
             digits : BOOLEAN, profile : Nat, hybrid : SUBSET FlagSet, migration : Nat]
ProfileSet == {"Balanced", "Fastest", "LeastFlicker", "MaxCorrectness", "Adaptive"}

\* The controls, whatever text the editor holds.
Controls(words) == [open : {TRUE}, method : 0..2, quick : BOOLEAN, modern : BOOLEAN,
                   profile : ProfileSet, low : BOOLEAN, correct : BOOLEAN, macros : {words}]

SettingsTypes ==
    /\ up \in BOOLEAN /\ ui \in {"idle", "file", "save"} /\ (~up => ui = "idle")
    /\ options \in OptionSet /\ engine \in OptionSet /\ registry \in StoreSet
    /\ profile \in ProfileSet /\ hybrid \in SUBSET FlagSet
    /\ failed \in BOOLEAN
    /\ dialog = Closed \/ dialog \in Controls(dialog.macros)
    /\ ui = "file" => dialog.open

\* MacrosAgree, and what it rests on between a click and its write.
MacrosFollow ==
    up => /\ ui = "file" => table = parseMacroText(dialog.macros)
          /\ (ui # "file" /\ ~failed) => table = parseMacroText(macroFile) /\ raw = macroFile

\* The invariant of the settings.
SettingsInv ==
    SettingsTypes /\ EngineHasOptions /\ SavedIsRunning /\ MacrosFollow /\ StrategyIsCurrent

LEMMA IndexBack ==
    ASSUME NEW p \in ProfileSet
    PROVE  /\ IndexOf(p) \in Nat
           /\ profileFromIndex(IndexOf(p)) = p
<1>1. /\ Profiles[1] = "Balanced" /\ Profiles[2] = "Fastest" /\ Profiles[3] = "LeastFlicker"
      /\ Profiles[4] = "MaxCorrectness" /\ Profiles[5] = "Adaptive" /\ Len(Profiles) = 5
  BY DEF Profiles
<1>2. \E i \in 1..Len(Profiles) : Profiles[i] = p  BY <1>1 DEF ProfileSet
<1> DEFINE i == CHOOSE j \in 1..Len(Profiles) : Profiles[j] = p
<1>3. i \in 1..Len(Profiles) /\ Profiles[i] = p  BY <1>2
<1>4. IndexOf(p) = i - 1  BY DEF IndexOf
<1> HIDE DEF i
<1>5. IndexOf(p) \in Nat /\ IndexOf(p) < Len(Profiles) /\ IndexOf(p) + 1 = i
  BY <1>1, <1>3, <1>4
<1> QED  BY <1>3, <1>5 DEF profileFromIndex

LEMMA ProfileIs == ASSUME NEW n \in Nat PROVE profileFromIndex(n) \in ProfileSet
<1>1. /\ Profiles[1] = "Balanced" /\ Profiles[2] = "Fastest" /\ Profiles[3] = "LeastFlicker"
      /\ Profiles[4] = "MaxCorrectness" /\ Profiles[5] = "Adaptive" /\ Len(Profiles) = 5
  BY DEF Profiles
<1> QED  BY <1>1 DEF profileFromIndex, ProfileSet

LEMMA LoadedIs ==
    ASSUME NEW r \in StoreSet
    PROVE  Loaded(r) \in OptionSet
<1> DEFINE m == IF r.method <= 2 THEN r.method ELSE 0
           g == IF r.migration < 2 THEN TRUE ELSE r.digits
<1>1. Loaded(r) = [method |-> m, quick |-> r.quick, modern |-> r.modern, dict |-> r.dict,
                   digits |-> g]
  BY DEF Loaded
<1>2. m \in 0..2 /\ r.quick \in BOOLEAN /\ r.modern \in BOOLEAN /\ r.dict \in BOOLEAN
  BY DEF StoreSet
<1>3. g \in BOOLEAN  BY DEF StoreSet
<1> HIDE DEF m, g
<1> QED  BY <1>1, <1>2, <1>3 DEF OptionSet

LEMMA SavedBack ==
    ASSUME NEW o \in OptionSet, NEW p \in ProfileSet, NEW h \in SUBSET FlagSet
    PROVE  /\ Persisted(o, p, h) \in StoreSet
           /\ Loaded(Persisted(o, p, h)) = o
           /\ profileFromIndex(Persisted(o, p, h).profile) = p
           /\ Persisted(o, p, h).hybrid = h
<1>1. Persisted(o, p, h) \in StoreSet
  BY IndexBack DEF Persisted, StoreSet, OptionSet
<1>2. Loaded(Persisted(o, p, h)) = o
  BY DEF Persisted, Loaded, OptionSet
<1>3. Persisted(o, p, h).profile = IndexOf(p) /\ Persisted(o, p, h).hybrid = h
  BY DEF Persisted
<1> QED  BY <1>1, <1>2, <1>3, IndexBack

LEMMA WithIs ==
    ASSUME NEW e \in OptionSet, NEW o \in OptionSet, NEW s
    PROVE  /\ WithDictionary(e, o, s) \in OptionSet
           /\ WithDictionary(e, o, s).method = e.method
           /\ WithDictionary(e, o, s).quick = e.quick
           /\ WithDictionary(e, o, s).digits = e.digits
<1> DEFINE b == s.dictionary \/ o.dict
<1>1. WithDictionary(e, o, s) = [e EXCEPT !.dict = b]  BY DEF WithDictionary
<1>2. b \in BOOLEAN  OBVIOUS
<1> HIDE DEF b
<1> QED  BY <1>1, <1>2 DEF OptionSet

LEMMA InitSettings ==
    ASSUME SettingsInit
    PROVE  SettingsInv
<1>1. /\ up = FALSE /\ ui = "idle" /\ options = Off /\ engine = Off /\ profile = "Balanced"
      /\ hybrid = {} /\ registry \in Registries /\ dialog = Closed /\ failed = FALSE
  BY DEF SettingsInit
<1>2. Off \in OptionSet  BY DEF Off, OptionSet
<1>3. registry \in StoreSet  BY <1>1, SettingsAssumption DEF StoreSet, FlagSet
<1>4. SettingsTypes
  BY <1>1, <1>2, <1>3 DEF SettingsTypes, ProfileSet, FlagSet
<1> QED
  BY <1>1, <1>4 DEF SettingsInv, EngineHasOptions, SavedIsRunning, MacrosFollow,
     StrategyIsCurrent, Ready

\* The engine is given the options, with the dictionary of the strategy.
LEMMA EngineIs ==
    ASSUME options' \in OptionSet, engine' = WithDictionary(options', options', strategy')
    PROVE  /\ engine' \in OptionSet /\ engine'.method = options'.method
           /\ engine'.quick = options'.quick /\ engine'.digits = options'.digits
<1> DEFINE o == options'
           s == strategy'
<1>1. /\ WithDictionary(o, o, s) \in OptionSet
      /\ WithDictionary(o, o, s).method = o.method
      /\ WithDictionary(o, o, s).quick = o.quick
      /\ WithDictionary(o, o, s).digits = o.digits
  <2>1. o \in OptionSet  OBVIOUS
  <2> HIDE DEF o, s
  <2> QED  BY <2>1, WithIs, Zenon
<1> QED  BY <1>1

LEMMA BootStep ==
    ASSUME SettingsInv, Boot
    PROVE  SettingsInv'
<1> USE DEF SettingsInv
<1>1. /\ up' = TRUE /\ ui' = ui /\ ui = "idle" /\ ~up
      /\ options' = Loaded(registry) /\ profile' = profileFromIndex(registry.profile)
      /\ hybrid' = registry.hybrid /\ raw' = macroFile /\ table' = parseMacroText(macroFile)
      /\ macroFile' = macroFile /\ dialog' = dialog /\ failed' = failed
      /\ telemetry' = telemetry
      /\ strategy' = resolveStrategy(profile', hybrid', telemetry)
      /\ engine' = WithDictionary(options', options', strategy')
  BY DEF Boot, SettingsTypes
<1>2. registry' = IF registry.migration < 2
                  THEN [registry EXCEPT !.digits = TRUE, !.migration = 2] ELSE registry
  BY DEF Boot
<1>3. registry \in StoreSet  BY DEF SettingsTypes
<1>4. /\ registry' \in StoreSet /\ Loaded(registry') = Loaded(registry)
      /\ registry'.profile = registry.profile /\ registry'.hybrid = registry.hybrid
  BY <1>2, <1>3 DEF StoreSet, Loaded
<1>5. options' \in OptionSet  BY <1>1, <1>3, LoadedIs
<1>6. registry.profile \in Nat /\ registry.hybrid \in SUBSET FlagSet
  BY <1>3 DEF StoreSet
<1>7. profile' \in ProfileSet  BY <1>1, <1>6, ProfileIs
<1>8. /\ engine' \in OptionSet /\ engine'.method = options'.method
      /\ engine'.quick = options'.quick /\ engine'.digits = options'.digits
  BY <1>1, <1>5, EngineIs, Zenon
<1>9. SettingsTypes'
  BY <1>1, <1>4, <1>5, <1>6, <1>7, <1>8 DEF SettingsTypes
<1>10. EngineHasOptions'  BY <1>8 DEF EngineHasOptions
<1>11. SavedIsRunning'  BY <1>1, <1>4 DEF SavedIsRunning, Ready
<1>12. MacrosFollow'  BY <1>1 DEF MacrosFollow
<1>13. StrategyIsCurrent'  BY <1>1 DEF StrategyIsCurrent
<1> QED  BY <1>9, <1>10, <1>11, <1>12, <1>13

LEMMA ShownIs ==
    ASSUME NEW o \in OptionSet, NEW p \in ProfileSet, NEW h
    PROVE  settingsToControls(o, p, h) \in Controls(settingsToControls(o, p, h).macros)
<1> DEFINE words == IF raw = <<>> THEN macrosToText(table) ELSE raw
           low == "lowcpu" \in h
           correct == "correct" \in h
<1>1. settingsToControls(o, p, h)
        = [open |-> TRUE, method |-> o.method, quick |-> o.quick, modern |-> o.modern,
           profile |-> p, low |-> low, correct |-> correct, macros |-> words]
  BY DEF settingsToControls
<1>2. low \in BOOLEAN /\ correct \in BOOLEAN  OBVIOUS
<1> HIDE DEF words, low, correct
<1> QED  BY <1>1, <1>2 DEF Controls, OptionSet

\* Opening and closing the dialog, the tick and F9.
LEMMA ShowStep ==
    ASSUME SettingsInv, openSettingsDialog \/ CloseDialog
    PROVE  SettingsInv'
<1> USE DEF SettingsInv
<1>1. /\ up /\ ui = "idle"
      /\ UNCHANGED <<up, ui, options, engine, profile, hybrid, strategy, telemetry, registry,
                     table, raw, macroFile, failed>>
  BY DEF openSettingsDialog, CloseDialog, Ready
<1>2. dialog' = Closed \/ dialog' \in Controls(dialog'.macros)
  <2>1. CASE CloseDialog  BY <2>1 DEF CloseDialog
  <2>2. CASE openSettingsDialog
    <3>1. dialog' = settingsToControls(options, profile, hybrid)
      BY <2>2 DEF openSettingsDialog
    <3>2. options \in OptionSet /\ profile \in ProfileSet  BY DEF SettingsTypes
    <3>3. settingsToControls(options, profile, hybrid)
            \in Controls(settingsToControls(options, profile, hybrid).macros)
      BY <3>2, ShownIs
    <3> QED  BY <3>1, <3>3
  <2> QED  BY <2>1, <2>2
<1>3. SettingsTypes'  BY <1>1, <1>2 DEF SettingsTypes
<1>4. EngineHasOptions'  BY <1>1 DEF EngineHasOptions
<1>5. SavedIsRunning'  BY <1>1 DEF SavedIsRunning, Ready
<1>6. MacrosFollow'  BY <1>1 DEF MacrosFollow
<1>7. StrategyIsCurrent'  BY <1>1 DEF StrategyIsCurrent
<1> QED  BY <1>3, <1>4, <1>5, <1>6, <1>7

\* A click gives its control one of the control's values.
LEMMA ClickedIs ==
    ASSUME NEW old, NEW d \in Controls(old), NEW c \in DOMAIN Values, NEW v \in Values[c],
           NEW words
    PROVE  [d EXCEPT ![c] = v, !.macros = words] \in Controls(words)
<1>1. c \in {"method", "quick", "modern", "profile", "low", "correct"}  BY DEF Values
<1> DEFINE n == [d EXCEPT ![c] = v, !.macros = words]
<1>2. CASE c = "method"
  <2>1. v \in 0..2  BY <1>2 DEF Values
  <2>2. n = [d EXCEPT !.method = v, !.macros = words]  BY <1>2
  <2> QED  BY <2>1, <2>2 DEF Controls
<1>3. CASE c = "quick"
  <2>1. v \in BOOLEAN  BY <1>3 DEF Values
  <2>2. n = [d EXCEPT !.quick = v, !.macros = words]  BY <1>3
  <2> QED  BY <2>1, <2>2 DEF Controls
<1>4. CASE c = "modern"
  <2>1. v \in BOOLEAN  BY <1>4 DEF Values
  <2>2. n = [d EXCEPT !.modern = v, !.macros = words]  BY <1>4
  <2> QED  BY <2>1, <2>2 DEF Controls
<1>5. CASE c = "profile"
  <2>1. v \in ProfileSet  BY <1>5 DEF Values, ProfileSet
  <2>2. n = [d EXCEPT !.profile = v, !.macros = words]  BY <1>5
  <2> QED  BY <2>1, <2>2 DEF Controls
<1>6. CASE c = "low"
  <2>1. v \in BOOLEAN  BY <1>6 DEF Values
  <2>2. n = [d EXCEPT !.low = v, !.macros = words]  BY <1>6
  <2> QED  BY <2>1, <2>2 DEF Controls
<1>7. CASE c = "correct"
  <2>1. v \in BOOLEAN  BY <1>7 DEF Values
  <2>2. n = [d EXCEPT !.correct = v, !.macros = words]  BY <1>7
  <2> QED  BY <2>1, <2>2 DEF Controls
<1> QED  BY <1>1, <1>2, <1>3, <1>4, <1>5, <1>6, <1>7

LEMMA ClickStep ==
    ASSUME SettingsInv, NEW c \in DOMAIN Values, Click(c)
    PROVE  SettingsInv'
<1> USE DEF SettingsInv
<1>1. /\ up /\ ui' = "file" /\ dialog.open
      /\ options' = [options EXCEPT !.method = dialog'.method, !.quick = dialog'.quick,
                                    !.modern = dialog'.modern]
      /\ profile' = dialog'.profile /\ hybrid' = FlagsOf(dialog')
      /\ strategy' = resolveStrategy(profile', hybrid', telemetry)
      /\ engine' = WithDictionary(options', options', strategy')
      /\ table' = parseMacroText(dialog'.macros)
      /\ UNCHANGED <<up, telemetry, registry, failed>>
  BY DEF Click, Change, Ready
<1>2. PICK v \in Values[c], words \in Texts \cup {dialog.macros} :
        dialog' = [dialog EXCEPT ![c] = v, !.macros = words]
  BY DEF Click
<1>3. dialog \in Controls(dialog.macros)  BY <1>1 DEF SettingsTypes, Closed
<1>4. dialog' \in Controls(words)  BY <1>2, <1>3, ClickedIs
<1>5. dialog'.macros = words  BY <1>4 DEF Controls
<1>6. dialog' \in Controls(dialog'.macros)  BY <1>4, <1>5
<1>7. /\ dialog'.method \in 0..2 /\ dialog'.quick \in BOOLEAN /\ dialog'.modern \in BOOLEAN
      /\ dialog'.profile \in ProfileSet /\ dialog'.open
  BY <1>4 DEF Controls
<1>8. options' \in OptionSet
  <2> DEFINE m == dialog'.method
             q == dialog'.quick
             e == dialog'.modern
  <2>1. options' = [options EXCEPT !.method = m, !.quick = q, !.modern = e]  BY <1>1
  <2>2. m \in 0..2 /\ q \in BOOLEAN /\ e \in BOOLEAN  BY <1>7
  <2>3. options \in OptionSet  BY DEF SettingsTypes
  <2> HIDE DEF m, q, e
  <2> QED  BY <2>1, <2>2, <2>3 DEF OptionSet
<1>9. /\ engine' \in OptionSet /\ engine'.method = options'.method
      /\ engine'.quick = options'.quick /\ engine'.digits = options'.digits
  BY <1>1, <1>8, EngineIs, Zenon
<1>10. hybrid' \in SUBSET FlagSet  BY <1>1 DEF FlagsOf, FlagSet
<1>11. SettingsTypes'  BY <1>1, <1>6, <1>7, <1>8, <1>9, <1>10 DEF SettingsTypes
<1>12. EngineHasOptions'  BY <1>9 DEF EngineHasOptions
<1>13. SavedIsRunning'  BY <1>1 DEF SavedIsRunning, Ready
<1>14. MacrosFollow'  BY <1>1 DEF MacrosFollow
<1>15. StrategyIsCurrent'  BY <1>1 DEF StrategyIsCurrent
<1> QED  BY <1>11, <1>12, <1>13, <1>14, <1>15

LEMMA WriteStep ==
    ASSUME SettingsInv, WriteMacros \/ saveSettings
    PROVE  SettingsInv'
<1> USE DEF SettingsInv
<1>1. /\ up /\ ui' \in {"save", "idle"}
      /\ UNCHANGED <<up, options, engine, profile, hybrid, strategy, telemetry, table, dialog>>
  BY DEF WriteMacros, saveSettings
<1>2. registry' \in StoreSet /\ failed' \in BOOLEAN /\ SavedIsRunning' /\ MacrosFollow'
  <2>1. CASE WriteMacros
    <3>1. ui = "file" /\ ui' = "save" /\ registry' = registry  BY <2>1 DEF WriteMacros
    <3>2. table = parseMacroText(dialog.macros)  BY <1>1, <3>1 DEF MacrosFollow
    <3>3. \/ macroFile' = dialog.macros /\ raw' = dialog.macros /\ failed' = FALSE
          \/ failed' = TRUE
      BY <2>1 DEF WriteMacros
    <3>4. MacrosFollow'  BY <1>1, <3>1, <3>2, <3>3 DEF MacrosFollow
    <3>5. registry' \in StoreSet  BY <3>1 DEF SettingsTypes
    <3> QED  BY <3>1, <3>3, <3>4, <3>5 DEF SavedIsRunning, Ready
  <2>2. CASE saveSettings
    <3>1. /\ ui = "save" /\ ui' = "idle" /\ UNCHANGED <<raw, macroFile, failed>>
          /\ registry' = Persisted(options, profile, hybrid)
      BY <2>2 DEF saveSettings
    <3>2. options \in OptionSet /\ profile \in ProfileSet /\ hybrid \in SUBSET FlagSet
      BY DEF SettingsTypes
    <3>3. /\ registry' \in StoreSet /\ Loaded(registry') = options
          /\ profileFromIndex(registry'.profile) = profile /\ registry'.hybrid = hybrid
      BY <3>1, <3>2, SavedBack
    <3>4. SavedIsRunning'  BY <1>1, <3>1, <3>3 DEF SavedIsRunning
    <3>5. MacrosFollow'  BY <1>1, <3>1 DEF MacrosFollow
    <3> QED  BY <3>1, <3>3, <3>4, <3>5 DEF SettingsTypes
  <2> QED  BY <2>1, <2>2
<1>3. SettingsTypes'
  <2>1. ui' # "file"  BY <1>1
  <2> QED  BY <1>1, <1>2, <2>1 DEF SettingsTypes
<1>4. EngineHasOptions'  BY <1>1 DEF EngineHasOptions
<1>5. StrategyIsCurrent'  BY <1>1 DEF StrategyIsCurrent
<1> QED  BY <1>2, <1>3, <1>4, <1>5

\* The tray and the notification set an option of the copy, and the engine's with it.
LEMMA TrayStep ==
    ASSUME SettingsInv, TrayMethod \/ TurnOffQuickTelex
    PROVE  SettingsInv'
<1> USE DEF SettingsInv
<1>1. /\ up /\ ui = "idle" /\ ui' = "save" /\ engine' = options'
      /\ UNCHANGED <<up, profile, hybrid, strategy, telemetry, registry, table, raw, macroFile,
                     failed>>
  BY DEF TrayMethod, TurnOffQuickTelex, Change, Ready
<1>2. options \in OptionSet /\ profile \in ProfileSet  BY DEF SettingsTypes
<1>3. options' \in OptionSet
  <2>1. CASE TrayMethod
    <3>1. PICK m \in 0..1 : options' = [options EXCEPT !.method = m]
      BY <2>1 DEF TrayMethod, Values
    <3> QED  BY <1>2, <3>1 DEF OptionSet
  <2>2. CASE TurnOffQuickTelex
    <3>1. options' = [options EXCEPT !.quick = FALSE]  BY <2>2 DEF TurnOffQuickTelex
    <3> QED  BY <1>2, <3>1 DEF OptionSet
  <2> QED  BY <2>1, <2>2
<1>4. dialog' = Closed \/ dialog' \in Controls(dialog'.macros)
  <2>1. dialog' = dialog \/ dialog' = settingsToControls(options', profile, hybrid)
    BY DEF TrayMethod, TurnOffQuickTelex
  <2>2. CASE dialog' = dialog  BY <2>2 DEF SettingsTypes
  <2>3. CASE dialog' = settingsToControls(options', profile, hybrid)
    <3> DEFINE o == options'
    <3>1. o \in OptionSet  BY <1>3
    <3>2. settingsToControls(o, profile, hybrid)
            \in Controls(settingsToControls(o, profile, hybrid).macros)
      <4> HIDE DEF o
      <4> QED  BY <1>2, <3>1, ShownIs
    <3> QED  BY <2>3, <3>2
  <2> QED  BY <2>1, <2>2, <2>3
<1>5. SettingsTypes'  BY <1>1, <1>3, <1>4 DEF SettingsTypes
<1>6. EngineHasOptions'  BY <1>1 DEF EngineHasOptions
<1>7. SavedIsRunning'  BY <1>1 DEF SavedIsRunning, Ready
<1>8. MacrosFollow'  BY <1>1 DEF MacrosFollow
<1>9. StrategyIsCurrent'  BY <1>1 DEF StrategyIsCurrent
<1> QED  BY <1>5, <1>6, <1>7, <1>8, <1>9

LEMMA StyleStep ==
    ASSUME SettingsInv, switchToneStyle
    PROVE  SettingsInv'
<1> USE DEF SettingsInv
<1>1. /\ up /\ engine' = [engine EXCEPT !.modern = ~@]
      /\ UNCHANGED <<up, ui, options, profile, hybrid, strategy, telemetry, registry, table,
                     raw, macroFile, dialog, failed>>
  BY DEF switchToneStyle
<1>2. engine \in OptionSet  BY DEF SettingsTypes
<1>3. /\ engine' \in OptionSet /\ engine'.method = engine.method
      /\ engine'.quick = engine.quick /\ engine'.digits = engine.digits
  BY <1>1, <1>2 DEF OptionSet
<1>4. SettingsTypes'  BY <1>1, <1>3 DEF SettingsTypes
<1>5. EngineHasOptions'  BY <1>1, <1>3 DEF EngineHasOptions
<1>6. SavedIsRunning'  BY <1>1 DEF SavedIsRunning, Ready
<1>7. MacrosFollow'  BY <1>1 DEF MacrosFollow
<1>8. StrategyIsCurrent'  BY <1>1 DEF StrategyIsCurrent
<1> QED  BY <1>4, <1>5, <1>6, <1>7, <1>8

\* What no profile but Adaptive asks.
LEMMA TelemetryIsAdaptive ==
    ASSUME NEW p, NEW h, NEW t, NEW u, p # "Adaptive"
    PROVE  resolveStrategy(p, h, t) = resolveStrategy(p, h, u)
BY Zenon DEF resolveStrategy

LEMMA TickStep ==
    ASSUME SettingsInv, AdaptiveTick
    PROVE  SettingsInv'
<1> USE DEF SettingsInv
<1>1. /\ strategy' = IF profile = "Adaptive" THEN resolveStrategy(profile, hybrid, telemetry')
                      ELSE strategy
      /\ engine' = IF strategy' = strategy THEN engine
                   ELSE WithDictionary(engine, options, strategy')
      /\ UNCHANGED <<up, ui, options, profile, hybrid, registry, table, raw, macroFile, dialog,
                     failed>>
  BY DEF AdaptiveTick
<1>2. engine \in OptionSet /\ options \in OptionSet  BY DEF SettingsTypes
<1>3. /\ engine' \in OptionSet /\ engine'.method = engine.method
      /\ engine'.quick = engine.quick /\ engine'.digits = engine.digits
  <2>1. CASE strategy' = strategy  BY <1>1, <1>2, <2>1
  <2>2. CASE strategy' # strategy
    <3>1. engine' = WithDictionary(engine, options, strategy')  BY <1>1, <2>2
    <3> QED  BY <1>2, <3>1, WithIs, Zenon
  <2> QED  BY <2>1, <2>2
<1>4. SettingsTypes'  BY <1>1, <1>3 DEF SettingsTypes
<1>5. EngineHasOptions'  BY <1>1, <1>3 DEF EngineHasOptions
<1>6. SavedIsRunning'  BY <1>1 DEF SavedIsRunning, Ready
<1>7. MacrosFollow'  BY <1>1 DEF MacrosFollow
<1>8. StrategyIsCurrent'
  <2>1. ASSUME up, profile # "Adaptive"
        PROVE  strategy' = resolveStrategy(profile, hybrid, telemetry')
    <3>1. strategy' = strategy  BY <1>1, <2>1
    <3>2. strategy = resolveStrategy(profile, hybrid, telemetry)
      BY <2>1 DEF StrategyIsCurrent
    <3> QED  BY <2>1, <3>1, <3>2, TelemetryIsAdaptive, Zenon
  <2> QED  BY <1>1, <2>1 DEF StrategyIsCurrent
<1> QED  BY <1>4, <1>5, <1>6, <1>7, <1>8

LEMMA KilledStep ==
    ASSUME SettingsInv, Killed
    PROVE  SettingsInv'
BY DEF SettingsInv, Killed, SettingsTypes, EngineHasOptions, SavedIsRunning, MacrosFollow,
   StrategyIsCurrent, Ready

LEMMA SettingsStays ==
    ASSUME SettingsInv, UNCHANGED settingsVars
    PROVE  SettingsInv'
BY DEF SettingsInv, settingsVars, SettingsTypes, EngineHasOptions, SavedIsRunning,
   MacrosFollow, StrategyIsCurrent, Ready

LEMMA SettingsStep ==
    ASSUME SettingsInv, SettingsNext
    PROVE  SettingsInv'
<1>1. CASE \E c \in DOMAIN Values : Click(c)  BY <1>1, ClickStep
<1> QED
  BY <1>1, BootStep, ShowStep, WriteStep, TrayStep, StyleStep, TickStep, KilledStep
  DEF SettingsNext

LEMMA SettingsInvIsSound ==
    ASSUME SettingsInv
    PROVE  SettingsSound
<1>1. MacrosAgree  BY DEF SettingsInv, MacrosFollow, MacrosAgree, Ready
<1> QED  BY <1>1 DEF SettingsInv, SettingsSound

\* Dialog, options, engine, registry and macro file agree, whatever registry and texts the program
\* starts with (main.cpp, Config.cpp).
THEOREM SettingsInvariant == SettingsSpec => []SettingsSound
<1>1. SettingsInit => SettingsInv  BY InitSettings
<1>2. SettingsInv /\ [SettingsNext]_settingsVars => SettingsInv'
  BY SettingsStep, SettingsStays
<1>3. SettingsInv => SettingsSound  BY SettingsInvIsSound
<1> QED  BY <1>1, <1>2, <1>3, PTL DEF SettingsSpec

(***************************************************************************)
(* The notices: what was refused, and how long ago a kind was shown.       *)
(***************************************************************************)
StateSet == [suppressed : BOOLEAN, lastShown : Nat, hourStart : Nat, hourCount : Nat,
             shown : Nat]
NoticeSet == [id : Ids \cup {NoNotice}, confidence : Int, after : Nat]
ShowSet == [id : Ids, at : Nat, before : Nat, overtaken : BOOLEAN, refused : BOOLEAN]
DetectorSet == [armed : BOOLEAN, at : Nat, depth : Nat, deleted : BOOLEAN, score : Nat,
                undos : Seq(Nat), expansions : Nat, settled : Nat]

\* A notice that was found due, of those pending or about to be stored.
Sane(n) == n \in NoticeSet /\ (n.id = NoNotice => n = NoRaise)

NoticeTypes ==
  /\ now \in Nat /\ perId \in [Ids -> StateSet] /\ shows \in Seq(ShowSet)
  /\ Sane(pendingNotice)
  /\ raising \in [Threads -> NoticeSet] /\ \A t \in Threads : Sane(raising[t])
  /\ suppressed \in SUBSET Ids /\ balloon \in Ids \cup {NoNotice}

\* The state in memory and the registry know the same refusals.
RefusalsKnown == \A i \in Ids : perId[i].suppressed <=> i \in suppressed

\* Unless its kind was shown since it was found due, a cooldown had passed then.
OnTime(n) ==
  n.id # NoNotice =>
    /\ n.after <= perId[n.id].shown
    /\ n.after = perId[n.id].shown =>
         \/ perId[n.id].lastShown = Never
         \/ now - perId[n.id].lastShown >= Policy[n.id].cooldown

AllOnTime == OnTime(pendingNotice) /\ \A t \in Threads : OnTime(raising[t])

\* An expansion is settled or open, and the score has undos enough.
Settles(d) ==
  /\ d \in DetectorSet
  /\ d.settled + (IF d.armed THEN 1 ELSE 0) <= d.expansions
  /\ d.score <= UndoWeight * Len(d.undos)

\* The invariant of the notices.
NoticeInv ==
  NoticeTypes /\ RefusalsKnown /\ AllOnTime /\ RefusalIsFinal /\ CooldownKept /\ Settles(detector)

LEMMA NoRaiseSane == Sane(NoRaise) /\ NoRaise.id = NoNotice
BY DEF Sane, NoRaise, NoticeSet

LEMMA NewSettles == Settles(NewDetector)
<1>1. NewDetector \in DetectorSet  BY DEF NewDetector, DetectorSet
<1>2. /\ NewDetector.settled = 0 /\ NewDetector.armed = FALSE /\ NewDetector.expansions = 0
      /\ NewDetector.score = 0 /\ Len(NewDetector.undos) = 0
  BY DEF NewDetector
<1>3. UndoWeight * 0 = 0  BY NoticeAssumption
<1> QED  BY <1>1, <1>2, <1>3 DEF Settles

LEMMA NoNoticeOnTime == OnTime(NoRaise)
BY NoRaiseSane DEF OnTime

LEMMA InitNotice == NoticeInit => NoticeInv
<1> SUFFICES ASSUME NoticeInit PROVE NoticeInv
  OBVIOUS
<1> DEFINE none == [suppressed |-> FALSE, lastShown |-> Never, hourStart |-> Never,
                    hourCount |-> 0, shown |-> 0]
<1>1. /\ now = 1 /\ perId = [i \in Ids |-> none] /\ pendingNotice = NoRaise
      /\ raising = [t \in Threads |-> NoRaise] /\ suppressed = {} /\ balloon = NoNotice
      /\ detector = NewDetector /\ shows = <<>>
  BY DEF NoticeInit
<1>2. none \in StateSet /\ none.suppressed = FALSE  BY DEF StateSet, Never
<1> HIDE DEF none
<1>3. NoRaise \in NoticeSet  BY NoRaiseSane DEF Sane
<1>4. NoticeTypes  BY <1>1, <1>2, <1>3, NoRaiseSane DEF NoticeTypes
<1>5. RefusalsKnown  BY <1>1, <1>2 DEF RefusalsKnown
<1>6. AllOnTime  BY <1>1, NoNoticeOnTime DEF AllOnTime
<1>7. RefusalIsFinal /\ CooldownKept  BY <1>1 DEF RefusalIsFinal, CooldownKept
<1>8. Settles(detector)  BY <1>1, NewSettles
<1> QED  BY <1>4, <1>5, <1>6, <1>7, <1>8 DEF NoticeInv

(***************************************************************************)
(* The detector.                                                           *)
(***************************************************************************)
LEMMA DisarmedSettles ==
  ASSUME NEW d \in DetectorSet, d.settled <= d.expansions, d.score <= UndoWeight * Len(d.undos)
  PROVE  Settles(Disarmed(d))
<1>1. /\ Disarmed(d) \in DetectorSet /\ Disarmed(d).armed = FALSE
      /\ Disarmed(d).settled = d.settled /\ Disarmed(d).expansions = d.expansions
      /\ Disarmed(d).score = d.score /\ Disarmed(d).undos = d.undos
  BY DEF Disarmed, DetectorSet
<1>2. d.settled \in Nat  BY DEF DetectorSet
<1> QED  BY <1>1, <1>2 DEF Settles

LEMMA ConfirmSettles ==
  ASSUME NEW d, Settles(d), d.armed, now \in Nat
  PROVE  Settles(ConfirmUndo(d)) /\ ConfirmUndo(d).expansions = d.expansions
         /\ ConfirmUndo(d).armed = FALSE
<1> DEFINE u == Append(d.undos, now)
           s == d.settled + 1
           c == Smaller(100, d.score + UndoWeight)
           e == [d EXCEPT !.undos = u, !.settled = s, !.score = c]
<1>1. d \in DetectorSet /\ d.settled + 1 <= d.expansions /\ d.score <= UndoWeight * Len(d.undos)
  BY DEF Settles
<1>2. /\ d.settled \in Nat /\ d.score \in Nat /\ d.undos \in Seq(Nat) /\ d.expansions \in Nat
  BY <1>1 DEF DetectorSet
<1>3. u \in Seq(Nat) /\ Len(u) = Len(d.undos) + 1 /\ Len(d.undos) \in Nat  BY <1>2
<1>4. s \in Nat /\ s <= d.expansions  BY <1>1, <1>2
<1>5. c \in Nat /\ c <= d.score + UndoWeight  BY <1>2, NoticeAssumption DEF Smaller
<1>6. UndoWeight * Len(u) = UndoWeight * Len(d.undos) + UndoWeight
  <2> DEFINE l == Len(d.undos)
  <2>1. l \in Nat /\ UndoWeight \in Nat /\ Len(u) = l + 1  BY <1>3, NoticeAssumption
  <2> HIDE DEF l, u
  <2>2. UndoWeight * (l + 1) = UndoWeight * l + UndoWeight  BY <2>1
  <2> QED  BY <2>1, <2>2 DEF l
<1>7. c <= UndoWeight * Len(u)
  <2>1. UndoWeight * Len(d.undos) \in Nat  BY <1>3, NoticeAssumption
  <2> HIDE DEF c, u
  <2> QED  BY <1>1, <1>2, <1>5, <1>6, <2>1, NoticeAssumption
<1>8. ConfirmUndo(d) = Disarmed(e)  BY DEF ConfirmUndo
<1> HIDE DEF u, s, c
<1>9. /\ e \in DetectorSet /\ e.settled = s /\ e.score = c /\ e.undos = u
      /\ e.expansions = d.expansions
  BY <1>1, <1>3, <1>4, <1>5 DEF DetectorSet
<1> HIDE DEF e
<1>10. Settles(Disarmed(e))  BY <1>4, <1>7, <1>9, DisarmedSettles
<1>11. Disarmed(e).expansions = e.expansions /\ Disarmed(e).armed = FALSE
  BY <1>9 DEF Disarmed, DetectorSet
<1> QED  BY <1>8, <1>9, <1>10, <1>11

LEMMA SettlesIs ==
  ASSUME NEW d, Settles(d)
  PROVE  /\ d \in DetectorSet /\ d.settled <= d.expansions
         /\ d.score <= UndoWeight * Len(d.undos)
<1>1. d.settled \in Nat /\ d.expansions \in Nat  BY DEF Settles, DetectorSet
<1> QED  BY <1>1 DEF Settles

\* Whatever the hook tells the detector, an expansion is settled once.
LEMMA ObservedSettles ==
  ASSUME Settles(detector), now \in Nat
  PROVE  /\ Settles(observeBackspace(detector)) /\ Settles(observeRestore(detector))
         /\ Settles(observeWordCommitted(detector)) /\ Settles(observeRawChar(detector))
         /\ Settles(observeExpansion(detector))
<1> DEFINE d == detector
<1>1. d \in DetectorSet /\ d.settled <= d.expansions /\ d.score <= UndoWeight * Len(d.undos)
  BY SettlesIs
<1>2. /\ d.depth \in Nat /\ d.score \in Nat /\ d.deleted \in BOOLEAN /\ d.armed \in BOOLEAN
      /\ d.settled \in Nat /\ d.expansions \in Nat
  BY <1>1 DEF DetectorSet
<1>3. Settles(Disarmed(d))  BY <1>1, DisarmedSettles
<1>4. d.armed => Settles(ConfirmUndo(d)) /\ ConfirmUndo(d).expansions = d.expansions
                 /\ ConfirmUndo(d).armed = FALSE
  BY ConfirmSettles
<1>5. Settles(observeBackspace(d))
  <2> DEFINE p == IF d.depth = 0 THEN 0 ELSE d.depth - 1
             g == d.deleted \/ d.depth = 0
             e == [d EXCEPT !.depth = p, !.deleted = g]
  <2>1. p \in Nat /\ g \in BOOLEAN  BY <1>2
  <2>2. observeBackspace(d) \in {d, Disarmed(d), e}  BY DEF observeBackspace
  <2> HIDE DEF p, g, d
  <2>3. /\ e \in DetectorSet /\ e.armed = d.armed /\ e.settled = d.settled
        /\ e.expansions = d.expansions /\ e.score = d.score /\ e.undos = d.undos
    BY <1>1, <2>1 DEF DetectorSet
  <2>4. Settles(d)  BY DEF d
  <2>5. Settles(e)  BY <2>3, <2>4 DEF Settles
  <2> QED  BY <1>3, <2>2, <2>4, <2>5
<1>6. Settles(observeRestore(d))  BY <1>4 DEF observeRestore
<1>7. Settles(observeRawChar(d))
  <2> DEFINE p == d.depth + 1
             e == [d EXCEPT !.depth = p]
  <2>1. p \in Nat  BY <1>2
  <2>2. observeRawChar(d) \in {d, Disarmed(d), e} \/ (d.armed /\ observeRawChar(d) = ConfirmUndo(d))
    BY DEF observeRawChar
  <2> HIDE DEF p, d
  <2>3. /\ e \in DetectorSet /\ e.armed = d.armed /\ e.settled = d.settled
        /\ e.expansions = d.expansions /\ e.score = d.score /\ e.undos = d.undos
    BY <1>1, <2>1 DEF DetectorSet
  <2>4. Settles(d)  BY DEF d
  <2>5. Settles(e)  BY <2>3, <2>4 DEF Settles
  <2> QED  BY <1>3, <1>4, <2>2, <2>4, <2>5
<1>8. Settles(observeWordCommitted(d))
  <2> DEFINE c == IF d.score > AcceptWeight THEN d.score - AcceptWeight ELSE 0
             s == d.settled + 1
             e == [d EXCEPT !.score = c, !.settled = s]
  <2>1. c \in Nat /\ c <= d.score  BY <1>2, NoticeAssumption
  <2>2. s \in Nat  BY <1>2
  <2>3. observeWordCommitted(d) = IF d.armed /\ ~d.deleted THEN Disarmed(e) ELSE Disarmed(d)
    BY DEF observeWordCommitted
  <2>4. d.armed => s <= d.expansions  BY <1>2 DEF Settles
  <2> HIDE DEF c, s, d
  <2>5. /\ e \in DetectorSet /\ e.settled = s /\ e.expansions = d.expansions /\ e.score = c
        /\ e.undos = d.undos
    BY <1>1, <2>1, <2>2 DEF DetectorSet
  <2>6. c <= UndoWeight * Len(d.undos)
    <3>1. Len(d.undos) \in Nat  BY <1>1 DEF DetectorSet
    <3>2. UndoWeight * Len(d.undos) \in Nat  BY <3>1, NoticeAssumption
    <3> QED  BY <1>1, <1>2, <2>1, <3>2
  <2> HIDE DEF e
  <2>7. d.armed => Settles(Disarmed(e))  BY <2>4, <2>5, <2>6, DisarmedSettles
  <2> QED  BY <1>3, <2>3, <2>7
<1>9. Settles(observeExpansion(d))
  <2> DEFINE f == IF d.armed /\ Undone(d) THEN ConfirmUndo(d) ELSE d
             x == f.expansions + 1
             e == [f EXCEPT !.armed = TRUE, !.at = now, !.depth = 0, !.deleted = FALSE,
                            !.expansions = x]
  <2>1. observeExpansion(d) = e  BY DEF observeExpansion
  <2>2. Settles(f)  BY <1>4
  <2> HIDE DEF f, d
  <2>3. f \in DetectorSet /\ f.settled <= f.expansions /\ f.score <= UndoWeight * Len(f.undos)
    BY <2>2, SettlesIs
  <2>4. f.expansions \in Nat /\ f.settled \in Nat  BY <2>3 DEF DetectorSet
  <2>5. x \in Nat /\ f.settled + 1 <= x  BY <2>3, <2>4
  <2> HIDE DEF x
  <2>6. /\ e \in DetectorSet /\ e.settled = f.settled /\ e.expansions = x /\ e.score = f.score
        /\ e.undos = f.undos /\ e.armed = TRUE
    BY <2>3, <2>5 DEF DetectorSet
  <2>7. Settles(e)  BY <2>3, <2>5, <2>6 DEF Settles
  <2> QED  BY <2>1, <2>7
<1> QED  BY <1>5, <1>6, <1>7, <1>8, <1>9

LEMMA NoticeFacts ==
  ASSUME NoticeInv
  PROVE  /\ NoticeTypes /\ RefusalsKnown /\ AllOnTime /\ RefusalIsFinal /\ CooldownKept
         /\ Settles(detector)
BY DEF NoticeInv

\* A raise: what is found due has had its cooldown.
LEMMA FoundStep ==
  ASSUME NoticeInv, NEW t \in Threads, NEW i \in Ids, NEW c \in Int,
         Found(t, i, c) \/ UNCHANGED raising,
         UNCHANGED <<now, perId, pendingNotice, suppressed, balloon, shows>>,
         Settles(detector')
  PROVE  NoticeInv'
<1>1. NoticeTypes /\ RefusalsKnown /\ AllOnTime /\ RefusalIsFinal /\ CooldownKept
  BY NoticeFacts
<1> DEFINE n == [id |-> i, confidence |-> c, after |-> perId[i].shown]
<1>2. \/ raising' = raising
      \/ raising' = [raising EXCEPT ![t] = n] /\ Due(i, c)
  BY DEF Found
<1>3. perId[i] \in StateSet  BY <1>1 DEF NoticeTypes
<1>4. perId[i].shown \in Nat /\ perId[i].lastShown \in Nat /\ now \in Nat
  BY <1>1, <1>3 DEF StateSet, NoticeTypes
<1>5. Policy[i].cooldown \in Nat /\ i # NoNotice  BY NoticeAssumption DEF NoNotice
<1>6. n.id = i /\ n.after = perId[i].shown /\ n \in NoticeSet  BY <1>4 DEF NoticeSet
<1> HIDE DEF n
<1>7. Sane(n)  BY <1>5, <1>6 DEF Sane
<1>8. Due(i, c) => OnTime(n)
  <2>1. Due(i, c) => perId[i].lastShown = Never
                     \/ now - perId[i].lastShown >= Policy[i].cooldown
    BY <1>4, <1>5 DEF Due, Rested, Since
  <2> QED  BY <1>4, <1>6, <2>1 DEF OnTime
<1>9. raising \in [Threads -> NoticeSet]  BY <1>1 DEF NoticeTypes
<1>10. NoticeTypes'
  <2>1. raising' \in [Threads -> NoticeSet]  BY <1>2, <1>6, <1>9
  <2>2. \A u \in Threads : Sane(raising'[u])  BY <1>1, <1>2, <1>7, <1>9 DEF NoticeTypes
  <2> QED  BY <1>1, <2>1, <2>2 DEF NoticeTypes, Sane
<1>11. AllOnTime'
  <2>1. \A m : OnTime(m) => OnTime(m)'  BY DEF OnTime
  <2>2. \A u \in Threads : OnTime(raising'[u])  BY <1>1, <1>2, <1>8, <1>9 DEF AllOnTime
  <2>3. OnTime(pendingNotice')  BY <1>1 DEF AllOnTime
  <2> QED  BY <2>2, <2>3 DEF AllOnTime, OnTime
<1>12. RefusalsKnown'  BY <1>1 DEF RefusalsKnown
<1>13. RefusalIsFinal' /\ CooldownKept'  BY <1>1 DEF RefusalIsFinal, CooldownKept
<1> QED  BY <1>10, <1>11, <1>12, <1>13 DEF NoticeInv

LEMMA KeyedStep ==
  ASSUME NoticeInv, Key
  PROVE  NoticeInv'
<1>1. PICK d \in {observeBackspace(detector), observeRestore(detector),
                  observeWordCommitted(detector), observeRawChar(detector),
                  observeExpansion(detector)} :
        /\ detector' = d
        /\ \/ UNCHANGED raising
           \/ \E i \in Ids : Found("hook", i, d.score)
  BY DEF Key
<1>2. UNCHANGED <<now, perId, pendingNotice, suppressed, balloon, shows>>  BY DEF Key
<1>3. Settles(d)
  <2>1. Settles(detector) /\ now \in Nat  BY NoticeFacts DEF NoticeTypes
  <2> QED  BY <1>1, <2>1, ObservedSettles
<1>4. d.score \in Int  BY <1>3, SettlesIs DEF DetectorSet
<1>5. "hook" \in Threads  BY DEF Threads
<1>6. CASE \E i \in Ids : Found("hook", i, d.score)
  BY <1>1, <1>2, <1>3, <1>4, <1>5, <1>6, FoundStep
<1>7. CASE UNCHANGED raising
  <2>1. NoticeTypes /\ RefusalsKnown /\ AllOnTime /\ RefusalIsFinal /\ CooldownKept
    BY NoticeFacts
  <2>2. NoticeTypes' /\ AllOnTime'  BY <1>2, <1>7, <2>1 DEF NoticeTypes, AllOnTime, OnTime, Sane
  <2>3. RefusalsKnown' /\ RefusalIsFinal' /\ CooldownKept'
    BY <1>2, <2>1 DEF RefusalsKnown, RefusalIsFinal, CooldownKept
  <2> QED  BY <1>1, <1>3, <2>2, <2>3 DEF NoticeInv
<1> QED  BY <1>1, <1>6, <1>7

LEMMA HappensStep ==
  ASSUME NoticeInv, NEW t \in Threads, SomethingHappens(t)
  PROVE  NoticeInv'
<1>1. PICK i \in Ids : Found(t, i, 100)  BY DEF SomethingHappens
<1>2. UNCHANGED <<now, perId, pendingNotice, suppressed, balloon, shows, detector>>
  BY DEF SomethingHappens
<1>3. Settles(detector')  BY <1>2, NoticeFacts
<1> QED  BY <1>1, <1>2, <1>3, FoundStep

LEMMA StoreNotice ==
  ASSUME NoticeInv, NEW t \in Threads, Store(t)
  PROVE  NoticeInv'
<1>1. NoticeTypes /\ RefusalsKnown /\ AllOnTime /\ RefusalIsFinal /\ CooldownKept
      /\ Settles(detector)
  BY NoticeFacts
<1>2. /\ pendingNotice' = raising[t] /\ raising' = [raising EXCEPT ![t] = NoRaise]
      /\ UNCHANGED <<now, perId, suppressed, balloon, shows, detector>>
  BY DEF Store
<1>3. raising \in [Threads -> NoticeSet] /\ NoRaise \in NoticeSet
  BY <1>1, NoRaiseSane DEF NoticeTypes, Sane
<1>4. raising' \in [Threads -> NoticeSet]  BY <1>2, <1>3
<1>5. \A u \in Threads : raising'[u] = NoRaise \/ raising'[u] = raising[u]  BY <1>2, <1>3
<1>6. NoticeTypes'
  <2>1. \A u \in Threads : Sane(raising'[u])  BY <1>1, <1>5, NoRaiseSane DEF NoticeTypes
  <2>2. Sane(pendingNotice')  BY <1>1, <1>2 DEF NoticeTypes
  <2> QED  BY <1>1, <1>2, <1>4, <2>1, <2>2 DEF NoticeTypes, Sane
<1>7. AllOnTime'
  <2>1. \A u \in Threads : OnTime(raising'[u])  BY <1>1, <1>5, NoNoticeOnTime DEF AllOnTime
  <2>2. OnTime(pendingNotice')  BY <1>1, <1>2 DEF AllOnTime
  <2> QED  BY <1>2, <2>1, <2>2 DEF AllOnTime, OnTime
<1>8. RefusalsKnown' /\ RefusalIsFinal' /\ CooldownKept' /\ Settles(detector')
  BY <1>1, <1>2 DEF RefusalsKnown, RefusalIsFinal, CooldownKept
<1> QED  BY <1>6, <1>7, <1>8 DEF NoticeInv

\* What is pending is shown or dropped.
LEMMA TakeNotice ==
  ASSUME NoticeInv, takePending
  PROVE  NoticeInv'
<1>1. NoticeTypes /\ RefusalsKnown /\ AllOnTime /\ RefusalIsFinal /\ CooldownKept
      /\ Settles(detector)
  BY NoticeFacts
<1> DEFINE n == pendingNotice
           i == pendingNotice.id
           p == perId[pendingNotice.id]
<1>2. /\ n # NoRaise /\ pendingNotice' = NoRaise
      /\ UNCHANGED <<now, raising, suppressed, detector>>
  BY DEF takePending
<1>3. i \in Ids /\ i # NoNotice /\ n.after \in Nat
  BY <1>1, <1>2, NoticeAssumption DEF NoticeTypes, Sane, NoticeSet, NoNotice
<1>4. p \in StateSet  BY <1>1, <1>3 DEF NoticeTypes
<1>5. /\ p.lastShown \in Nat /\ p.shown \in Nat /\ p.hourStart \in Nat /\ p.hourCount \in Nat
      /\ now \in Nat
  BY <1>1, <1>4 DEF StateSet, NoticeTypes
<1>6. Sane(pendingNotice') /\ OnTime(pendingNotice')
  BY <1>2, NoRaiseSane, NoNoticeOnTime DEF OnTime
<1>7. CASE ~MayShow(i)
  <2>1. UNCHANGED <<perId, balloon, shows>>  BY <1>7 DEF takePending
  <2>2. NoticeTypes'  BY <1>1, <1>2, <1>6, <2>1 DEF NoticeTypes, Sane
  <2>3. AllOnTime'  BY <1>1, <1>2, <1>6, <2>1 DEF AllOnTime, OnTime
  <2>4. RefusalsKnown' /\ RefusalIsFinal' /\ CooldownKept' /\ Settles(detector')
    BY <1>1, <1>2, <2>1 DEF RefusalsKnown, RefusalIsFinal, CooldownKept
  <2> QED  BY <2>2, <2>3, <2>4 DEF NoticeInv
<1>8. CASE MayShow(i)
  <2> DEFINE h == IF Since(p.hourStart, Hour) THEN p.hourStart ELSE now
             k == IF Since(p.hourStart, Hour) THEN p.hourCount + 1 ELSE 1
             m == p.shown + 1
             q == [p EXCEPT !.lastShown = now, !.shown = m, !.hourStart = h, !.hourCount = k]
             o == n.after # p.shown
             r == i \in suppressed
             e == [id |-> i, at |-> now, before |-> p.lastShown, overtaken |-> o, refused |-> r]
  <2>1. balloon' = i /\ shows' = Append(shows, e)
    BY <1>8 DEF takePending, presentNotification
  <2>2. perId' = [perId EXCEPT ![i] = q]
    BY <1>8 DEF takePending
  <2>3. h \in Nat /\ k \in Nat /\ m \in Nat /\ o \in BOOLEAN /\ r \in BOOLEAN  BY <1>5
  <2>4. r = FALSE  BY <1>1, <1>3, <1>8 DEF RefusalsKnown, MayShow
  <2>5. ~o => p.lastShown = Never \/ now - p.lastShown >= Policy[i].cooldown
    BY <1>1, <1>3 DEF AllOnTime, OnTime
  <2>6. m = p.shown + 1  OBVIOUS
  <2> HIDE DEF h, k, m, o, r
  <2>7. e \in ShowSet /\ e.id = i /\ e.at = now /\ e.before = p.lastShown /\ e.overtaken = o
        /\ e.refused = FALSE
    BY <1>3, <1>5, <2>3, <2>4 DEF ShowSet
  <2>8. q \in StateSet /\ q.suppressed = p.suppressed /\ q.shown = m
    BY <1>4, <1>5, <2>3 DEF StateSet
  <2> HIDE DEF e, q, i, p, n
  <2>9. perId \in [Ids -> StateSet] /\ shows \in Seq(ShowSet)  BY <1>1 DEF NoticeTypes
  <2>10. /\ perId' \in [Ids -> StateSet] /\ perId'[i] = q
         /\ \A j \in Ids \ {i} : perId'[j] = perId[j]
    BY <1>3, <2>2, <2>8, <2>9
  <2>11. shows' \in Seq(ShowSet)  BY <2>1, <2>7, <2>9
  <2>12. \A s \in DOMAIN shows' : (s \in DOMAIN shows /\ shows'[s] = shows[s]) \/ shows'[s] = e
    BY <2>1, <2>7, <2>9
  <2>13. NoticeTypes'
    BY <1>1, <1>2, <1>3, <1>6, <2>1, <2>10, <2>11 DEF NoticeTypes, Sane
  <2>14. RefusalsKnown'
    <3>1. q.suppressed <=> i \in suppressed  BY <1>1, <1>3, <2>8 DEF RefusalsKnown, p, i
    <3> QED  BY <1>1, <1>2, <2>10, <3>1 DEF RefusalsKnown
  <2>15. AllOnTime'
    <3>1. ASSUME NEW x \in NoticeSet, OnTime(x)
          PROVE  x.id # NoNotice =>
                   /\ x.after <= perId'[x.id].shown
                   /\ x.after = perId'[x.id].shown =>
                        \/ perId'[x.id].lastShown = Never
                        \/ now - perId'[x.id].lastShown >= Policy[x.id].cooldown
      <4> SUFFICES ASSUME x.id # NoNotice
                   PROVE  /\ x.after <= perId'[x.id].shown
                          /\ x.after = perId'[x.id].shown =>
                               \/ perId'[x.id].lastShown = Never
                               \/ now - perId'[x.id].lastShown >= Policy[x.id].cooldown
        OBVIOUS
      <4>1. x.id \in Ids /\ x.after \in Nat  BY DEF NoticeSet
      <4>2. CASE x.id # i  BY <2>10, <3>1, <4>1, <4>2 DEF OnTime
      <4>3. CASE x.id = i
        <5>1. x.after <= p.shown  BY <3>1, <4>3 DEF OnTime, p, i, n
        <5>2. perId'[x.id].shown = p.shown + 1  BY <2>6, <2>8, <2>10, <4>3
        <5> QED  BY <1>5, <4>1, <5>1, <5>2
      <4> QED  BY <4>2, <4>3
    <3>2. \A u \in Threads : raising[u] \in NoticeSet /\ OnTime(raising[u])
      BY <1>1 DEF NoticeTypes, AllOnTime, Sane
    <3>3. \A u \in Threads : OnTime(raising[u])'  BY <1>2, <3>1, <3>2 DEF OnTime
    <3>4. OnTime(pendingNotice)'
      BY <1>2, NoRaiseSane DEF OnTime
    <3> QED  BY <3>3, <3>4 DEF AllOnTime
  <2>16. RefusalIsFinal'  BY <1>1, <2>7, <2>12 DEF RefusalIsFinal
  <2>17. CooldownKept'
    <3>1. e.before = Never \/ e.overtaken \/ e.at - e.before >= Policy[e.id].cooldown
      BY <2>5, <2>7
    <3> QED  BY <1>1, <2>12, <3>1 DEF CooldownKept
  <2> QED  BY <1>1, <1>2, <2>13, <2>14, <2>15, <2>16, <2>17 DEF NoticeInv
<1> QED  BY <1>7, <1>8

\* A click on the balloon may refuse its kind.
LEMMA ClickedNotice ==
  ASSUME NoticeInv, onNotificationClicked
  PROVE  NoticeInv'
<1>1. NoticeTypes /\ RefusalsKnown /\ AllOnTime /\ RefusalIsFinal /\ CooldownKept
      /\ Settles(detector)
  BY NoticeFacts
<1>2. /\ balloon \in Ids /\ balloon' = NoNotice
      /\ UNCHANGED <<now, pendingNotice, raising, shows>>
      /\ detector' = detector \/ detector' = NewDetector
      /\ \/ UNCHANGED <<perId, suppressed>>
         \/ /\ perId' = [perId EXCEPT ![balloon].suppressed = TRUE]
            /\ suppressed' = suppressed \cup {balloon}
  BY <1>1 DEF onNotificationClicked, setSuppressed, NoticeTypes
<1>3. perId \in [Ids -> StateSet] /\ suppressed \in SUBSET Ids  BY <1>1 DEF NoticeTypes
<1> DEFINE q == [perId[balloon] EXCEPT !.suppressed = TRUE]
<1>4. q \in StateSet /\ q.suppressed = TRUE /\ q.shown = perId[balloon].shown
      /\ q.lastShown = perId[balloon].lastShown
  BY <1>2, <1>3 DEF StateSet
<1>5. \/ UNCHANGED <<perId, suppressed>>
      \/ perId' = [perId EXCEPT ![balloon] = q] /\ suppressed' = suppressed \cup {balloon}
  BY <1>2
<1> HIDE DEF q
<1>6. /\ perId' \in [Ids -> StateSet] /\ suppressed' \in SUBSET Ids
      /\ \A j \in Ids : perId'[j].shown = perId[j].shown /\ perId'[j].lastShown = perId[j].lastShown
      /\ RefusalsKnown'
  <2>1. CASE UNCHANGED <<perId, suppressed>>  BY <1>1, <1>3, <2>1 DEF RefusalsKnown
  <2>2. CASE perId' = [perId EXCEPT ![balloon] = q] /\ suppressed' = suppressed \cup {balloon}
    <3>1. perId' \in [Ids -> StateSet] /\ suppressed' \in SUBSET Ids
      BY <1>2, <1>3, <1>4, <2>2
    <3>2. perId'[balloon] = q /\ \A j \in Ids \ {balloon} : perId'[j] = perId[j]
      BY <1>2, <1>3, <2>2
    <3>3. RefusalsKnown'  BY <1>1, <1>4, <2>2, <3>2 DEF RefusalsKnown
    <3> QED  BY <1>4, <3>1, <3>2, <3>3
  <2> QED  BY <1>5, <2>1, <2>2
<1>7. NoticeTypes'  BY <1>1, <1>2, <1>6 DEF NoticeTypes, Sane
<1>8. AllOnTime'
  <2>1. \A u \in Threads : raising[u].id \in Ids \cup {NoNotice}  BY <1>1 DEF NoticeTypes, NoticeSet
  <2>2. pendingNotice.id \in Ids \cup {NoNotice}  BY <1>1 DEF NoticeTypes, NoticeSet, Sane
  <2>3. \A u \in Threads : OnTime(raising[u])'
    BY <1>1, <1>2, <1>6, <2>1 DEF AllOnTime, OnTime
  <2>4. OnTime(pendingNotice)'  BY <1>1, <1>2, <1>6, <2>2 DEF AllOnTime, OnTime
  <2> QED  BY <2>3, <2>4 DEF AllOnTime
<1>9. RefusalIsFinal' /\ CooldownKept'  BY <1>1, <1>2 DEF RefusalIsFinal, CooldownKept
<1>10. Settles(detector')  BY <1>1, <1>2, NewSettles
<1> QED  BY <1>6, <1>7, <1>8, <1>9, <1>10 DEF NoticeInv

LEMMA MuteStep ==
  ASSUME NoticeInv, setSessionMuted
  PROVE  NoticeInv'
<1>1. NoticeTypes /\ RefusalsKnown /\ AllOnTime /\ RefusalIsFinal /\ CooldownKept
      /\ Settles(detector)
  BY NoticeFacts
<1>2. UNCHANGED <<now, perId, pendingNotice, raising, suppressed, balloon, detector, shows>>
  BY DEF setSessionMuted
<1>3. NoticeTypes' /\ AllOnTime'  BY <1>1, <1>2 DEF NoticeTypes, AllOnTime, OnTime, Sane
<1>4. RefusalsKnown' /\ RefusalIsFinal' /\ CooldownKept' /\ Settles(detector')
  BY <1>1, <1>2 DEF RefusalsKnown, RefusalIsFinal, CooldownKept
<1> QED  BY <1>3, <1>4 DEF NoticeInv

LEMMA TimePasses ==
  ASSUME NoticeInv, Tick
  PROVE  NoticeInv'
<1>1. NoticeTypes /\ RefusalsKnown /\ AllOnTime /\ RefusalIsFinal /\ CooldownKept
      /\ Settles(detector)
  BY NoticeFacts
<1>2. /\ now' = now + 1
      /\ UNCHANGED <<perId, pendingNotice, raising, suppressed, balloon, detector, shows>>
  BY DEF Tick
<1>3. NoticeTypes'  BY <1>1, <1>2 DEF NoticeTypes, Sane
<1>4. ASSUME NEW n \in NoticeSet, OnTime(n)
      PROVE  n.id # NoNotice =>
               /\ n.after <= perId[n.id].shown
               /\ n.after = perId[n.id].shown =>
                    \/ perId[n.id].lastShown = Never
                    \/ (now + 1) - perId[n.id].lastShown >= Policy[n.id].cooldown
  <2>1. n.id # NoNotice => n.id \in Ids  BY DEF NoticeSet
  <2>2. n.id \in Ids => perId[n.id].lastShown \in Nat /\ Policy[n.id].cooldown \in Nat
    BY <1>1, NoticeAssumption DEF NoticeTypes, StateSet
  <2>3. now \in Nat  BY <1>1 DEF NoticeTypes
  <2> QED  BY <1>4, <2>1, <2>2, <2>3 DEF OnTime
<1>5. AllOnTime'
  <2>1. \A u \in Threads : raising[u] \in NoticeSet /\ OnTime(raising[u])
    BY <1>1 DEF NoticeTypes, AllOnTime
  <2>2. pendingNotice \in NoticeSet /\ OnTime(pendingNotice)
    BY <1>1 DEF NoticeTypes, AllOnTime, Sane
  <2>3. \A u \in Threads : OnTime(raising[u])'  BY <1>2, <1>4, <2>1 DEF OnTime
  <2>4. OnTime(pendingNotice)'  BY <1>2, <1>4, <2>2 DEF OnTime
  <2> QED  BY <2>3, <2>4 DEF AllOnTime
<1>6. RefusalsKnown' /\ RefusalIsFinal' /\ CooldownKept' /\ Settles(detector')
  BY <1>1, <1>2 DEF RefusalsKnown, RefusalIsFinal, CooldownKept
<1> QED  BY <1>3, <1>5, <1>6 DEF NoticeInv

LEMMA ReloadNotices ==
  ASSUME NoticeInv, loadSuppressions
  PROVE  NoticeInv'
<1>1. NoticeTypes /\ RefusalIsFinal /\ CooldownKept  BY NoticeFacts
<1>2. /\ perId' = [i \in Ids |-> [suppressed |-> i \in suppressed, lastShown |-> Never,
                                  hourStart |-> Never, hourCount |-> 0, shown |-> 0]]
      /\ pendingNotice' = NoRaise /\ balloon' = NoNotice
      /\ raising' = [t \in Threads |-> NoRaise] /\ detector' = NewDetector
      /\ UNCHANGED <<now, suppressed, shows>>
  BY DEF loadSuppressions
<1>3. ASSUME NEW i \in Ids
      PROVE  perId'[i] \in StateSet /\ (perId'[i].suppressed <=> i \in suppressed)
  <2> DEFINE b == i \in suppressed
  <2>1. perId'[i] = [suppressed |-> b, lastShown |-> Never, hourStart |-> Never,
                     hourCount |-> 0, shown |-> 0]
    BY <1>2
  <2>2. b \in BOOLEAN  OBVIOUS
  <2> HIDE DEF b
  <2>3. perId'[i] \in StateSet /\ (perId'[i].suppressed <=> b)
    BY <2>1, <2>2 DEF StateSet, Never
  <2> QED  BY <2>3 DEF b
<1>4. perId' \in [Ids -> StateSet]
  <2>1. perId' = [i \in Ids |-> perId'[i]]  BY <1>2
  <2> QED  BY <1>3, <2>1
<1>5. NoRaise \in NoticeSet  BY NoRaiseSane DEF Sane
<1>6. NoticeTypes'  BY <1>1, <1>2, <1>4, <1>5, NoRaiseSane DEF NoticeTypes, Sane
<1>7. RefusalsKnown'  BY <1>2, <1>3 DEF RefusalsKnown
<1>8. AllOnTime'  BY <1>2, NoRaiseSane DEF AllOnTime, OnTime
<1>9. RefusalIsFinal' /\ CooldownKept'  BY <1>1, <1>2 DEF RefusalIsFinal, CooldownKept
<1>10. Settles(detector')  BY <1>2, NewSettles
<1> QED  BY <1>6, <1>7, <1>8, <1>9, <1>10 DEF NoticeInv

LEMMA NoticeStep == NoticeInv /\ NoticeNext => NoticeInv'
BY KeyedStep, TimePasses, HappensStep, StoreNotice, TakeNotice, ClickedNotice, MuteStep,
   ReloadNotices DEF NoticeNext

LEMMA NoticeStays == NoticeInv /\ UNCHANGED noticeVars => NoticeInv'
<1> SUFFICES ASSUME NoticeInv, UNCHANGED noticeVars PROVE NoticeInv'
  OBVIOUS
<1>1. NoticeTypes /\ RefusalsKnown /\ AllOnTime /\ RefusalIsFinal /\ CooldownKept
      /\ Settles(detector)
  BY NoticeFacts
<1>2. UNCHANGED <<now, perId, pendingNotice, raising, suppressed, balloon, detector, shows>>
  BY DEF noticeVars
<1>3. NoticeTypes' /\ AllOnTime'  BY <1>1, <1>2 DEF NoticeTypes, AllOnTime, OnTime, Sane
<1>4. RefusalsKnown' /\ RefusalIsFinal' /\ CooldownKept' /\ Settles(detector')
  BY <1>1, <1>2 DEF RefusalsKnown, RefusalIsFinal, CooldownKept
<1> QED  BY <1>3, <1>4 DEF NoticeInv

LEMMA NoticeInvIsSound == NoticeInv => NoticesSound
BY DEF NoticeInv, NoticesSound, Settles, ExpansionsSettleOnce

\* A refusal is final, a kind keeps its cooldown, and an expansion is settled once, for any notices,
\* policies and weights (Notifications.hpp, main.cpp).
THEOREM NoticeInvariant == NoticeSpec => []NoticesSound
<1>1. NoticeInv /\ [NoticeNext]_noticeVars => NoticeInv'  BY NoticeStep, NoticeStays
<1> QED  BY InitNotice, <1>1, NoticeInvIsSound, PTL DEF NoticeSpec
=============================================================================

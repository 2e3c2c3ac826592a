----------------------------- MODULE TextProof ------------------------------
(***************************************************************************)
(* The two models of text, for every size of their buffers.                *)
(*                                                                         *)
(* LiveEffects: while nothing changes, the word being typed stands on the  *)
(* screen, each letter in the case that its position gives (StyleIsKept).  *)
(*                                                                         *)
(* TextSession: what the engine believes stands before the caret stands    *)
(* there, and a key rewrites no text in front of the present word          *)
(* (MirrorHolds, WordIsAlwaysSound, EditsStay).                            *)
(***************************************************************************)
EXTENDS TextSession, LiveEffects, DataFacts

(***************************************************************************)
(* The property speaks of the word; Backspace may recall the text before   *)
(* it, so what has to stand on the screen is all the engine remembers.     *)
(***************************************************************************)
Remembered == before \o word

\* The i-th letter of a text that ends at the cursor, as it is shown.
ShownAt(t, i) == IF Live THEN map(t[i], cursor - Len(t) + i - 1) ELSE t[i]

Stands(t) ==
  /\ Live => Len(t) <= cursor
  /\ Len(t) <= Len(screen)
  /\ \A i \in 1 .. Len(t) : screen[Len(screen) - Len(t) + i] = ShownAt(t, i)

\* The text is claimed to stand while no configuration is on its way, in an
\* application, with the engine on and no caret edit since.
Claimed ==
  /\ published = applied /\ ~pending /\ ui # "pending"
  /\ focus = "app" /\ engineOn /\ ~jumped

\* The tray switch has dropped the word before it clears or sets the flag: with
\* the engine off nothing is remembered but what was left before the caret.
DroppedBySwitch == ui = "toggle" /\ ~engineOn => word = <<>> /\ (before = <<>> \/ jumped)

LiveTypes ==
  /\ word \in Seq(Nat) /\ before \in Seq(Nat) /\ screen \in Seq(Nat)
  /\ cursor \in Nat

LiveInv == LiveTypes /\ (Claimed => Stands(Remembered)) /\ DroppedBySwitch

-----------------------------------------------------------------------------
(* Letters.                                                                *)

LEMMA CaseIsLetter ==
  ASSUME NEW c \in Nat PROVE toggleCaseVn(c) \in Nat
<1>1. toUpperVn(c) \in Nat  BY DEF toUpperVn, VnFirst, VnLast
<1>2. toLowerVn(c) \in Nat  BY DEF toLowerVn, VnFirst, VnLast
<1> QED  BY <1>1, <1>2 DEF toggleCaseVn

LEMMA StyledType ==
  ASSUME NEW t \in Seq(Nat), NEW from \in Nat
  PROVE  styled(t, from) \in Seq(Nat) /\ Len(styled(t, from)) = Len(t)
<1>1. \A i \in 1 .. Len(t) : map(t[i], from + i - 1) \in Nat
  <2> TAKE i \in 1 .. Len(t)
  <2>1. t[i] \in Nat  OBVIOUS
  <2> QED  BY <2>1, CaseIsLetter DEF map
<1> QED  BY <1>1 DEF styled

LEMMA LastIsThere ==
  ASSUME word \in Seq(Nat), NEW c, Has(c)
  PROVE  LastOf(c) \in 1 .. Len(word) /\ word[LastOf(c)] = c
<1> DEFINE S == {i \in 1 .. Len(word) : word[i] = c}
<1>1. S # {} /\ S \subseteq 0 .. Len(word) /\ Len(word) \in Nat  BY DEF Has
<1>2. \E m \in S : \A n \in S : n <= m
  <2> HIDE DEF S
  <2> QED  BY <1>1, GreatestNumber
<1>3. PICK m \in 1 .. Len(word) : word[m] = c /\ \A k \in m + 1 .. Len(word) : word[k] # c
  BY <1>2
<1> QED  BY <1>3 DEF LastOf

-----------------------------------------------------------------------------
(* A text on the screen.                                                   *)

LEMMA StandsIsSuffix ==
  ASSUME NEW s \in Seq(Nat), NEW t \in Seq(Nat), Len(t) <= Len(s),
         \A i \in 1 .. Len(t) : s[Len(s) - Len(t) + i] = t[i]
  PROVE  EndsWith(s, t)
<1> DEFINE u == SubSeq(s, Len(s) - Len(t) + 1, Len(s))
<1>1. Len(s) \in Nat /\ Len(t) \in Nat  OBVIOUS
<1>2. u \in Seq(Nat) /\ Len(u) = Len(t) /\ \A i \in 1 .. Len(t) : u[i] = s[Len(s) - Len(t) + i]
  BY <1>1
<1>3. u = t
  <2> HIDE DEF u
  <2> QED  BY <1>2, SeqEqual
<1> QED  BY <1>3 DEF EndsWith

LEMMA JoinParts ==
  ASSUME NEW s \in Seq(Nat), NEW t \in Seq(Nat)
  PROVE  /\ s \o t \in Seq(Nat) /\ Len(s \o t) = Len(s) + Len(t)
         /\ \A i \in 1 .. Len(s) : (s \o t)[i] = s[i]
         /\ \A j \in 1 .. Len(t) : (s \o t)[Len(s) + j] = t[j]
<1>1. Len(s) \in Nat /\ Len(t) \in Nat  OBVIOUS
<1>2. s \o t \in Seq(Nat) /\ Len(s \o t) = Len(s) + Len(t)  BY <1>1
<1>3. \A i \in 1 .. Len(s) : (s \o t)[i] = s[i]  BY <1>1
<1>4. \A j \in 1 .. Len(t) : (s \o t)[Len(s) + j] = t[j]  BY <1>1
<1> QED  BY <1>2, <1>3, <1>4

LEMMA FrontIs ==
  ASSUME NEW s \in Seq(Nat), s # <<>>
  PROVE  /\ Front(s) \in Seq(Nat) /\ Len(s) \in Nat \ {0} /\ Len(Front(s)) = Len(s) - 1
         /\ \A k \in 1 .. Len(s) - 1 : Front(s)[k] = s[k]
<1>1. Len(s) \in Nat \ {0} /\ Len(s) - 1 \in 0 .. Len(s)  OBVIOUS
<1>2. Front(s) = SubSeq(s, 1, Len(s) - 1)  BY DEF Front
<1>3. \A i \in 1 .. Len(s) - 1 : s[i] \in Nat  BY <1>1
<1>4. PICK m \in Nat : m = Len(s) - 1  BY <1>1
<1>5. /\ SubSeq(s, 1, m) \in Seq(Nat) /\ Len(SubSeq(s, 1, m)) = m
      /\ \A k \in 1 .. m : SubSeq(s, 1, m)[k] = s[k]
  BY <1>1, <1>3, <1>4
<1> QED  BY <1>1, <1>2, <1>4, <1>5

\* The word is the end of what is remembered.
LEMMA WordStands ==
  ASSUME LiveTypes, engineOn, focus = "app", Stands(Remembered)
  PROVE  WordOnScreen
<1> DEFINE n == Len(before)
           k == Len(word)
           at == Back(cursor, k)
<1>1. /\ n \in Nat /\ k \in Nat /\ Remembered \in Seq(Nat) /\ Len(Remembered) = n + k
      /\ \A i \in 1 .. k : Remembered[n + i] = word[i]
      /\ Len(screen) \in Nat /\ cursor \in Nat
  BY DEF Remembered, LiveTypes
<1>2. k <= Len(screen)  BY <1>1 DEF Stands
<1>3. ASSUME NEW i \in 1 .. k
      PROVE  screen[Len(screen) - k + i]
               = IF Live THEN map(word[i], cursor - k + i - 1) ELSE word[i]
  <2>1. n + i \in 1 .. Len(Remembered)  BY <1>1
  <2>2. /\ Len(screen) - Len(Remembered) + (n + i) = Len(screen) - k + i
        /\ cursor - Len(Remembered) + (n + i) - 1 = cursor - k + i - 1
    BY <1>1
  <2>3. screen[Len(screen) - Len(Remembered) + (n + i)] = ShownAt(Remembered, n + i)
    BY <2>1 DEF Stands
  <2> QED  BY <1>1, <2>2, <2>3 DEF ShownAt
<1>4. CASE Live
  <2>1. k <= cursor /\ at = cursor - k  BY <1>1, <1>4 DEF Stands, Back
  <2>2. at \in Nat  BY <1>1, <2>1
  <2>3. styled(word, at) \in Seq(Nat) /\ Len(styled(word, at)) = k
    BY <2>2, StyledType DEF LiveTypes
  <2>4. \A i \in 1 .. k : screen[Len(screen) - k + i] = styled(word, at)[i]
    BY <1>3, <1>4, <2>1 DEF styled
  <2>5. EndsWith(screen, styled(word, at))
    <3> HIDE DEF at
    <3> QED  BY <1>2, <2>3, <2>4, StandsIsSuffix DEF LiveTypes
  <2> QED  BY <1>4, <2>5 DEF WordOnScreen, gateActive, Live, ownWindowHasFocus
<1>5. CASE ~Live
  <2>1. EndsWith(screen, word)  BY <1>2, <1>3, <1>5, StandsIsSuffix DEF LiveTypes
  <2> QED  BY <1>5, <2>1 DEF WordOnScreen, gateActive, Live, ownWindowHasFocus
<1> QED  BY <1>4, <1>5

\* Nothing to remember stands anywhere.
LEMMA NothingStands ==
  ASSUME LiveTypes, word = <<>>, before = <<>>
  PROVE  Stands(Remembered)
<1>1. Remembered = <<>> /\ Len(Remembered) = 0  BY DEF Remembered
<1> QED  BY <1>1 DEF Stands, LiveTypes

LEMMA FreshStands ==
  ASSUME LiveTypes', word' = <<>>, before' = <<>>
  PROVE  Stands(Remembered)'
<1>1. Remembered' = <<>> /\ Len(<<>>) = 0  BY DEF Remembered
<1> QED  BY <1>1 DEF Stands, LiveTypes

LEMMA SameStands ==
  ASSUME Stands(Remembered),
         UNCHANGED <<published, applied, unicode, cursor, screen, word, before>>
  PROVE  Stands(Remembered)'
BY DEF Stands, Remembered, ShownAt, Live, map

(***************************************************************************)
(* The engine's edits: `n` letters of what is remembered are taken back,   *)
(* `text` is written, and the engine remembers t.  planOutput styles what  *)
(* is written from the position of the first letter taken back.            *)
(***************************************************************************)
LEMMA DeliverTypes ==
  ASSUME LiveTypes, NEW n \in Nat, NEW text \in Seq(Nat), NEW live,
         Deliver(live, n, text)
  PROVE  cursor' \in Nat /\ screen' \in Seq(Nat)
<1>1. Rewound(cursor, n) \in Nat  BY DEF Rewound, Back, LiveTypes
<1>2. styled(text, Rewound(cursor, n)) \in Seq(Nat)  BY <1>1, StyledType
<1>3. SubSeq(screen, 1, Back(Len(screen), n)) \in Seq(Nat)
  <2>1. Back(Len(screen), n) \in 0 .. Len(screen)  BY DEF Back, LiveTypes
  <2> QED  BY <2>1 DEF LiveTypes
<1>4. \A s \in Seq(Nat) : Shown(n, s) \in Seq(Nat)  BY <1>3 DEF Shown
<1> QED  BY <1>1, <1>2, <1>4 DEF Deliver, LiveTypes

LEMMA RewriteStands ==
  ASSUME LiveTypes, Stands(Remembered), UNCHANGED <<published, applied, unicode>>,
         NEW n \in 0 .. Len(Remembered), NEW text \in Seq(Nat), Deliver(Live, n, text),
         NEW t \in Seq(Nat), Remembered' = t,
         Len(t) = Len(Remembered) - n + Len(text),
         \A i \in 1 .. Len(Remembered) - n : t[i] = Remembered[i],
         \A i \in 1 .. Len(text) : t[Len(Remembered) - n + i] = text[i]
  PROVE  Stands(Remembered)'
<1> DEFINE m == Len(Remembered)
           l == Len(text)
           from == Rewound(cursor, n)
           new == IF Live THEN styled(text, from) ELSE text
           old == SubSeq(screen, 1, Len(screen) - n)
<1>1. /\ Remembered \in Seq(Nat) /\ m \in Nat /\ l \in Nat /\ n \in Nat /\ n <= m
      /\ Len(screen) \in Nat /\ cursor \in Nat /\ m <= Len(screen)
  BY DEF LiveTypes, Remembered, Stands
<1>2. Live => from = cursor - n /\ from \in Nat /\ cursor' = from + l
  <2>1. ASSUME Live PROVE from = cursor - n /\ from \in Nat
    <3>1. n <= cursor  BY <1>1, <2>1 DEF Stands
    <3> QED  BY <1>1, <3>1 DEF Rewound, Back
  <2> QED  BY <2>1 DEF Deliver
<1>3. new \in Seq(Nat) /\ Len(new) = l
  BY <1>2, StyledType
<1>4. screen' = old \o new
  <2>1. Back(Len(screen), n) = Len(screen) - n  BY <1>1 DEF Back
  <2> QED  BY <2>1 DEF Deliver, Shown
<1>5. old \in Seq(Nat) /\ Len(old) = Len(screen) - n
      /\ \A i \in 1 .. Len(screen) - n : old[i] = screen[i]
  <2>1. screen \in Seq(Nat) /\ Len(screen) - n \in 0 .. Len(screen)
    BY <1>1 DEF LiveTypes
  <2> QED  BY <2>1, SMTT(30)
<1>6. Len(screen') = Len(screen) - n + l
  <2> HIDE DEF old, new
  <2>1. Len(old \o new) = Len(old) + Len(new)  BY <1>3, <1>5, JoinParts
  <2> QED  BY <1>3, <1>4, <1>5, <2>1
<1>7. Live' = Live  BY DEF Live
<1>8. \A c, p : map(c, p)' = map(c, p)  BY DEF map
<1>9. Live => Len(t) <= cursor'
  <2>1. ASSUME Live PROVE Len(t) <= cursor'
    <3>1. m <= cursor  BY <2>1 DEF Stands
    <3> QED  BY <1>1, <1>2, <2>1, <3>1
  <2> QED  BY <2>1
<1>10. Len(t) <= Len(screen')  BY <1>1, <1>6
<1>11. ASSUME NEW i \in 1 .. Len(t)
       PROVE  screen'[Len(screen') - Len(t) + i]
                = IF Live THEN map(t[i], cursor' - Len(t) + i - 1) ELSE t[i]
  <2>1. Len(screen') - Len(t) + i = Len(screen) - m + i  BY <1>1, <1>6
  <2>2. Live => cursor' - Len(t) + i - 1 = cursor - m + i - 1
    BY <1>1, <1>2, SMTT(30)
  <2>3. CASE i \in 1 .. m - n
    <3>1. screen'[Len(screen) - m + i] = screen[Len(screen) - m + i]
      <4>1. Len(screen) - m + i \in 1 .. Len(screen) - n
        <5> HIDE DEF m, l, from, new, old
        <5> QED  BY <1>1, <2>3
      <4> HIDE DEF old, new
      <4> QED  BY <1>3, <1>4, <1>5, <4>1
    <3>2. i \in 1 .. m  BY <1>1, <2>3
    <3>3. screen[Len(screen) - m + i] = ShownAt(Remembered, i)  BY <3>2 DEF Stands
    <3> QED  BY <2>1, <2>2, <2>3, <3>1, <3>3 DEF ShownAt
  <2>4. CASE i \notin 1 .. m - n
    <3> DEFINE j == i - (m - n)
    <3>1. j \in 1 .. l /\ i = (m - n) + j  BY <1>1, <2>4
    <3>2. t[i] = text[j]  BY <3>1
    <3>3. screen'[Len(screen) - m + i] = new[j]
      <4>1. Len(screen) - m + i = (Len(screen) - n) + j  BY <1>1
      <4> HIDE DEF old, new, j
      <4>2. j \in 1 .. Len(new)  BY <1>3, <3>1
      <4>3. (old \o new)[Len(old) + j] = new[j]
        <5> HIDE DEF l, m
        <5> QED  BY <1>3, <1>5, <4>2, JoinParts
      <4> QED  BY <1>4, <1>5, <4>1, <4>3
    <3>4. Live => new[j] = map(text[j], from + j - 1)  BY <3>1 DEF styled
    <3>5. Live => from + j - 1 = cursor - m + i - 1  BY <1>1, <1>2
    <3>6. ~Live => new[j] = text[j]  OBVIOUS
    <3> HIDE DEF new, j, from
    <3> QED  BY <2>1, <2>2, <3>2, <3>3, <3>4, <3>5, <3>6
  <2> QED  BY <2>3, <2>4
<1> HIDE DEF from, new, old
<1> QED  BY <1>7, <1>8, <1>9, <1>10, <1>11 DEF Stands, ShownAt

-----------------------------------------------------------------------------
(* What a key does.                                                        *)

\* The word is replaced from letter i on; what is before it stays.
LEMMA EditStands ==
  ASSUME LiveTypes, Stands(Remembered), UNCHANGED <<published, applied, unicode, before>>,
         NEW w \in Seq(Nat), word' = w, NEW i \in 1 .. Len(word) + 1, i <= Len(w) + 1,
         \A k \in 1 .. i - 1 : w[k] = word[k],
         NEW text \in Seq(Nat), Len(text) = Len(w) - i + 1,
         \A k \in 1 .. Len(text) : text[k] = w[i + k - 1],
         Deliver(Live, Len(word) - i + 1, text)
  PROVE  Stands(Remembered)'
<1> DEFINE n == Len(word) - i + 1
           b == Len(before)
           t == before \o w
<1>1. /\ b \in Nat /\ Len(word) \in Nat /\ Len(w) \in Nat /\ i \in Nat
      /\ before \in Seq(Nat) /\ word \in Seq(Nat)
  BY DEF LiveTypes
<1>2. /\ Len(Remembered) = b + Len(word)
      /\ \A k \in 1 .. b : Remembered[k] = before[k]
      /\ \A k \in 1 .. Len(word) : Remembered[b + k] = word[k]
  BY <1>1, JoinParts DEF Remembered
<1>3. /\ t \in Seq(Nat) /\ Len(t) = b + Len(w)
      /\ \A k \in 1 .. b : t[k] = before[k]
      /\ \A k \in 1 .. Len(w) : t[b + k] = w[k]
  BY <1>1, JoinParts
<1>4. n \in 0 .. Len(Remembered) /\ Len(Remembered) - n = b + (i - 1)
  BY <1>1, <1>2
<1>5. Remembered' = t  BY DEF Remembered
<1> HIDE DEF t
<1>6. Len(t) = Len(Remembered) - n + Len(text)  BY <1>1, <1>2, <1>3, <1>4
<1>7. ASSUME NEW k \in 1 .. Len(Remembered) - n PROVE t[k] = Remembered[k]
  <2>1. CASE k \in 1 .. b  BY <1>2, <1>3, <2>1
  <2>2. CASE k \notin 1 .. b
    <3>1. k \in 1 .. b + (i - 1)  BY <1>4, <1>7
    <3>2. PICK j \in 1 .. i - 1 : k = b + j
      <4>1. k - b \in 1 .. i - 1 /\ k = b + (k - b)  BY <1>1, <2>2, <3>1
      <4> QED  BY <4>1
    <3>3. j \in 1 .. Len(w) /\ j \in 1 .. Len(word)  BY <1>1
    <3>4. t[b + j] = w[j] /\ Remembered[b + j] = word[j]  BY <1>2, <1>3, <3>3
    <3> QED  BY <3>2, <3>4
  <2> QED  BY <2>1, <2>2
<1>8. ASSUME NEW k \in 1 .. Len(text) PROVE t[Len(Remembered) - n + k] = text[k]
  <2>1. i + k - 1 \in 1 .. Len(w) /\ Len(Remembered) - n + k = b + (i + k - 1)
    <3>1. k \in 1 .. Len(w) - i + 1  BY <1>8
    <3>2. i + k - 1 \in 1 .. Len(w)  BY <1>1, <3>1
    <3>3. b + (i - 1) + k = b + (i + k - 1)  BY <1>1, <3>1
    <3> QED  BY <1>4, <3>2, <3>3
  <2>2. t[b + (i + k - 1)] = w[i + k - 1]  BY <1>3, <2>1
  <2> QED  BY <1>8, <2>1, <2>2
<1> HIDE DEF n
<1>9. Deliver(Live, n, text)  BY DEF n
<1> QED  BY <1>3, <1>4, <1>5, <1>6, <1>7, <1>8, <1>9, RewriteStands

\* A letter is written behind the word.
LEMMA AppendStands ==
  ASSUME LiveTypes, Stands(Remembered), UNCHANGED <<published, applied, unicode>>,
         NEW c \in Nat, Deliver(Live, 0, <<c>>),
         Remembered' = Remembered \o <<c>>
  PROVE  Stands(Remembered)'
<1> DEFINE t == Remembered \o <<c>>
           s == <<c>>
<1>1. Remembered \in Seq(Nat) /\ s \in Seq(Nat) /\ Len(s) = 1 /\ Len(Remembered) \in Nat
  BY DEF LiveTypes, Remembered
<1>2. /\ t \in Seq(Nat) /\ Len(t) = Len(Remembered) - 0 + Len(s)
      /\ \A i \in 1 .. Len(Remembered) - 0 : t[i] = Remembered[i]
      /\ \A i \in 1 .. Len(s) : t[Len(Remembered) - 0 + i] = s[i]
  BY <1>1, JoinParts
<1>3. Deliver(Live, 0, s) /\ 0 \in 0 .. Len(Remembered)  BY <1>1
<1> HIDE DEF t, s
<1>4. Remembered' = t  BY DEF t
<1> QED  BY <1>1, <1>2, <1>3, <1>4, RewriteStands

\* Backspace takes the last letter of what is remembered, the blank before the
\* word too: then the word before the blank is the word again.
LEMMA BackRemembers ==
  ASSUME LiveTypes
  PROVE  /\ AfterBack.word \in Seq(Nat) /\ AfterBack.before \in Seq(Nat)
         /\ Remembered # <<>> => AfterBack.before \o AfterBack.word = Front(Remembered)
         /\ Remembered = <<>> => AfterBack.before = <<>> /\ AfterBack.word = <<>>
<1>1. word \in Seq(Nat) /\ before \in Seq(Nat) /\ Len(word) \in Nat /\ Len(before) \in Nat
  BY DEF LiveTypes
<1>2. CASE word # <<>>
  <2>1. AfterBack = [word |-> Front(word), before |-> before]  BY <1>2 DEF AfterBack
  <2>2. Front(word) \in Seq(Nat) /\ Len(word) # 0  BY <1>1, <1>2, FrontIs
  <2>3. Remembered # <<>>  BY <1>1, <2>2, JoinParts DEF Remembered
  <2>4. before \o Front(word) = Front(Remembered)
    <3> DEFINE u == before \o Front(word)
               v == Front(Remembered)
    <3>1. /\ Front(word) \in Seq(Nat) /\ Len(Front(word)) = Len(word) - 1
          /\ \A k \in 1 .. Len(word) - 1 : Front(word)[k] = word[k]
      BY <1>1, <1>2, FrontIs
    <3>2. /\ u \in Seq(Nat) /\ Len(u) = Len(before) + (Len(word) - 1)
          /\ \A k \in 1 .. Len(before) : u[k] = before[k]
          /\ \A k \in 1 .. Len(word) - 1 : u[Len(before) + k] = word[k]
      <4> DEFINE f == Front(word)
      <4>1. f \in Seq(Nat) /\ Len(f) = Len(word) - 1 /\ \A k \in 1 .. Len(word) - 1 : f[k] = word[k]
        BY <3>1
      <4> HIDE DEF f
      <4>2. /\ before \o f \in Seq(Nat) /\ Len(before \o f) = Len(before) + (Len(word) - 1)
            /\ \A k \in 1 .. Len(before) : (before \o f)[k] = before[k]
            /\ \A k \in 1 .. Len(word) - 1 : (before \o f)[Len(before) + k] = f[k]
        <5>1. \A k \in 1 .. Len(f) : (before \o f)[Len(before) + k] = f[k]
          BY <1>1, <4>1, JoinParts
        <5>2. before \o f \in Seq(Nat) /\ Len(before \o f) = Len(before) + Len(f)
          BY <1>1, <4>1, JoinParts
        <5>3. \A k \in 1 .. Len(before) : (before \o f)[k] = before[k]
          BY <1>1, <4>1, JoinParts
        <5> QED  BY <4>1, <5>1, <5>2, <5>3
      <4> QED  BY <4>1, <4>2 DEF f
    <3>3. /\ Remembered \in Seq(Nat) /\ Len(Remembered) = Len(before) + Len(word)
          /\ \A k \in 1 .. Len(before) : Remembered[k] = before[k]
          /\ \A k \in 1 .. Len(word) : Remembered[Len(before) + k] = word[k]
      BY <1>1, JoinParts DEF Remembered
    <3>4. /\ v \in Seq(Nat) /\ Len(v) = Len(before) + (Len(word) - 1)
          /\ \A k \in 1 .. Len(v) : v[k] = Remembered[k]
      <4>1. Len(Remembered) - 1 = Len(before) + (Len(word) - 1)  BY <1>1, <3>3
      <4> QED  BY <2>3, <3>3, <4>1, FrontIs
    <3> HIDE DEF u, v
    <3>5. ASSUME NEW k \in 1 .. Len(u) PROVE u[k] = v[k]
      <4>1. CASE k \in 1 .. Len(before)  BY <3>2, <3>3, <3>4, <4>1
      <4>2. CASE k \notin 1 .. Len(before)
        <5>1. /\ k - Len(before) \in 1 .. Len(word) - 1 /\ k = Len(before) + (k - Len(before))
              /\ k - Len(before) \in 1 .. Len(word)
          BY <1>1, <3>2, <4>2
        <5>2. u[Len(before) + (k - Len(before))] = word[k - Len(before)]  BY <3>2, <5>1
        <5>3. Remembered[Len(before) + (k - Len(before))] = word[k - Len(before)]
          BY <3>3, <5>1
        <5>4. v[k] = Remembered[k]  BY <3>2, <3>4
        <5> QED  BY <5>1, <5>2, <5>3, <5>4
      <4> QED  BY <4>1, <4>2
    <3>6. u = v  BY <3>2, <3>4, <3>5, SeqEqual
    <3> QED  BY <3>6 DEF u, v
  <2> QED  BY <1>1, <2>1, <2>2, <2>3, <2>4
<1>3. CASE word = <<>> /\ before = <<>>
  <2>1. AfterBack = [word |-> word, before |-> before]  BY <1>3 DEF AfterBack
  <2>2. Remembered = <<>>  BY <1>3 DEF Remembered
  <2> QED  BY <1>1, <1>3, <2>1, <2>2
<1>4. CASE word = <<>> /\ before # <<>>
  <2> DEFINE text == Front(before)
             blanks == {i \in 1 .. Len(text) : text[i] = Blank}
             start == IF blanks = {} THEN 0
                      ELSE CHOOSE i \in blanks : \A k \in blanks : k <= i
             left == SubSeq(text, 1, start)
             right == SubSeq(text, start + 1, Len(text))
  <2>1. text \in Seq(Nat) /\ Len(text) \in Nat  BY <1>1, <1>4, FrontIs
  <2>2. AfterBack = [word |-> right, before |-> left]  BY <1>4 DEF AfterBack, WordsBefore
  <2>3. start \in 0 .. Len(text)
    <3>1. CASE blanks = {}  BY <2>1, <3>1
    <3>2. CASE blanks # {}
      <4>1. blanks \subseteq 0 .. Len(text)  BY <2>1
      <4>2. \E m \in blanks : \A n \in blanks : n <= m
        <5> HIDE DEF blanks
        <5> QED  BY <2>1, <3>2, <4>1, GreatestNumber
      <4>3. start \in blanks  BY <3>2, <4>2
      <4> QED  BY <4>1, <4>3
    <3> QED  BY <3>1, <3>2
  <2>4. Remembered = before
    <3>1. Remembered = before \o <<>>  BY <1>4 DEF Remembered
    <3> QED  BY <1>1, <3>1, ConcatEmptySeq
  <2> HIDE DEF text, start
  <2>5. /\ left \in Seq(Nat) /\ Len(left) = start
        /\ \A k \in 1 .. start : left[k] = text[k]
    BY <2>1, <2>3
  <2>6. /\ right \in Seq(Nat) /\ Len(right) = Len(text) - start
        /\ \A k \in 1 .. Len(text) - start : right[k] = text[start + k]
    BY <2>1, <2>3
  <2> HIDE DEF left, right
  <2>7. left \o right = text
    <3>1. /\ left \o right \in Seq(Nat) /\ Len(left \o right) = Len(text)
          /\ \A k \in 1 .. start : (left \o right)[k] = left[k]
          /\ \A k \in 1 .. Len(text) - start : (left \o right)[start + k] = right[k]
      <4>1. Len(left) + Len(right) = Len(text)  BY <2>1, <2>3, <2>5, <2>6
      <4> QED  BY <2>5, <2>6, <4>1, JoinParts, SMTT(30)
    <3>2. ASSUME NEW k \in 1 .. Len(text) PROVE (left \o right)[k] = text[k]
      <4>1. CASE k \in 1 .. start  BY <2>5, <3>1, <4>1
      <4>2. CASE k \notin 1 .. start
        <5>1. k - start \in 1 .. Len(text) - start /\ k = start + (k - start)
          BY <2>1, <2>3, <4>2
        <5>2. (left \o right)[start + (k - start)] = right[k - start]  BY <3>1, <5>1
        <5>3. right[k - start] = text[start + (k - start)]  BY <2>6, <5>1
        <5> QED  BY <5>1, <5>2, <5>3
      <4> QED  BY <4>1, <4>2
    <3> DEFINE joined == left \o right
    <3>3. /\ joined \in Seq(Nat) /\ Len(joined) = Len(text)
          /\ \A k \in 1 .. Len(joined) : joined[k] = text[k]
      BY <3>1, <3>2
    <3> HIDE DEF joined
    <3>4. joined = text  BY <2>1, <3>3, SeqEqual
    <3> QED  BY <3>4 DEF joined
  <2> QED  BY <1>4, <2>2, <2>4, <2>5, <2>6, <2>7 DEF text
<1> QED  BY <1>2, <1>3, <1>4

\* A Backspace takes one letter from both.
LEMMA BackStands ==
  ASSUME LiveTypes, Stands(Remembered), UNCHANGED <<published, applied, unicode>>,
         word' = AfterBack.word, before' = AfterBack.before,
         cursor' = Backspaced(Live), screen' = Shown(1, <<>>)
  PROVE  Stands(Remembered)'
<1>1. CASE Remembered = <<>>
  <2>1. word' = <<>> /\ before' = <<>>  BY <1>1, BackRemembers
  <2>2. Remembered' = <<>> /\ Len(<<>>) = 0  BY <2>1 DEF Remembered
  <2>3. cursor' \in Nat /\ Len(screen') \in Nat
    <3>1. cursor' \in Nat  BY DEF Backspaced, Back, LiveTypes
    <3>2. SubSeq(screen, 1, Back(Len(screen), 1)) \in Seq(Nat)
      <4>1. Back(Len(screen), 1) \in 0 .. Len(screen)  BY DEF Back, LiveTypes
      <4> QED  BY <4>1 DEF LiveTypes
    <3>3. screen' \in Seq(Nat)  BY <3>2 DEF Shown
    <3> QED  BY <3>1, <3>3
  <2> QED  BY <2>2, <2>3 DEF Stands
<1>2. CASE Remembered # <<>>
  <2> DEFINE t == Front(Remembered)
             none == <<>>
  <2>1. Remembered \in Seq(Nat)  BY JoinParts DEF Remembered, LiveTypes
  <2>2. /\ t \in Seq(Nat) /\ Len(Remembered) \in Nat \ {0} /\ Len(t) = Len(Remembered) - 1
        /\ \A k \in 1 .. Len(Remembered) - 1 : t[k] = Remembered[k]
    BY <1>2, <2>1, FrontIs
  <2>3. Remembered' = t  BY <1>2, BackRemembers DEF Remembered
  <2>4. none \in Seq(Nat) /\ Len(none) = 0  OBVIOUS
  <2>5. Deliver(Live, 1, none)
    <3>1. Live => styled(none, Rewound(cursor, 1)) = <<>>
      <4>1. 1 .. 0 = {}  OBVIOUS
      <4>2. styled(none, Rewound(cursor, 1)) \in Seq(Nat)
            /\ Len(styled(none, Rewound(cursor, 1))) = 0
        <5>1. Rewound(cursor, 1) \in Nat  BY DEF Rewound, Back, LiveTypes
        <5> QED  BY <2>4, <5>1, StyledType
      <4> QED  BY <4>2, EmptySeq
    <3>2. Live => cursor' = Rewound(cursor, 1) + Len(none)
      <4>1. Back(cursor, 1) \in Nat  BY DEF Back, LiveTypes
      <4> QED  BY <2>4, <4>1 DEF Backspaced, Rewound
    <3>3. ~Live => cursor' = cursor  BY DEF Backspaced
    <3> QED  BY <3>1, <3>2, <3>3 DEF Deliver
  <2> HIDE DEF t, none
  <2>6. Len(t) = Len(Remembered) - 1 + Len(none)  BY <2>2, <2>4
  <2>7. 1 \in 0 .. Len(Remembered)  BY <2>2
  <2>8. \A i \in 1 .. Len(none) : t[Len(Remembered) - 1 + i] = none[i]  BY <2>4
  <2> QED  BY <2>2, <2>3, <2>4, <2>5, <2>6, <2>7, <2>8, RewriteStands
<1> QED  BY <1>1, <1>2

\* A letter, a dot put on a letter behind which others stand, or one taken back.
LEMMA ComposedStands ==
  ASSUME LiveTypes, NEW c \in Nat, NEW live,
         UNCHANGED <<published, applied, unicode, before>>,
         word' = Composed(c).word,
         IF Composed(c).edit.on
         THEN Deliver(live, Composed(c).edit.erase, Composed(c).edit.text)
         ELSE Deliver(live, 0, <<c>>)
  PROVE  /\ word' \in Seq(Nat) /\ cursor' \in Nat /\ screen' \in Seq(Nat)
         /\ Stands(Remembered) /\ (live <=> Live) => Stands(Remembered)'
<1> DEFINE r == Composed(c)
           Kept == /\ word' \in Seq(Nat) /\ cursor' \in Nat /\ screen' \in Seq(Nat)
                   /\ Stands(Remembered) /\ (live <=> Live) => Stands(Remembered)'
<1>1. word \in Seq(Nat) /\ Len(word) \in Nat  BY DEF LiveTypes
<1>2. ASSUME NEW w \in Seq(Nat), NEW i \in 1 .. Len(word), i <= Len(w),
             \A k \in 1 .. i - 1 : w[k] = word[k],
             r = [word |-> w, edit |-> EditFrom(i, SubSeq(w, i, Len(w)))]
      PROVE  Kept
  <2> DEFINE text == SubSeq(w, i, Len(w))
             n == Len(word) - i + 1
  <2>1. Len(w) \in Nat /\ i \in Nat /\ n \in Nat /\ i <= Len(w)  BY <1>1, <1>2
  <2>2. /\ text \in Seq(Nat) /\ Len(text) = Len(w) - i + 1
        /\ \A k \in 1 .. Len(text) : text[k] = w[i + k - 1]
    <3>1. PICK m \in Nat : m = Len(w)  BY <2>1
    <3>2. \A k \in i .. m : w[k] \in Nat  BY <2>1, <3>1
    <3>3. /\ SubSeq(w, i, m) \in Seq(Nat) /\ Len(SubSeq(w, i, m)) = m - i + 1
          /\ \A k \in 1 .. m - i + 1 : SubSeq(w, i, m)[k] = w[i + k - 1]
      BY <2>1, <3>1, <3>2, SubSeqProperties
    <3> QED  BY <3>1, <3>3
  <2> HIDE DEF text, n
  <2>3. r.word = w /\ r.edit.on /\ r.edit.erase = n /\ r.edit.text = text
    BY <1>2 DEF EditFrom, text, n
  <2>4. word' = w /\ Deliver(live, n, text)  BY <2>3
  <2>5. cursor' \in Nat /\ screen' \in Seq(Nat)  BY <2>1, <2>2, <2>4, DeliverTypes
  <2>6. Stands(Remembered) /\ (live <=> Live) => Stands(Remembered)'
    <3> SUFFICES ASSUME Stands(Remembered), live <=> Live PROVE Stands(Remembered)'
      OBVIOUS
    <3>1. Deliver(Live, Len(word) - i + 1, text)  BY <2>4 DEF n, Deliver
    <3>2. i \in 1 .. Len(word) + 1 /\ i <= Len(w) + 1  BY <1>1, <2>1
    <3> QED  BY <1>2, <2>2, <2>4, <3>1, <3>2, EditStands
  <2> QED  BY <2>4, <2>5, <2>6
<1>3. CASE c = J /\ Has(Dotted)
  <2> DEFINE i == LastOf(Dotted)
             u == [word EXCEPT ![i] = A]
             w == u \o <<J>>
  <2>1. i \in 1 .. Len(word)  BY <1>1, <1>3, LastIsThere
  <2>2. /\ u \in Seq(Nat) /\ Len(u) = Len(word) /\ <<J>> \in Seq(Nat) /\ Len(<<J>>) = 1
        /\ \A k \in 1 .. Len(word) : k # i => u[k] = word[k]
    BY <1>1, <2>1 DEF A, J
  <2> HIDE DEF i, u
  <2>3. /\ w \in Seq(Nat) /\ Len(w) = Len(word) + 1
        /\ \A k \in 1 .. Len(word) : w[k] = u[k]
    BY <2>2, JoinParts
  <2>4. r = [word |-> w, edit |-> EditFrom(i, SubSeq(w, i, Len(w)))]
    BY <1>3 DEF Composed, i, u
  <2> HIDE DEF w
  <2>5. \A k \in 1 .. i - 1 : w[k] = word[k]
    BY <1>1, <2>1, <2>2, <2>3, SMTT(30)
  <2>6. i <= Len(w)  BY <1>1, <2>1, <2>3
  <2> QED  BY <1>2, <2>1, <2>3, <2>4, <2>5, <2>6
<1>4. CASE ~(c = J /\ Has(Dotted)) /\ c = J /\ Has(A)
  <2> DEFINE i == LastOf(A)
             w == [word EXCEPT ![i] = Dotted]
  <2>1. i \in 1 .. Len(word)  BY <1>1, <1>4, LastIsThere
  <2>2. /\ w \in Seq(Nat) /\ Len(w) = Len(word)
        /\ \A k \in 1 .. Len(word) : k # i => w[k] = word[k]
    BY <1>1, <2>1 DEF Dotted
  <2>3. r = [word |-> w, edit |-> EditFrom(i, SubSeq(w, i, Len(word)))]
    BY <1>4 DEF Composed
  <2> HIDE DEF i, w
  <2>4. \A k \in 1 .. i - 1 : w[k] = word[k]  BY <1>1, <2>1, <2>2
  <2>5. i <= Len(w)  BY <1>1, <2>1, <2>2
  <2> QED  BY <1>2, <2>1, <2>2, <2>3, <2>4, <2>5
<1>5. CASE ~(c = J /\ Has(Dotted)) /\ ~(c = J /\ Has(A))
  <2>1. r = [word |-> Append(word, c), edit |-> NoEdit]  BY <1>5 DEF Composed
  <2>2. word' = Append(word, c) /\ Deliver(live, 0, <<c>>)  BY <2>1 DEF NoEdit
  <2>3. word' = word \o <<c>> /\ word' \in Seq(Nat) /\ <<c>> \in Seq(Nat)  BY <1>1, <2>2
  <2>4. cursor' \in Nat /\ screen' \in Seq(Nat)  BY <2>2, <2>3, DeliverTypes
  <2>5. Remembered' = Remembered \o <<c>>
    <3>1. before \o (word \o <<c>>) = (before \o word) \o <<c>>
      BY <1>1, <2>3, ConcatAssociative, SMTT(30) DEF LiveTypes
    <3> QED  BY <2>3, <3>1 DEF Remembered
  <2>6. Stands(Remembered) /\ (live <=> Live) => Stands(Remembered)'
    <3> SUFFICES ASSUME Stands(Remembered), live <=> Live PROVE Stands(Remembered)'
      OBVIOUS
    <3>1. Deliver(Live, 0, <<c>>)  BY <2>2 DEF Deliver
    <3> QED  BY <2>5, <3>1, AppendStands
  <2> QED  BY <2>3, <2>4, <2>6
<1> QED  BY <1>3, <1>4, <1>5

\* F9 moves the dot to the neighbouring vowel and writes both again.
LEMMA SwappedStands ==
  ASSUME LiveTypes, UNCHANGED <<published, applied, unicode, before>>,
         NEW i \in 1 .. Len(word), Converts(i), word' = Swapped(i),
         Deliver(Live, Len(word) - i + 1, SubSeq(Swapped(i), i, Len(word)))
  PROVE  /\ word' \in Seq(Nat) /\ cursor' \in Nat /\ screen' \in Seq(Nat)
         /\ Stands(Remembered) => Stands(Remembered)'
<1> DEFINE w == Swapped(i)
           text == SubSeq(w, i, Len(word))
           n == Len(word) - i + 1
<1>1. /\ word \in Seq(Nat) /\ Len(word) \in Nat /\ i \in Nat /\ i + 1 \in 1 .. Len(word)
      /\ n \in Nat
  BY DEF LiveTypes, Converts
<1>2. /\ w \in Seq(Nat) /\ Len(w) = Len(word)
      /\ \A k \in 1 .. Len(word) : k # i /\ k # i + 1 => w[k] = word[k]
  <2>1. word[i] \in Nat /\ word[i + 1] \in Nat  BY <1>1
  <2> DEFINE u == [word EXCEPT ![i] = word[i + 1]]
  <2>2. /\ u \in Seq(Nat) /\ Len(u) = Len(word)
        /\ \A k \in 1 .. Len(word) : k # i => u[k] = word[k]
    BY <1>1, <2>1
  <2>3. w = [u EXCEPT ![i + 1] = word[i]]  BY DEF Swapped
  <2> HIDE DEF u
  <2> QED  BY <1>1, <2>1, <2>2, <2>3
<1> HIDE DEF w
<1>3. /\ text \in Seq(Nat) /\ Len(text) = Len(w) - i + 1
      /\ \A k \in 1 .. Len(text) : text[k] = w[i + k - 1]
  <2>1. PICK m \in Nat : m = Len(word)  BY <1>1
  <2>2. ASSUME NEW k \in i .. m PROVE w[k] \in Nat
    <3>1. k \in 1 .. Len(w)  BY <1>1, <1>2, <2>1
    <3> QED  BY <1>2, <3>1
  <2>3. /\ SubSeq(w, i, m) \in Seq(Nat) /\ Len(SubSeq(w, i, m)) = m - i + 1
        /\ \A k \in 1 .. m - i + 1 : SubSeq(w, i, m)[k] = w[i + k - 1]
    BY <1>1, <2>1, <2>2, SubSeqProperties
  <2> QED  BY <1>2, <2>1, <2>3
<1>4. word' = w /\ Deliver(Live, n, text)  BY DEF w
<1> HIDE DEF text, n
<1>5. cursor' \in Nat /\ screen' \in Seq(Nat)
  BY <1>1, <1>3, <1>4, DeliverTypes
<1>6. \A k \in 1 .. i - 1 : w[k] = word[k]  BY <1>1, <1>2
<1>7. i \in 1 .. Len(word) + 1 /\ i <= Len(w) + 1  BY <1>1, <1>2
<1>8. Deliver(Live, Len(word) - i + 1, text)  BY <1>4 DEF n
<1>9. Stands(Remembered) => Stands(Remembered)'
  BY <1>2, <1>3, <1>4, <1>6, <1>7, <1>8, EditStands
<1> QED  BY <1>2, <1>4, <1>5, <1>9

LEMMA DecideKeeps ==
  ASSUME LiveTypes, Decide, UNCHANGED <<published, applied, unicode, focus>>
  PROVE  /\ LiveTypes'
         /\ focus = "app" /\ ~jumped' /\ (~jumped => Stands(Remembered)) => Stands(Remembered)'
<1> DEFINE Kept == /\ LiveTypes'
                   /\ focus = "app" /\ ~jumped' /\ (~jumped => Stands(Remembered))
                        => Stands(Remembered)'
<1>1. word \in Seq(Nat) /\ before \in Seq(Nat)  BY DEF LiveTypes
<1>2. focus = "app" => (LiveOutput <=> Live)  BY DEF LiveOutput, focusIsMacroEditor
<1>3. ASSUME NEW c \in Nat, UNCHANGED <<before, jumped>>, word' = Composed(c).word,
             IF Composed(c).edit.on
             THEN Deliver(LiveOutput, Composed(c).edit.erase, Composed(c).edit.text)
             ELSE Deliver(LiveOutput, 0, <<c>>)
      PROVE  Kept
  <2>1. /\ word' \in Seq(Nat) /\ cursor' \in Nat /\ screen' \in Seq(Nat)
        /\ Stands(Remembered) /\ (LiveOutput <=> Live) => Stands(Remembered)'
    BY <1>3, ComposedStands, SMTT(30)
  <2> QED  BY <1>1, <1>2, <1>3, <2>1 DEF LiveTypes
<1>4. CASE /\ key = "space"
           /\ before' = before \o word \o <<Blank>> /\ word' = <<>>
           /\ Deliver(LiveOutput, 0, <<Blank>>)
           /\ UNCHANGED jumped
  <2>1. Blank \in Nat /\ <<Blank>> \in Seq(Nat)  BY DEF Blank
  <2>2. cursor' \in Nat /\ screen' \in Seq(Nat)  BY <1>4, <2>1, DeliverTypes
  <2>3. before' \in Seq(Nat) /\ word' \in Seq(Nat)  BY <1>1, <1>4, <2>1
  <2>4. Remembered' = Remembered \o <<Blank>>
    <3>1. before' \o <<>> = before'  BY <2>3, ConcatEmptySeq
    <3> QED  BY <1>4, <3>1 DEF Remembered
  <2>5. Stands(Remembered) /\ (LiveOutput <=> Live) => Stands(Remembered)'
    <3> SUFFICES ASSUME Stands(Remembered), LiveOutput <=> Live PROVE Stands(Remembered)'
      OBVIOUS
    <3>1. Deliver(Live, 0, <<Blank>>)  BY <1>4 DEF Deliver
    <3> QED  BY <2>1, <2>4, <3>1, AppendStands
  <2> QED  BY <1>2, <1>4, <2>2, <2>3, <2>5 DEF LiveTypes
<1>5. CASE /\ key = "back"
           /\ word' = AfterBack.word /\ before' = AfterBack.before
           /\ cursor' = Backspaced(LiveOutput)
           /\ screen' = Shown(1, <<>>)
           /\ UNCHANGED jumped
  <2>1. word' \in Seq(Nat) /\ before' \in Seq(Nat)  BY <1>5, BackRemembers
  <2>2. cursor' \in Nat  BY <1>5 DEF Backspaced, Back, LiveTypes
  <2>3. screen' \in Seq(Nat)
    <3>1. Back(Len(screen), 1) \in 0 .. Len(screen)  BY DEF Back, LiveTypes
    <3>2. SubSeq(screen, 1, Back(Len(screen), 1)) \in Seq(Nat)  BY <3>1 DEF LiveTypes
    <3> QED  BY <1>5, <3>2 DEF Shown
  <2>4. Stands(Remembered) /\ (LiveOutput <=> Live) => Stands(Remembered)'
    <3> SUFFICES ASSUME Stands(Remembered), LiveOutput <=> Live PROVE Stands(Remembered)'
      OBVIOUS
    <3>1. cursor' = Backspaced(Live)  BY <1>5 DEF Backspaced
    <3> QED  BY <1>5, <3>1, BackStands
  <2> QED  BY <1>2, <1>5, <2>1, <2>2, <2>3, <2>4 DEF LiveTypes
<1>6. CASE /\ key = "break"
           /\ Fresh /\ screen' = <<>>
           /\ cursor' = IF LiveOutput THEN 0 ELSE cursor
  <2>1. LiveTypes' /\ word' = <<>> /\ before' = <<>>  BY <1>6 DEF Fresh, LiveTypes
  <2> QED  BY <2>1, FreshStands
<1>7. CASE /\ key = "F9"
           /\ \/ \E i \in 1 .. Len(word) :
                   /\ Converts(i)
                   /\ word' = Swapped(i)
                   /\ Deliver(Live, Len(word) - i + 1, SubSeq(Swapped(i), i, Len(word)))
              \/ /\ \A i \in 1 .. Len(word) : ~Converts(i)
                 /\ UNCHANGED <<word, screen, cursor>>
           /\ UNCHANGED <<before, jumped>>
  <2>1. CASE UNCHANGED <<word, screen, cursor>>
    BY <1>7, <2>1, SameStands DEF LiveTypes
  <2>2. ASSUME NEW i \in 1 .. Len(word), Converts(i), word' = Swapped(i),
               Deliver(Live, Len(word) - i + 1, SubSeq(Swapped(i), i, Len(word)))
        PROVE  Kept
    <3>1. /\ word' \in Seq(Nat) /\ cursor' \in Nat /\ screen' \in Seq(Nat)
          /\ Stands(Remembered) => Stands(Remembered)'
      BY <1>7, <2>2, SwappedStands
    <3> QED  BY <1>1, <1>7, <3>1 DEF LiveTypes
  <2> QED  BY <1>7, <2>1, <2>2
<1>8. A \in Nat /\ J \in Nat  BY DEF A, J
<1>9. CASE key \in {"a", "j"}
  <2> DEFINE c == IF key = "a" THEN A ELSE J
  <2>1. c \in Nat  BY <1>8
  <2>2. /\ UNCHANGED <<before, jumped>> /\ word' = Composed(c).word
        /\ IF Composed(c).edit.on
           THEN Deliver(LiveOutput, Composed(c).edit.erase, Composed(c).edit.text)
           ELSE Deliver(LiveOutput, 0, <<c>>)
    BY <1>9 DEF Decide
  <2> HIDE DEF c
  <2> QED  BY <1>3, <2>1, <2>2
<1>10. CASE key \notin {"a", "j"}
  BY <1>4, <1>5, <1>6, <1>7, <1>10, Zenon DEF Decide
<1> QED  BY <1>9, <1>10

-----------------------------------------------------------------------------
(* The invariant.                                                          *)

LEMMA InitLive == LiveInit => LiveInv
<1> SUFFICES ASSUME LiveInit PROVE LiveInv
  OBVIOUS
<1>1. LiveTypes /\ word = <<>> /\ before = <<>> /\ DroppedBySwitch
  BY DEF LiveInit, LiveTypes, DroppedBySwitch
<1> QED  BY <1>1, NothingStands DEF LiveInv

LEMMA StepLive == LiveInv /\ [LiveNext]_liveVars => LiveInv'
<1> SUFFICES ASSUME LiveInv, [LiveNext]_liveVars PROVE LiveInv'
  OBVIOUS
<1> USE DEF LiveInv
<1> DEFINE Held == UNCHANGED <<published, applied, unicode, cursor, screen, word, before>>
<1>1. ASSUME LiveTypes', Claimed' => word' = <<>> /\ before' = <<>>, DroppedBySwitch'
      PROVE  LiveInv'
  BY <1>1, FreshStands
<1>2. ASSUME Held, Claimed' => Claimed, DroppedBySwitch' PROVE LiveInv'
  BY <1>2, SameStands DEF LiveTypes
<1>3. CASE configure \/ ConfigureEnds
  <2>1. ~Claimed' /\ LiveTypes' /\ DroppedBySwitch'
    BY <1>3 DEF configure, ConfigureEnds, Claimed, LiveTypes, DroppedBySwitch
  <2> QED  BY <1>1, <2>1
<1>4. CASE ApplySettings
  BY <1>1, <1>4 DEF ApplySettings, Fresh, LiveTypes, DroppedBySwitch
<1>5. CASE ToggleDropsWord
  <2>1. LiveTypes' /\ word' = <<>> /\ before' = before  BY <1>5 DEF ToggleDropsWord, LiveTypes
  <2>2. before = <<>> \/ jumped'  BY <1>5 DEF ToggleDropsWord
  <2>3. Claimed' => ~jumped'  BY DEF Claimed
  <2> QED  BY <1>1, <2>1, <2>2, <2>3 DEF DroppedBySwitch
<1>6. CASE ToggleStores
  <2>1. LiveTypes' /\ DroppedBySwitch'  BY <1>6 DEF ToggleStores, LiveTypes, DroppedBySwitch
  <2>2. Claimed' => ~engineOn /\ ~jumped  BY <1>6 DEF ToggleStores, Claimed
  <2>3. Claimed' => word' = <<>> /\ before' = <<>>
    BY <1>6, <2>2 DEF ToggleStores, DroppedBySwitch
  <2> QED  BY <1>1, <2>1, <2>3
<1>7. CASE PassedBy
  BY <1>1, <1>7 DEF PassedBy, sync, Bypassed, Claimed, LiveTypes, DroppedBySwitch
<1>8. CASE Panic
  BY <1>1, <1>8 DEF Panic, Claimed, LiveTypes, DroppedBySwitch
<1>9. CASE KeyDecides
  <2>1. /\ Decide /\ engineOn
        /\ UNCHANGED <<published, applied, unicode, focus, pending, ui, engineOn>>
    BY <1>9 DEF KeyDecides
  <2>2. LiveTypes' /\ (focus = "app" /\ ~jumped' /\ (~jumped => Stands(Remembered))
                         => Stands(Remembered)')
    BY <2>1, DecideKeeps
  <2>3. DroppedBySwitch'  BY <2>1 DEF DroppedBySwitch
  <2>4. Claimed' => focus = "app" /\ ~jumped' /\ (~jumped => Stands(Remembered))
    BY <2>1 DEF Claimed
  <2> QED  BY <2>2, <2>3, <2>4
<1>10. CASE KeyPasses
  BY <1>1, <1>10 DEF KeyPasses, Claimed, LiveTypes, DroppedBySwitch
<1>11. CASE CaretEdit
  <2>1. LiveTypes' /\ word' = <<>>  BY <1>11 DEF CaretEdit, LiveTypes
  <2>2. before' = <<>> \/ jumped'  BY <1>11 DEF CaretEdit
  <2>3. Claimed' => ~jumped'  BY DEF Claimed
  <2>4. engineOn'  BY <1>11 DEF CaretEdit
  <2> QED  BY <1>1, <2>1, <2>2, <2>3, <2>4 DEF DroppedBySwitch
<1>12. ASSUME NEW k \in Typed, KeyBegins(k) PROVE LiveInv'
  <2>1. CASE PendingAfterSync
    BY <1>1, <1>12, <2>1 DEF KeyBegins, Fresh, LiveTypes, DroppedBySwitch
  <2>2. CASE ~PendingAfterSync
    <3>1. published = applied /\ ~pending  BY <2>2 DEF PendingAfterSync, Adopts
    <3> QED  BY <1>2, <1>12, <2>2, <3>1 DEF KeyBegins, sync, Claimed, DroppedBySwitch
  <2> QED  BY <2>1, <2>2
<1>13. ASSUME NEW to \in {"app", "own", "macro"}, Foreground(to) \/ Mouse(to) PROVE LiveInv'
  <2>1. CASE engineOn
    <3>1. Fresh /\ screen' = <<>> /\ engineOn'  BY <1>13, <2>1 DEF Foreground, Mouse
    <3>2. cursor' \in Nat
      <4>1. cursor' = 0 \/ cursor' = cursor  BY <1>13, <2>1 DEF Foreground, Mouse
      <4> QED  BY <4>1 DEF LiveTypes
    <3> QED  BY <1>1, <3>1, <3>2 DEF Fresh, LiveTypes, DroppedBySwitch
  <2>2. CASE ~engineOn
    <3>1. UNCHANGED <<word, before, jumped, engineOn, ui>> /\ screen' = <<>>
      BY <1>13, <2>2 DEF Foreground, Mouse
    <3>2. cursor' \in Nat  BY <1>13, <2>2 DEF Foreground, Mouse, LiveTypes
    <3>3. LiveTypes'  BY <3>1, <3>2 DEF LiveTypes
    <3>4. DroppedBySwitch' /\ ~Claimed'  BY <2>2, <3>1 DEF DroppedBySwitch, Claimed
    <3> QED  BY <1>1, <3>3, <3>4
  <2> QED  BY <2>1, <2>2
<1>14. CASE UNCHANGED liveVars
  BY <1>2, <1>14 DEF liveVars, Claimed, DroppedBySwitch
<1> QED
  BY <1>3, <1>4, <1>5, <1>6, <1>7, <1>8, <1>9, <1>10, <1>11, <1>12, <1>13, <1>14 DEF LiveNext

(* In an application the pending word is shown as it is styled, for every  *)
(* style and every text, whatever was published, switched or clicked       *)
(* between two keys - as long as no caret edit left the engine the text    *)
(* from before it (LiveEffects::rewrite, sync and the hook's calls).       *)
THEOREM StyleIsKept == LiveSpec => []StyledAsTyped
<1>1. LiveInv => StyledAsTyped
  <2> SUFFICES ASSUME LiveInv, Settled, focus = "app", engineOn, ~jumped PROVE WordOnScreen
    BY DEF StyledAsTyped
  <2>1. Claimed  BY DEF Settled, Claimed
  <2> QED  BY <2>1, WordStands DEF LiveInv
<1> QED  BY <1>1, InitLive, StepLive, PTL DEF LiveSpec

-----------------------------------------------------------------------------
(***************************************************************************)
(* The typing session.  The inductive invariant is SessionInv below.  Its  *)
(* pieces: what the history holds, the edits of the document, the session  *)
(* and its marks; then a lemma per action, each in terms of Own, the text  *)
(* the session itself holds, and of the history in front of it.            *)
(***************************************************************************)

(* Parts of texts.                                                         *)

\* Newest keeps the end of a text, and its last character.
LEMMA NewestIs ==
  ASSUME NEW S, NEW s \in Seq(S), NEW n \in Nat
  PROVE  /\ Newest(n, s) \in Seq(S) /\ Len(Newest(n, s)) = IF Len(s) > n THEN n ELSE Len(s)
         /\ \E x \in Seq(S) : s = x \o Newest(n, s)
         /\ n > 0 /\ s # <<>> => Newest(n, s) # <<>> /\ Last(Newest(n, s)) = Last(s)
<1>1. Len(s) \in Nat  OBVIOUS
<1>2. CASE Len(s) > n
  <2>1. PICK k \in 0 .. Len(s) : k = Len(s) - n  BY <1>1, <1>2
  <2>2. Newest(n, s) = SubSeq(s, k + 1, Len(s))  BY <1>1, <1>2, <2>1 DEF Newest
  <2>3. Newest(n, s) \in Seq(S) /\ Len(Newest(n, s)) = n /\ \E x \in Seq(S) : s = x \o Newest(n, s)
    <3> DEFINE y == SubSeq(s, k + 1, Len(s))
               x == SubSeq(s, 1, k)
    <3>1. x \in Seq(S) /\ y \in Seq(S) /\ Len(y) = Len(s) - k /\ s = x \o y  BY Cut
    <3> HIDE DEF x, y
    <3>2. Newest(n, s) = y  BY <2>2 DEF y
    <3>3. \E z \in Seq(S) : s = z \o y  BY <3>1
    <3>4. Len(y) = n  BY <1>1, <2>1, <3>1
    <3> QED  BY <3>1, <3>2, <3>3, <3>4
  <2>4. ASSUME n > 0
        PROVE  SubSeq(s, k + 1, Len(s)) # <<>> /\ SubSeq(s, k + 1, Len(s))[n] = s[Len(s)]
    <3> DEFINE y == SubSeq(s, k + 1, Len(s))
    <3>1. k + n = Len(s) /\ n \in 1 .. Len(s) - (k + 1) + 1 /\ k + 1 + n - 1 = k + n
      BY <1>1, <2>1, <2>4
    <3>2. \A i \in k + 1 .. Len(s) : s[i] \in S  BY <1>1, <2>1
    <3>3. \A i \in 1 .. Len(s) - (k + 1) + 1 : y[i] = s[k + 1 + i - 1]
      <4>1. k + 1 \in Int /\ Len(s) \in Int  BY <1>1, <2>1
      <4> HIDE DEF y
      <4> QED  BY <3>2, <4>1, SubSeqProperties DEF y
    <3>4. Len(y) = n  BY <2>2, <2>3, Zenon
    <3> HIDE DEF y
    <3>5. y[n] = s[Len(s)]  BY <3>1, <3>3
    <3>6. y # <<>>
      <4>1. Len(<<>>) = 0 /\ n # 0  BY <2>4
      <4> QED  BY <3>4, <4>1, Zenon
    <3> QED  BY <3>5, <3>6 DEF y
  <2> QED  BY <1>2, <2>2, <2>3, <2>4 DEF Last
<1>3. CASE ~(Len(s) > n)
  <2>1. Newest(n, s) = s /\ s = <<>> \o s  BY <1>3 DEF Newest
  <2>2. \E x \in Seq(S) : s = x \o s
    <3>1. <<>> \in Seq(S)  OBVIOUS
    <3> QED  BY <2>1, <3>1
  <2> QED  BY <1>1, <1>3, <2>1, <2>2
<1> QED  BY <1>2, <1>3

-----------------------------------------------------------------------------
(* What the history holds: each entry is letters, blanks or punctuation.   *)

\* The sizes of the buffers, as the assumption gives them.
LEMMA Bounds ==
  /\ MaxBuff \in Nat \ {0} /\ MaxHistory \in Nat \ {0}
  /\ MaxLongWord \in Nat /\ MaxRead \in Nat
BY SessionAssumption

USE Bounds

\* The characters a word is made of.
Lets == {"i", "s", "t", Acute}

\* An entry of the history over the characters T.
EntriesOf(T) == {e \in Seq(T) : e # <<>> /\ Len(e) <= MaxBuff}

Entries == EntriesOf(Lets) \cup EntriesOf({" "}) \cup EntriesOf({"."})

\* A history entry holds letters, blanks or punctuation, never two of these.
Kinds == {Lets, {" "}, {"."}}

\* pushTypingState, piece by piece.
Count(text) == (Len(text) + MaxBuff - 1) \div MaxBuff

\* The k-th piece, MaxBuff characters or what is left of them.
Piece(text, k) == SubSeq(text, (k - 1) * MaxBuff + 1,
                         IF k = Count(text) THEN Len(text) ELSE k * MaxBuff)

Pieces(text) == [k \in 1 .. Count(text) |-> Piece(text, k)]

\* PushAll in terms of its pieces.
LEMMA PushAllIs ==
  \A h, text : PushAll(h, text) = IF text = <<>> THEN h
                                  ELSE Newest(MaxHistory, h \o Pieces(text))
BY DEF PushAll, Pieces, Piece, Count

\* Where each piece of a text begins and ends.
LEMMA PieceIs ==
  ASSUME NEW S, NEW text \in Seq(S), text # <<>>
  PROVE  /\ Count(text) \in Nat \ {0}
         /\ \A k \in 1 .. Count(text) :
              \E a \in 0 .. Len(text) : \E e \in a + 1 .. Len(text) :
                /\ a = (k - 1) * MaxBuff /\ e - a <= MaxBuff
                /\ e = IF k = Count(text) THEN Len(text) ELSE k * MaxBuff
                /\ Piece(text, k) = SubSeq(text, a + 1, e)
<1> DEFINE n == Len(text)
           b == MaxBuff
           c == Count(text)
<1>1. n \in Nat \ {0} /\ b \in Nat \ {0}  OBVIOUS
<1>2. c \in Nat \ {0} /\ (c - 1) * b < n /\ n <= c * b
  <2>1. c = (n + b - 1) \div b  BY DEF Count
  <2> HIDE DEF n, b, c
  <2> QED  BY <1>1, <2>1, CountIs
<1>3. ASSUME NEW k \in 1 .. c
      PROVE  \E a \in 0 .. n : \E e \in a + 1 .. n :
                /\ a = (k - 1) * b /\ e - a <= b
                /\ e = IF k = c THEN n ELSE k * b
                /\ Piece(text, k) = SubSeq(text, a + 1, e)
  <2> DEFINE a == (k - 1) * b
             e == IF k = c THEN n ELSE k * b
  <2>1. Piece(text, k) = SubSeq(text, a + 1, e)  BY DEF Piece
  <2> HIDE DEF n, b, c
  <2>2. k * b = a + b /\ a \in Nat /\ (c - 1) * b = c * b - b /\ c * b \in Nat  BY <1>1, <1>2
  <2>3. k <= c - 1 => k * b <= (c - 1) * b  BY <1>1, <1>2
  <2>4. a <= (c - 1) * b  BY <1>1, <1>2
  <2>5. k = c \/ k <= c - 1  BY <1>2
  <2>6. CASE k = c
    <3>1. e = n /\ a = (c - 1) * b /\ n <= a + b  BY <1>2, <2>2, <2>6
    <3> HIDE DEF a, e
    <3>2. a < n /\ e - a <= b /\ a \in 0 .. n /\ e \in a + 1 .. n  BY <1>1, <1>2, <2>2, <3>1
    <3> QED  BY <2>1, <3>2 DEF a, e
  <2>7. CASE k <= c - 1
    <3>1. e = a + b /\ k # c  BY <1>2, <2>2, <2>7
    <3>2. k * b < n  
      <4>1. k * b <= (c - 1) * b /\ (c - 1) * b < n /\ k * b \in Int /\ (c - 1) * b \in Int
        BY <1>1, <1>2, <2>2, <2>3, <2>7
      <4> HIDE DEF a, e
      <4> QED  BY <1>1, <4>1
    <3> HIDE DEF e
    <3>3. a + b < n  BY <2>2, <3>2
    <3> HIDE DEF a
    <3>4. e - a <= b /\ a \in 0 .. n /\ e \in a + 1 .. n  BY <1>1, <2>2, <3>1, <3>3
    <3> QED  BY <2>1, <3>4 DEF a, e
  <2> QED  BY <2>5, <2>6, <2>7
<1> QED  BY <1>2, <1>3

\* The pieces are entries of the history, and together they are the text.
LEMMA PiecesAre ==
  ASSUME NEW S, NEW text \in Seq(S), text # <<>>
  PROVE  /\ Pieces(text) \in Seq(EntriesOf(S)) /\ Pieces(text) # <<>>
         /\ FlattenSeq(Pieces(text)) = text
<1> DEFINE n == Len(text)
           c == Count(text)
           P == Pieces(text)
<1>1. n \in Nat \ {0} /\ c \in Nat \ {0}  BY PieceIs
<1>2. ASSUME NEW k \in 1 .. c PROVE Piece(text, k) \in EntriesOf(S)
  <2>1. PICK a \in 0 .. n, e \in 0 .. n :
          a < e /\ e - a <= MaxBuff /\ Piece(text, k) = SubSeq(text, a + 1, e)
    BY PieceIs
  <2>2. \A i \in a + 1 .. e : text[i] \in S  BY <1>1, <2>1
  <2>3. SubSeq(text, a + 1, e) \in Seq(S) /\ Len(SubSeq(text, a + 1, e)) = e - a
    BY <1>1, <2>1, <2>2
  <2>4. SubSeq(text, a + 1, e) # <<>>  BY <1>1, <2>1, <2>3, EmptySeq
  <2> QED  BY <2>1, <2>3, <2>4 DEF EntriesOf
<1>3. P \in Seq(EntriesOf(S)) /\ Len(P) = c /\ \A k \in 1 .. c : P[k] = Piece(text, k)
  BY <1>1, <1>2 DEF Pieces
<1>4. P # <<>>  BY <1>1, <1>3, EmptySeq
<1>5. P \in Seq(Seq(S))
  <2>1. EntriesOf(S) \subseteq Seq(S)  BY DEF EntriesOf
  <2> QED  BY <1>3, <2>1, SeqMonotonic
<1> DEFINE End(k) == IF k = c THEN n ELSE k * MaxBuff
<1>6. ASSUME NEW k \in 1 .. c PROVE End(k) \in 0 .. n
  <2>1. PICK a \in 0 .. n, e \in 0 .. n : e = End(k)  BY PieceIs
  <2> HIDE DEF End
  <2> QED  BY <1>1, <2>1
<1>7. Piece(text, 1) = SubSeq(text, 1, End(1))
  <2>1. 1 \in 1 .. c /\ (1 - 1) * MaxBuff = 0  BY <1>1
  <2>2. PICK a \in 0 .. n, e \in 0 .. n :
          a < e /\ a = (1 - 1) * MaxBuff /\ e = End(1) /\ Piece(text, 1) = SubSeq(text, a + 1, e)
    BY <2>1, PieceIs
  <2> HIDE DEF End
  <2>3. a = 0 /\ a + 1 = 1  BY <2>1, <2>2
  <2> QED  BY <2>2, <2>3
<1>8. ASSUME NEW k \in 1 .. c - 1
      PROVE  /\ SubSeq(text, 1, End(k)) \o Piece(text, k + 1) = SubSeq(text, 1, End(k + 1))
  <2>1. k \in 1 .. c /\ k + 1 \in 1 .. c /\ (k + 1) - 1 = k /\ k # c  BY <1>1
  <2>2. PICK a \in 0 .. n, e \in 0 .. n :
          /\ a < e /\ a = ((k + 1) - 1) * MaxBuff /\ e = End(k + 1)
          /\ Piece(text, k + 1) = SubSeq(text, a + 1, e)
    BY <2>1, PieceIs
  <2>3. End(k) = a  BY <2>1, <2>2
  <2> HIDE DEF End
  <2>4. a \in 1 - 1 .. n /\ 1 \in 1 .. n + 1 /\ e \in a .. n  BY <1>1, <2>2
  <2>5. SubSeq(text, 1, a) \o SubSeq(text, a + 1, e) = SubSeq(text, 1, e)
    BY <2>4, ConcatAdjacentSubSeq
  <2> QED  BY <2>2, <2>3, <2>5
<1> HIDE DEF P, End
<1>9. PICK f : /\ FlattenSeq(P) = f[Len(P)] /\ f[1] = P[1]
               /\ \A i \in 1 .. Len(P) - 1 : f[i + 1] = f[i] \o P[i + 1]
  BY <1>4, <1>5, FlatSteps
<1> HIDE DEF c, n
<1> DEFINE D == {k \in Nat : f[k] = SubSeq(text, 1, End(k))}
<1>10. 1 \in D
  <2>1. 1 \in 1 .. c  BY <1>1
  <2> QED  BY <1>3, <1>7, <1>9, <2>1
<1>11. ASSUME NEW k \in 1 .. c - 1, k \in D PROVE k + 1 \in D
  <2>1. k + 1 \in 1 .. c /\ k + 1 \in Nat  BY <1>1
  <2>2. f[k + 1] = f[k] \o P[k + 1] /\ P[k + 1] = Piece(text, k + 1)  BY <1>3, <1>9, <2>1
  <2>3. f[k] = SubSeq(text, 1, End(k))  BY <1>11
  <2> QED  BY <1>8, <2>1, <2>2, <2>3
<1> HIDE DEF D
<1>12. c \in D
  <2>1. c \in 1 .. c /\ c \in Nat  BY <1>1
  <2> QED  BY <1>10, <1>11, <2>1, Induction
<1>13. FlattenSeq(P) = SubSeq(text, 1, n)  BY <1>3, <1>9, <1>12 DEF D, End
<1>14. FlattenSeq(P) = text  BY <1>13, SubSeqFull DEF n
<1> QED  BY <1>3, <1>4, <1>14 DEF P

\* An entry is a text, of characters of one kind.
LEMMA EntriesAreTexts ==
  /\ Entries \subseteq Seq(Chars)
  /\ \A T \in Kinds : EntriesOf(T) \subseteq Entries /\ T \subseteq Chars
<1>1. \A T \in Kinds : T \subseteq Chars  BY DEF Kinds, Lets, Chars, Acute
<1>2. \A T \in Kinds : EntriesOf(T) \subseteq Entries  BY DEF Kinds, Entries
<1>3. \A T \in Kinds : EntriesOf(T) \subseteq Seq(Chars)
  <2> TAKE T \in Kinds
  <2>1. Seq(T) \subseteq Seq(Chars)  BY <1>1, SeqMonotonic
  <2> QED  BY <2>1 DEF EntriesOf
<1> QED  BY <1>1, <1>2, <1>3 DEF Kinds, Entries

\* What is pushed is the newest of the history, and only the oldest is forgotten.
LEMMA Pushed ==
  ASSUME NEW T \in Kinds, NEW h \in Seq(Entries), Len(h) <= MaxHistory, NEW text \in Seq(T)
  PROVE  /\ PushAll(h, text) \in Seq(Entries) /\ Len(PushAll(h, text)) <= MaxHistory
         /\ text = <<>> => PushAll(h, text) = h
         /\ text # <<>> => PushAll(h, text) # <<>> /\ Last(PushAll(h, text)) \in EntriesOf(T)
         /\ IsSuffix(FlattenSeq(PushAll(h, text)), FlattenSeq(h) \o text)
<1>0. Seq(Entries) \subseteq Seq(Seq(Chars)) /\ Seq(T) \subseteq Seq(Chars)
  BY EntriesAreTexts, SeqMonotonic
<1>a. FlattenSeq(h) \in Seq(Chars)  BY <1>0, FlatType
<1>1. CASE text = <<>>
  <2> DEFINE f == FlattenSeq(h)
  <2>1. PushAll(h, text) = h  BY <1>1, PushAllIs
  <2>2. f \in Seq(Chars)  BY <1>a
  <2> HIDE DEF f
  <2>3. f \o <<>> = f /\ f = <<>> \o f /\ <<>> \in Seq(Chars)  BY <2>2
  <2>4. IsSuffix(f, f)  BY <2>2, <2>3, SuffixIs
  <2> QED  BY <1>1, <2>1, <2>3, <2>4 DEF f
<1>2. CASE text # <<>>
  <2> DEFINE p == Pieces(text)
             q == h \o p
             r == Newest(MaxHistory, q)
  <2>1. PushAll(h, text) = r  BY <1>2, PushAllIs
  <2>2. p \in Seq(EntriesOf(T)) /\ p # <<>> /\ FlattenSeq(p) = text  BY <1>2, PiecesAre
  <2> HIDE DEF p
  <2>3. p \in Seq(Entries)  BY <2>2, EntriesAreTexts, SeqMonotonic
  <2>4. Len(p) \in Nat \ {0} /\ Len(h) \in Nat  BY <2>2, <2>3
  <2>5. q \in Seq(Entries) /\ Len(q) = Len(h) + Len(p) /\ q # <<>> /\ Last(q) = Last(p)
    <3>1. q \in Seq(Entries) /\ Len(q) = Len(h) + Len(p)  BY <2>3
    <3>2. q[Len(h) + Len(p)] = p[Len(p)]  BY <2>3, <2>4
    <3>3. q # <<>>  BY <2>4, <3>1, EmptySeq
    <3> QED  BY <3>1, <3>2, <3>3 DEF Last
  <2>6. Last(p) \in EntriesOf(T)
    <3>1. Len(p) \in 1 .. Len(p)  BY <2>4
    <3> QED  BY <2>2, <3>1, ElementOfSeq DEF Last
  <2>7. FlattenSeq(q) = FlattenSeq(h) \o text  BY <1>0, <2>2, <2>3, FlatConcat
  <2> HIDE DEF q
  <2>8. /\ r \in Seq(Entries) /\ Len(r) = IF Len(q) > MaxHistory THEN MaxHistory ELSE Len(q)
        /\ r # <<>> /\ Last(r) = Last(q)
        /\ \E x \in Seq(Entries) : q = x \o r
    <3>1. q \in Seq(Entries) /\ MaxHistory \in Nat /\ MaxHistory > 0  BY <2>5
    <3> HIDE DEF r
    <3>2. /\ r \in Seq(Entries) /\ Len(r) = IF Len(q) > MaxHistory THEN MaxHistory ELSE Len(q)
          /\ \E x \in Seq(Entries) : q = x \o r
          /\ MaxHistory > 0 /\ q # <<>> => r # <<>> /\ Last(r) = Last(q)
      BY <3>1, NewestIs, Zenon DEF r
    <3> QED  BY <2>5, <3>1, <3>2
  <2> HIDE DEF r
  <2>9. PICK x \in Seq(Entries) : q = x \o r  BY <2>8
  <2>10. FlattenSeq(q) = FlattenSeq(x) \o FlattenSeq(r) /\ FlattenSeq(x) \in Seq(Chars)
    <3>1. x \in Seq(Seq(Chars)) /\ r \in Seq(Seq(Chars))  BY <1>0, <2>8
    <3> QED  BY <2>9, <3>1, FlatConcat, FlatType
  <2>11. Len(r) <= MaxHistory  BY <2>4, <2>5, <2>8
  <2>12. IsSuffix(FlattenSeq(r), FlattenSeq(q))
    <3> DEFINE u == FlattenSeq(r)
               v == FlattenSeq(q)
               z == FlattenSeq(x)
    <3>1. u \in Seq(Chars)
      <4>1. r \in Seq(Seq(Chars))  BY <1>0, <2>8
      <4> QED  BY <4>1, FlatType
    <3>2. v = z \o u /\ z \in Seq(Chars)  BY <2>10
    <3> HIDE DEF u, v, z
    <3>3. v \in Seq(Chars)  BY <3>1, <3>2, ConcatProperties
    <3>4. IsSuffix(u, v)  BY <3>1, <3>2, <3>3, SuffixIs
    <3> QED  BY <3>4 DEF u, v
  <2> QED  BY <1>2, <2>1, <2>5, <2>6, <2>7, <2>8, <2>11, <2>12
<1> QED  BY <1>1, <1>2

-----------------------------------------------------------------------------
(* Edits of the document.                                                  *)

\* A text that ends in f, then o, of which d characters are erased behind and
\* ins is typed, ends in all that is the end of f, the rest of o and ins.
LEMMA Carried ==
  ASSUME NEW t, NEW f, NEW o, NEW d, NEW ins, NEW g
  PROVE  /\ t \in Seq(Chars) /\ f \in Seq(Chars) /\ o \in Seq(Chars) /\ d \in 0 .. Len(o)
         /\ ins \in Seq(Chars) /\ g \in Seq(Chars)
         /\ IsSuffix(f \o o, t)
         /\ IsSuffix(g, f \o (SubSeq(o, 1, Len(o) - d) \o ins))
         => /\ Len(t) \in Nat /\ Len(f \o o) \in Nat /\ d <= Len(f \o o)
            /\ Len(f \o o) <= Len(t)
            /\ IsSuffix(g, SubSeq(t, 1, Len(t) - d) \o ins)
            /\ Len(g) <= Len(f \o o) - d + Len(ins)
<1>0. SUFFICES ASSUME t \in Seq(Chars), f \in Seq(Chars), o \in Seq(Chars), d \in 0 .. Len(o),
                      ins \in Seq(Chars), g \in Seq(Chars),
                      IsSuffix(f \o o, t),
                      IsSuffix(g, f \o (SubSeq(o, 1, Len(o) - d) \o ins))
               PROVE  /\ Len(t) \in Nat /\ Len(f \o o) \in Nat /\ d <= Len(f \o o)
                      /\ Len(f \o o) <= Len(t)
                      /\ IsSuffix(g, SubSeq(t, 1, Len(t) - d) \o ins)
                      /\ Len(g) <= Len(f \o o) - d + Len(ins)
  OBVIOUS
<1> DEFINE a == SubSeq(o, 1, Len(o) - d)
           b == SubSeq(o, (Len(o) - d) + 1, Len(o))
           fo == f \o o
           ai == a \o ins
           fai == f \o ai
<1>o. o \in Seq(Chars) /\ d \in 0 .. Len(o)  BY <1>0
<1>f. f \in Seq(Chars)  BY <1>0
<1>1. Len(o) - d \in 0 .. Len(o) /\ Len(o) \in Nat /\ d \in Nat  BY <1>o
<1>2. a \in Seq(Chars) /\ Len(a) = Len(o) - d  BY <1>o, <1>1, Cut
<1>b2. b \in Seq(Chars) /\ o = a \o b  BY <1>o, <1>1, Cut
<1>3. fo \in Seq(Chars) /\ Len(fo) = Len(f) + Len(o) /\ Len(f) \in Nat  BY <1>o, <1>f, Cat
<1>a. IsSuffix(g, fai) /\ ins \in Seq(Chars) /\ g \in Seq(Chars)  BY <1>0
<1>b. IsSuffix(fo, t) /\ t \in Seq(Chars)  BY <1>0
<1> HIDE DEF a, b, fo
<1>c. ai \in Seq(Chars) /\ Len(ai) = Len(a) + Len(ins)  BY <1>2, <1>a, Cat
<1> HIDE DEF ai
<1>d. fai \in Seq(Chars) /\ Len(fai) = Len(f) + Len(ai)  BY <1>f, <1>c, Cat
<1> HIDE DEF fai
<1>4. PICK x \in Seq(Chars) : t = x \o fo  BY <1>3, <1>b, SuffixIs
<1>x. x \in Seq(Chars)  BY <1>4
<1> DEFINE xf == x \o f
           xa == xf \o a
<1>5. t = xf \o o
  <2>1. (x \o f) \o o = x \o (f \o o)
    <3>1. Regroups(x, f, o)  BY <1>x, <1>f, <1>o, Assoc, Zenon
    <3> QED  BY <3>1 DEF Regroups
  <2> QED  BY <1>4, <2>1, Zenon DEF fo
<1>6. Len(t) = Len(x) + Len(fo) /\ Len(x) \in Nat
  <2>1. Len(x \o fo) = Len(x) + Len(fo)  BY <1>3, <1>x, Cat
  <2>2. Len(x) \in Nat  BY <1>x
  <2> QED  BY <1>4, <2>1, <2>2, Zenon
<1>xf. xf \in Seq(Chars) /\ Len(xf) = Len(x) + Len(f)  BY <1>x, <1>f, Cat
<1> HIDE DEF xf
<1>xa. xa \in Seq(Chars) /\ Len(xa) = Len(xf) + Len(a)  BY <1>xf, <1>2, Cat
<1> HIDE DEF xa
<1>7. SubSeq(t, 1, Len(t) - d) = xa
  <2>1. t = xa \o b
    <3>1. (xf \o a) \o b = xf \o (a \o b)
      <4>1. xf \in Seq(Chars) /\ a \in Seq(Chars) /\ b \in Seq(Chars)  BY <1>xf, <1>2, <1>b2
      <4>9. Regroups(xf, a, b)  BY <4>1, Assoc, Zenon
      <4> QED  BY <4>9 DEF Regroups
    <3>3. t = xf \o (a \o b)  BY <1>b2, <1>5, Zenon
    <3> QED  BY <3>1, <3>3, Zenon DEF xa
  <2>2. SubSeq(xa \o b, 1, Len(xa)) = xa  BY <1>xa, <1>b2, FirstOfTwo
  <2>3. Len(t) - d = Len(xa)
    BY <1>1, <1>2, <1>3, <1>6, <1>xf, <1>xa
  <2> QED  BY <2>1, <2>2, <2>3, Zenon
<1>8. xa \o ins = x \o fai
  <2>1. (xf \o a) \o ins = xf \o (a \o ins)
    <3>1. a \in Seq(Chars) /\ ins \in Seq(Chars) /\ xf \in Seq(Chars)  BY <1>2, <1>a, <1>xf
    <3>9. Regroups(xf, a, ins)  BY <3>1, Assoc, Zenon
    <3> QED  BY <3>9 DEF Regroups
  <2>2. (x \o f) \o ai = x \o (f \o ai)
    <3>1. x \in Seq(Chars) /\ f \in Seq(Chars) /\ ai \in Seq(Chars)  BY <1>x, <1>f, <1>c
    <3>9. Regroups(x, f, ai)  BY <3>1, Assoc, Zenon
    <3> QED  BY <3>9 DEF Regroups
  <2> QED  BY <2>1, <2>2, Zenon DEF xa, xf, ai, fai
<1>9. IsSuffix(g, xa \o ins)
  <2> DEFINE u == x \o fai
  <2>1. u \in Seq(Chars)  BY <1>x, <1>d, Cat
  <2>2. IsSuffix(fai, u)  BY <1>x, <1>d, SuffixBehind
  <2> HIDE DEF u
  <2>3. IsSuffix(g, u)  BY <1>a, <1>d, <2>1, <2>2, SuffixTrans
  <2> QED  BY <1>8, <2>3, Zenon DEF u
<1>10. Len(g) <= Len(fo) - d + Len(ins)
  <2>1. Len(g) <= Len(fai)  BY <1>a, <1>d, SuffixLen
  <2>2. Len(ins) \in Nat /\ Len(a) \in Nat /\ Len(g) \in Nat  BY <1>2, <1>a
  <2> QED  BY <1>1, <1>2, <1>3, <1>c, <1>d, <2>1, <2>2
<1> QED
  <2>1. d <= Len(o)  BY <1>o
  <2>2. Len(t) \in Nat /\ Len(fo) \in Nat /\ d <= Len(fo) /\ Len(fo) <= Len(t)
    BY <1>1, <1>3, <1>6, <2>1
  <2>3. IsSuffix(g, SubSeq(t, 1, Len(t) - d) \o ins)  BY <1>7, <1>9, Zenon
  <2> QED  BY <1>10, <2>2, <2>3 DEF fo

\* The end of the text is f, then o; the edit takes d off the end of o and
\* types ins.
LEMMA Retyped ==
  ASSUME NEW f, NEW o, NEW d, NEW ins, NEW g
  PROVE  /\ due \in Seq(Chars) /\ account \in Nat
         /\ f \in Seq(Chars) /\ o \in Seq(Chars) /\ d \in 0 .. Len(o)
         /\ ins \in Seq(Chars) /\ g \in Seq(Chars)
         /\ IsSuffix(f \o o, due) /\ account >= Len(f \o o)
         /\ IsSuffix(g, f \o (SubSeq(o, 1, Len(o) - d) \o ins))
         /\ Retype(d, ins)
         => IsSuffix(g, due') /\ account' >= Len(g)
<1>0. SUFFICES ASSUME due \in Seq(Chars), account \in Nat,
         f \in Seq(Chars), o \in Seq(Chars), d \in 0 .. Len(o),
         ins \in Seq(Chars), g \in Seq(Chars),
         IsSuffix(f \o o, due), account >= Len(f \o o),
         IsSuffix(g, f \o (SubSeq(o, 1, Len(o) - d) \o ins)),
         Retype(d, ins)
      PROVE IsSuffix(g, due') /\ account' >= Len(g)
  OBVIOUS
<1>1. /\ Len(due) \in Nat /\ Len(f \o o) \in Nat /\ d <= Len(f \o o) /\ Len(f \o o) <= Len(due)
      /\ IsSuffix(g, SubSeq(due, 1, Len(due) - d) \o ins)
      /\ Len(g) <= Len(f \o o) - d + Len(ins)
  BY <1>0, Carried, Zenon
<1> DEFINE l == Len(f \o o)
           m == Len(g)
           n == Len(ins)
<1>2. d \in Nat /\ n \in Nat /\ m \in Nat /\ account \in Nat
  <2>1. g \in Seq(Chars) /\ ins \in Seq(Chars) /\ o \in Seq(Chars) /\ d \in 0 .. Len(o)  BY <1>0
  <2> QED  BY <1>0, <2>1
<1>3. l \in Nat /\ d <= l /\ l <= Len(due) /\ account >= l /\ m <= l - d + n  BY <1>0, <1>1
<1>r. Retype(d, ins)  BY <1>0
<1> HIDE DEF l, m, n
<1>4. Clamp(d) = d  BY <1>2, <1>3 DEF Clamp
<1>5. Erased(d) = SubSeq(due, 1, Len(due) - d)  BY <1>1, <1>2, <1>3 DEF Erased
<1>6. due' = SubSeq(due, 1, Len(due) - d) \o ins  BY <1>4, <1>5, <1>r, Zenon DEF Retype
<1>7. account' = account - d + n  BY <1>4, <1>r DEF Retype, n
<1>8. account' >= m  BY <1>2, <1>3, <1>7
<1> QED  BY <1>1, <1>6, <1>8, Zenon DEF m

\* One character off the end of the text, and off the account.
LEMMA OneLess ==
  ASSUME NEW f, NEW o, NEW g
  PROVE  /\ due \in Seq(Chars) /\ account \in Nat
         /\ f \in Seq(Chars) /\ o \in Seq(Chars) /\ o # <<>> /\ g \in Seq(Chars)
         /\ IsSuffix(f \o o, due) /\ account >= Len(f \o o)
         /\ f \o SubSeq(o, 1, Len(o) - 1) = g
         /\ Passed
         => IsSuffix(g, due') /\ account' >= Len(g)
<1>0. SUFFICES ASSUME due \in Seq(Chars), account \in Nat,
         f \in Seq(Chars), o \in Seq(Chars), o # <<>>, g \in Seq(Chars),
         IsSuffix(f \o o, due), account >= Len(f \o o),
         f \o SubSeq(o, 1, Len(o) - 1) = g,
         Passed
      PROVE IsSuffix(g, due') /\ account' >= Len(g)
  OBVIOUS
<1> DEFINE e == <<>>
           a == SubSeq(o, 1, Len(o) - 1)
<1>o. o \in Seq(Chars) /\ o # <<>> BY <1>0
<1>1. e \in Seq(Chars) /\ Len(e) = 0  OBVIOUS
<1>2. 1 \in 0 .. Len(o) /\ Len(o) \in Nat \ {0} /\ a \in Seq(Chars)  BY <1>o
<1>3. IsSuffix(g, f \o (a \o e))
  <2>1. a \o e = a  BY <1>2
  <2>2. g \in Seq(Chars)  BY <1>0
  <2>3. IsSuffix(g, g)  BY <2>2, SuffixSelf
  <2>4. f \o a = g  BY <1>0
  <2> HIDE DEF e, a
  <2> QED  BY <2>1, <2>3, <2>4, Zenon
<1> HIDE DEF e
<1>4. /\ Len(due) \in Nat /\ Len(f \o o) \in Nat /\ 1 <= Len(f \o o) /\ Len(f \o o) <= Len(due)
      /\ IsSuffix(g, SubSeq(due, 1, Len(due) - 1) \o e)
      /\ Len(g) <= Len(f \o o) - 1 + Len(e)
  <2>1. due \in Seq(Chars) /\ f \in Seq(Chars) /\ g \in Seq(Chars) /\ IsSuffix(f \o o, due)
    BY <1>0
  <2>2. IsSuffix(g, f \o (SubSeq(o, 1, Len(o) - 1) \o e))  BY <1>3 DEF a
  <2> HIDE DEF a
  <2> QED  BY <1>o, <1>1, <1>2, <2>1, <2>2, Carried, Zenon
<1>5. SubSeq(due, 1, Len(due) - 1) \o e = SubSeq(due, 1, Len(due) - 1)
  <2>1. due \in Seq(Chars)  BY <1>0
  <2>2. SubSeq(due, 1, Len(due) - 1) \in Seq(Chars)  BY <1>4, <2>1
  <2> QED  BY <2>2, ConcatEmptySeq DEF e
<1> DEFINE l == Len(f \o o)
           m == Len(g)
<1>p. Passed /\ account \in Nat /\ account >= l /\ g \in Seq(Chars)  BY <1>0
<1>7. l \in Nat /\ 1 <= l /\ account >= l /\ m <= l - 1 /\ m \in Nat /\ l <= Len(due)
  BY <1>1, <1>4, <1>p
<1> HIDE DEF l, m
<1>6. due' = SubSeq(due, 1, Len(due) - 1)  BY <1>4, <1>7, <1>p DEF Passed, Erased
<1>8. account' = account - 1  BY <1>7, <1>p DEF Passed, Less
<1>9. account' >= m  BY <1>7, <1>8, <1>p
<1> QED  BY <1>4, <1>5, <1>6, <1>9, Zenon DEF m

-----------------------------------------------------------------------------
(* Letters, marks and the session.                                         *)

\* The keys that spell.
Keys == {"i", "s", "t"}

\* The greatest position of a set, or none.
LEMMA MostIs ==
  ASSUME NEW n \in Nat, NEW S, S \subseteq 1 .. n
  PROVE  Most(S) \in {0} \cup S /\ Most(S) \in 0 .. n /\ \A k \in S : k <= Most(S)
<1> DEFINE T == {0} \cup S
<1>1. T \subseteq 0 .. n /\ T # {}  OBVIOUS
<1>2. \E m \in T : \A k \in T : k <= m
  <2> HIDE DEF T
  <2> QED  BY <1>1, GreatestNumber
<1>3. \E m \in T : \A k \in T : m >= k
  <2>1. T \subseteq Int  BY <1>1
  <2> HIDE DEF T
  <2>2. PICK m \in T : \A k \in T : k <= m  BY <1>2
  <2>3. \A k \in T : m >= k  BY <2>1, <2>2
  <2> QED  BY <2>3
<1> HIDE DEF T
<1>4. Most(S) = CHOOSE m \in T : \A k \in T : m >= k  BY Zenon DEF Most, Max, T
<1>5. Most(S) \in T /\ \A k \in T : Most(S) >= k  BY <1>3, <1>4, Zenon
<1> QED  BY <1>1, <1>5 DEF T

\* Where the last run of vowels of a word begins and ends.
LEMMA VowelsAre ==
  ASSUME NEW w \in Words
  PROVE  /\ LastVowel(w) \in 0 .. Len(w)
         /\ FirstVowel(w) \in 1 .. Len(w) + 1
         /\ w # <<>> => FirstVowel(w) \in 1 .. Len(w)
<1> DEFINE V == {p \in DOMAIN w : IsVowel(w[p])}
           C == {p \in 1 .. LastVowel(w) : ~IsVowel(w[p])}
<1>1. Len(w) \in Nat /\ DOMAIN w = 1 .. Len(w)  BY DEF Words
<1>2. LastVowel(w) = Most(V)  BY DEF LastVowel
<1>3. LastVowel(w) \in {0} \cup V /\ LastVowel(w) \in 0 .. Len(w)
  <2>1. V \subseteq 1 .. Len(w)  BY <1>1
  <2> HIDE DEF V
  <2> QED  BY <1>1, <1>2, <2>1, MostIs
<1>4. FirstVowel(w) = 1 + Most(C)  BY DEF FirstVowel
<1>5. Most(C) \in {0} \cup C /\ Most(C) \in 0 .. LastVowel(w)
  <2>1. LastVowel(w) \in Nat /\ C \subseteq 1 .. LastVowel(w)  BY <1>1, <1>3
  <2> HIDE DEF C
  <2> QED  BY <2>1, MostIs
<1>6. LastVowel(w) # 0 => Most(C) # LastVowel(w)
  BY <1>3, <1>5
<1>7. w # <<>> => Len(w) >= 1  BY <1>1 DEF Words
<1> DEFINE l == LastVowel(w)
           m == Most(C)
<1>8. l \in 0 .. Len(w) /\ m \in 0 .. l /\ (l # 0 => m # l)  BY <1>3, <1>5, <1>6
<1> HIDE DEF V, C, l, m
<1>9. 1 + m \in 1 .. Len(w) + 1 /\ (Len(w) >= 1 => 1 + m \in 1 .. Len(w))  BY <1>1, <1>8
<1> QED  BY <1>4, <1>7, <1>8, <1>9 DEF l, m

\* A word that takes a mark has a vowel to carry it.
LEMMA TakesAre ==
  ASSUME NEW w \in Words, Takes(w)
  PROVE  LastVowel(w) \in 1 .. Len(w) /\ w # <<>>
<1>1. LastVowel(w) > 0  BY DEF Takes
<1>2. LastVowel(w) \in 0 .. Len(w) /\ Len(w) \in Nat  BY VowelsAre DEF Words
<1> QED  BY <1>1, <1>2

\* Sessions as far as their fields go ...
Records == [word : Words, overflow : Words, keys : Seq(Keys), disabled : BOOLEAN,
            composed : BOOLEAN]

\* ... and as the engine keeps them: a buffer never beyond its size, and with no mark
\* in the word unless the session says that it composed one.
Sessions ==
  {s \in Records : /\ Len(s.word) <= MaxBuff /\ Len(s.keys) <= MaxBuff
                   /\ s.composed \/ (s.word \in Seq(Keys) /\ s.overflow \in Seq(Keys))}

\* The letters typed are letters of words, and these are characters.
LEMMA KeysAre == Keys \subseteq Lets /\ Words = Seq(Lets) /\ Acute \in Lets /\ Acute \notin Keys
                 /\ Lets \subseteq Chars /\ " " \in Chars /\ "." \in Chars /\ "\n" \in Chars
BY DEF Keys, Lets, Words, Acute, Chars

\* A text of keys is a word, a word is a text.
LEMMA KeyWords == Seq(Keys) \subseteq Words /\ Words \subseteq Seq(Chars)
<1>1. \A x \in Seq(Keys) : x \in Seq(Lets)  BY KeysAre, SeqMonotonic
<1>2. \A x \in Seq(Lets) : x \in Seq(Chars)  BY KeysAre, SeqMonotonic
<1> QED  BY <1>1, <1>2, KeysAre

\* The verdict of the spelling check is a flag.
LEMMA ValidIs == \A w, b : (~Valid(w, b)) \in BOOLEAN
OBVIOUS

\* A session begun anew is a session.
LEMMA SesNew == NewSession \in Sessions
<1>1. <<>> \in Words /\ <<>> \in Seq(Keys) /\ Len(<<>>) = 0  BY DEF Words
<1>2. 0 <= MaxBuff  OBVIOUS
<1> QED  BY <1>1, <1>2 DEF NewSession, Sessions, Records

\* The fields of a session.
LEMMA SesFields ==
  ASSUME NEW s \in Sessions
  PROVE  /\ s.word \in Words /\ s.overflow \in Words /\ s.keys \in Seq(Keys)
         /\ s.disabled \in BOOLEAN /\ s.composed \in BOOLEAN
         /\ Len(s.word) <= MaxBuff /\ Len(s.keys) <= MaxBuff
         /\ s.composed \/ (s.word \in Seq(Keys) /\ s.overflow \in Seq(Keys))
BY DEF Sessions, Records

\* insertState changes the keys alone.
LEMMA SesPressed ==
  ASSUME NEW s \in Sessions, NEW c \in Keys
  PROVE  /\ Pressed(s, c) \in Sessions
         /\ Pressed(s, c).word = s.word /\ Pressed(s, c).overflow = s.overflow
         /\ Pressed(s, c).composed = s.composed /\ Pressed(s, c).keys # <<>>
<1> DEFINE k == Newest(MaxBuff, Append(s.keys, c))
<1>1. Append(s.keys, c) \in Seq(Keys) /\ Append(s.keys, c) # <<>>
  <2>1. s.keys \in Seq(Keys)  BY SesFields
  <2> HIDE DEF Keys
  <2> QED  BY <2>1
<1>2. k \in Seq(Keys) /\ Len(k) <= MaxBuff /\ k # <<>>
  <2> DEFINE q == Append(s.keys, c)
  <2>1. q \in Seq(Keys) /\ q # <<>> /\ MaxBuff \in Nat /\ MaxBuff > 0  BY <1>1
  <2> HIDE DEF q
  <2>2. Newest(MaxBuff, q) \in Seq(Keys)
        /\ Newest(MaxBuff, q) # <<>>
        /\ Len(Newest(MaxBuff, q)) = IF Len(q) > MaxBuff THEN MaxBuff ELSE Len(q)
    BY <2>1, NewestIs
  <2>3. Len(q) \in Nat  BY <2>1
  <2> QED  BY <2>1, <2>2, <2>3 DEF q
<1> HIDE DEF k
<1>3. Pressed(s, c) = [s EXCEPT !.keys = k]  BY DEF Pressed, k
<1> QED  BY <1>2, <1>3 DEF Sessions, Records

\* insertKey puts the letter behind the overflow and the word.
LEMMA SesInserted ==
  ASSUME NEW s \in Sessions, NEW c \in Keys
  PROVE  /\ Inserted(s, c) \in Sessions
         /\ Inserted(s, c).word # <<>> /\ Inserted(s, c).keys = s.keys
         /\ Inserted(s, c).composed = s.composed
         /\ Len(Inserted(s, c).word) = IF Full(s) THEN MaxBuff ELSE Len(s.word) + 1
         /\ ~(Full(s) /\ Len(s.overflow) >= MaxLongWord)
              => Inserted(s, c).overflow \o Inserted(s, c).word
                   = (s.overflow \o s.word) \o <<c>>
<1> DEFINE w == s.word
           ov == s.overflow
           q == Append(w, c)
           v == Newest(MaxBuff, q)
           u == IF Full(s) /\ Len(ov) < MaxLongWord THEN Append(ov, w[1]) ELSE ov
           d == ~Valid(v, FALSE)
<1>1. /\ w \in Words /\ ov \in Words /\ Len(w) <= MaxBuff /\ Len(w) \in Nat
      /\ s.composed \/ (w \in Seq(Keys) /\ ov \in Seq(Keys))
      /\ MaxBuff \in Nat \ {0} /\ c \in Lets /\ Words = Seq(Lets)
  <2>1. /\ w \in Words /\ ov \in Words /\ Len(w) <= MaxBuff
        /\ s.composed \/ (w \in Seq(Keys) /\ ov \in Seq(Keys))
    BY SesFields
  <2>2. Len(w) \in Nat
    <3> HIDE DEF w
    <3> QED  BY <2>1 DEF Words
  <2>3. MaxBuff \in Nat \ {0} /\ c \in Lets /\ Words = Seq(Lets)  BY KeysAre
  <2> HIDE DEF w, ov
  <2> QED  BY <2>1, <2>2, <2>3
<1>2. Inserted(s, c) = [s EXCEPT !.word = v, !.overflow = u, !.disabled = d]
  BY DEF Inserted
<1>3. d \in BOOLEAN  BY ValidIs
<1>4. Full(s) <=> Len(w) = MaxBuff  BY DEF Full
<1>5. q \in Words /\ Len(q) = Len(w) + 1 /\ (w \in Seq(Keys) => q \in Seq(Keys))
      /\ q = w \o <<c>>
  BY <1>1
<1>6. Full(s) => v = SubSeq(q, 2, Len(q))
  <2> HIDE DEF w, q
  <2>1. Full(s) => Len(q) > MaxBuff /\ Len(q) - MaxBuff + 1 = 2  BY <1>1, <1>4, <1>5
  <2> QED  BY <2>1, Zenon DEF Newest
<1>7. ~Full(s) => v = q
  BY <1>1, <1>4, <1>5 DEF Newest
<1>8. v \in Words /\ (w \in Seq(Keys) => v \in Seq(Keys))
      /\ Len(v) = IF Full(s) THEN MaxBuff ELSE Len(w) + 1
  <2> HIDE DEF w, q, v
  <2>1. CASE Full(s)
    <3>1. Len(q) \in Nat /\ Len(q) = MaxBuff + 1  BY <1>1, <1>4, <1>5, <2>1
    <3>2. \A T : q \in Seq(T)
                 => SubSeq(q, 2, Len(q)) \in Seq(T) /\ Len(SubSeq(q, 2, Len(q))) = Len(q) - 1
      BY <3>1
    <3>3. v \in Seq(Lets) /\ (q \in Seq(Keys) => v \in Seq(Keys)) /\ Len(v) = Len(q) - 1
      BY <1>1, <1>5, <1>6, <2>1, <3>2, Zenon
    <3>4. Len(v) = MaxBuff  BY <1>1, <3>1, <3>3
    <3> QED  BY <1>1, <1>5, <2>1, <3>3, <3>4
  <2>2. CASE ~Full(s)
    BY <1>5, <1>7, <2>2
  <2> QED  BY <2>1, <2>2
<1>9. Full(s) => w[1] \in Lets /\ (w \in Seq(Keys) => w[1] \in Keys)
  BY <1>1, <1>4
<1>10. u \in Words /\ (ov \in Seq(Keys) /\ w \in Seq(Keys) => u \in Seq(Keys))
  BY <1>1, <1>9
<1>11. ~(Full(s) /\ Len(ov) >= MaxLongWord) => u \o v = (ov \o w) \o <<c>>
  <2>0. <<c>> \in Words  BY <1>1
  <2>1. (ov \o w) \o <<c>> = ov \o q
    <3> DEFINE cc == <<c>>
    <3>1. ov \in Seq(Lets) /\ w \in Seq(Lets) /\ cc \in Seq(Lets)  BY <1>1, <2>0
    <3> HIDE DEF cc, ov, w, q
    <3>2. (ov \o w) \o cc = ov \o (w \o cc)
      <4>1. Regroups(ov, w, cc)  BY <3>1, Assoc, Zenon
      <4> QED  BY <4>1 DEF Regroups
    <3> QED  BY <1>5, <3>2 DEF cc
  <2>2. CASE ~Full(s)
    BY <1>7, <2>1, <2>2
  <2>3. CASE Full(s) /\ ~(Len(ov) >= MaxLongWord)
    <3>1. Len(ov) \in Nat /\ MaxLongWord \in Nat  BY <1>1
    <3>2. u = Append(ov, w[1])  BY <2>3, <3>1
    <3> DEFINE h == <<w[1]>>
    <3>a. w[1] \in Lets /\ ov \in Seq(Lets)  BY <1>1, <1>9, <2>3
    <3>3. h \in Seq(Lets) /\ Append(ov, w[1]) = ov \o h
      <4> DEFINE e == w[1]
      <4>1. e \in Lets  BY <3>a
      <4> HIDE DEF e, ov
      <4>2. <<e>> \in Seq(Lets) /\ Append(ov, e) = ov \o <<e>>  BY <3>a, <4>1
      <4> QED  BY <4>2 DEF e
    <3>4. q = h \o v
      <4>1. Len(q) >= 1 /\ Len(q) \in Nat /\ q[1] = w[1] /\ q \in Seq(Lets)
        BY <1>1, <1>4, <1>5, <2>3
      <4> HIDE DEF q, h, v, w
      <4>2. q = SubSeq(q, 1, 1) \o SubSeq(q, 1 + 1, Len(q))  BY <4>1, Cut
      <4>3. SubSeq(q, 1, 1) = <<q[1]>>
        <5> DEFINE a == SubSeq(q, 1, 1)
                   b == <<q[1]>>
        <5>1. a \in Seq(Lets) /\ Len(a) = 1 /\ a[1] = q[1]  BY <4>1
        <5>2. b \in Seq(Lets) /\ Len(b) = 1 /\ b[1] = q[1]  BY <4>1
        <5> HIDE DEF a, b
        <5>3. a = b  BY <5>1, <5>2, SeqEqual
        <5> QED  BY <5>3 DEF a, b
      <4> QED  BY <1>6, <2>3, <4>1, <4>2, <4>3 DEF h
    <3> HIDE DEF h, q, v, u
    <3>5. v \in Seq(Lets) /\ ov \in Seq(Lets)  BY <1>1, <1>8
    <3> HIDE DEF ov, w
    <3>6. (ov \o h) \o v = ov \o (h \o v)
      <4>1. Regroups(ov, h, v)  BY <3>3, <3>5, Assoc, Zenon
      <4> QED  BY <4>1 DEF Regroups
    <3> QED  BY <2>1, <3>2, <3>3, <3>4, <3>6, Zenon
  <2> QED  BY <2>2, <2>3
<1> HIDE DEF w, ov, q, v, u, d
<1>12. v # <<>>
  <2>1. Len(v) # 0  BY <1>1, <1>8
  <2> QED  BY <2>1
<1>13. Inserted(s, c) \in Sessions
  <2>1. Len(v) <= MaxBuff  BY <1>1, <1>4, <1>8
  <2>2. s \in Records /\ Len(s.keys) <= MaxBuff  BY DEF Sessions
  <2>3. s.composed \/ (v \in Seq(Keys) /\ u \in Seq(Keys))  BY <1>1, <1>8, <1>10
  <2> QED  BY <1>2, <1>3, <1>8, <1>10, <2>1, <2>2, <2>3 DEF Sessions, Records
<1>14. /\ Inserted(s, c).word = v /\ Inserted(s, c).overflow = u
       /\ Inserted(s, c).keys = s.keys /\ Inserted(s, c).composed = s.composed
  BY <1>2 DEF Sessions, Records
<1> QED  BY <1>8, <1>11, <1>12, <1>13, <1>14 DEF w, ov

\* The repair changes no letter before the last run of vowels.
LEMMA SesRepaired ==
  ASSUME NEW s \in Sessions
  PROVE  /\ Repaired(s) \in Sessions
         /\ Repaired(s).overflow = s.overflow /\ Repaired(s).keys = s.keys
         /\ Len(Repaired(s).word) = Len(s.word)
         /\ \A i \in 1 .. FirstVowel(s.word) - 1 : Repaired(s).word[i] = s.word[i]
         /\ Len(s.word) < 2 => Repaired(s) = s
<1> DEFINE w == s.word
           wrong == {p \in FirstVowel(w) .. LastVowel(w) : w[p] = Acute} \ {Place(w)}
           v == [p \in DOMAIN w |-> IF p = Place(w) THEN Acute
                                    ELSE IF p \in wrong THEN "i" ELSE w[p]]
           r == [s EXCEPT !.word = v]
<1>1. w \in Words /\ Len(w) <= MaxBuff
  BY SesFields
<1>2. CASE Repaired(s) = s
  BY <1>2
<1>3. CASE s.composed /\ Len(w) \in 2 .. MaxBuff - 1 /\ Repaired(s) = r
  <2>1. Words = Seq(Lets) /\ Acute \in Lets /\ "i" \in Lets  BY KeysAre DEF Lets
  <2>2. FirstVowel(w) \in Nat /\ LastVowel(w) \in Nat
    <3> HIDE DEF w
    <3>1. FirstVowel(w) \in 1 .. Len(w) + 1 /\ LastVowel(w) \in 0 .. Len(w) /\ Len(w) \in Nat
      BY <1>1, VowelsAre DEF Words
    <3> QED  BY <3>1
  <2>3. Place(w) >= FirstVowel(w) /\ Place(w) \in Nat  BY <2>2 DEF Place
  <2>4. \A p \in wrong : p >= FirstVowel(w)  BY <2>2
  <2>5. v \in Words /\ Len(v) = Len(w) /\ \A i \in 1 .. FirstVowel(w) - 1 : v[i] = w[i]
    <3>1. w \in Seq(Lets) /\ Len(w) \in Nat /\ DOMAIN w = 1 .. Len(w)  BY <1>1, <2>1
    <3>2. \A p \in DOMAIN w : v[p] \in Lets
      <4> TAKE p \in DOMAIN w
      <4>1. w[p] \in Lets  BY <3>1
      <4> HIDE DEF w, wrong
      <4> QED  BY <2>1, <4>1
    <3>3. v \in Seq(Lets) /\ Len(v) = Len(w)
      <4>1. v = [p \in 1 .. Len(w) |-> v[p]]  BY <3>1
      <4> HIDE DEF v, w
      <4>2. v \in [1 .. Len(w) -> Lets]  BY <3>1, <3>2, <4>1
      <4> QED  BY <3>1, <4>2
    <3>4. ASSUME NEW i \in 1 .. FirstVowel(w) - 1, i \in DOMAIN w PROVE v[i] = w[i]
      <4>1. i < FirstVowel(w)  BY <2>2
      <4>2. i # Place(w) /\ i \notin wrong
        <5> HIDE DEF w, wrong
        <5> QED  BY <2>2, <2>3, <2>4, <4>1
      <4> HIDE DEF w, wrong
      <4> QED  BY <3>4, <4>2
    <3>5. FirstVowel(w) - 1 <= Len(w)
      <4> HIDE DEF w
      <4>1. FirstVowel(w) \in 1 .. Len(w) + 1  BY <1>1, VowelsAre
      <4> QED  BY <3>1, <4>1
    <3>6. \A i \in 1 .. FirstVowel(w) - 1 : i \in DOMAIN w
      <4> HIDE DEF w
      <4> QED  BY <2>2, <3>1, <3>5
    <3> HIDE DEF v, w
    <3> QED  BY <2>1, <3>3, <3>4, <3>6
  <2> HIDE DEF v
  <2>6. /\ r \in Sessions /\ r.word = v /\ r.overflow = s.overflow /\ r.keys = s.keys
    <3>1. s \in Records /\ s.composed /\ Len(s.keys) <= MaxBuff  BY <1>3 DEF Sessions
    <3>2. Len(v) <= MaxBuff  BY <1>1, <2>5
    <3> QED  BY <2>5, <3>1, <3>2 DEF Sessions, Records
  <2>7. ~(Len(w) < 2)  BY <1>3
  <2> QED  BY <1>3, <2>5, <2>6, <2>7
<1> QED
  <2>1. Repaired(s) = IF s.composed /\ Len(w) \in 2 .. MaxBuff - 1 /\ wrong # {}
                      THEN r ELSE s
    BY DEF Repaired
  <2> HIDE DEF r, w, wrong
  <2>2. Repaired(s) = s \/ (s.composed /\ Len(w) \in 2 .. MaxBuff - 1 /\ Repaired(s) = r)
    BY <2>1
  <2> QED  BY <1>2, <1>3, <2>2

\* A mark put on one letter of the word ...
Put(w, p, x) == [w EXCEPT ![p] = x]

\* ... and the session whose word is respelt.
Spelt(s, w) == [s EXCEPT !.word = w, !.composed = TRUE]

\* A mark set at the p-th letter changes no letter before it.
LEMMA SesMarked ==
  ASSUME NEW s, NEW p, NEW x
  PROVE  /\ s \in Sessions /\ p \in 1 .. Len(s.word) /\ x \in Lets
         => LET v == Put(s.word, p, x)
                r == Spelt(s, v)
            IN  /\ r \in Sessions /\ r.word = v /\ r.keys = s.keys /\ r.overflow = s.overflow
                /\ v \in Words /\ Len(v) = Len(s.word) /\ Alike(s.word, v, p - 1)
<1> DEFINE w == s.word
           v == Put(w, p, x)
           r == Spelt(s, v)
<1>0. SUFFICES ASSUME s \in Sessions, p \in 1 .. Len(w), x \in Lets
               PROVE  /\ r \in Sessions /\ r.word = v /\ r.keys = s.keys
                      /\ r.overflow = s.overflow
                      /\ v \in Words /\ Len(v) = Len(w) /\ Alike(w, v, p - 1)
  OBVIOUS
<1>1. w \in Seq(Lets) /\ Len(w) <= MaxBuff  BY <1>0, SesFields, KeysAre
<1>2. Len(w) \in Nat  BY <1>1
<1>3. v \in Seq(Lets) /\ Len(v) = Len(w)
      /\ \A j \in 1 .. Len(w) : v[j] = IF j = p THEN x ELSE w[j]
  <2>1. p \in 1 .. Len(w) /\ x \in Lets  BY <1>0
  <2> HIDE DEF w
  <2> QED  BY <1>1, <2>1, ExceptSeq DEF Put
<1>4. \A i \in 1 .. p - 1 : w[i] = v[i]
  <2>1. p \in 1 .. Len(w)  BY <1>0
  <2> HIDE DEF w, v
  <2>2. \A i \in 1 .. p - 1 : i \in 1 .. Len(w) /\ i # p  BY <1>2, <2>1
  <2> QED  BY <1>3, <2>2
<1>5. v \in Words /\ Len(v) <= MaxBuff  BY <1>1, <1>3, KeysAre
<1> HIDE DEF v
<1>6. r \in Sessions /\ r.word = v /\ r.keys = s.keys /\ r.overflow = s.overflow
  <2>1. s \in Records /\ Len(s.keys) <= MaxBuff  BY <1>0 DEF Sessions
  <2> QED  BY <1>5, <2>1 DEF Sessions, Records, Spelt
<1> QED  BY <1>3, <1>4, <1>5, <1>6 DEF Alike

\* The judgment at the end of a word changes no letter of it.
LEMMA SesJudged ==
  ASSUME NEW s \in Sessions
  PROVE  /\ Judged(s) \in Sessions
         /\ Judged(s).word = s.word /\ Judged(s).overflow = s.overflow /\ Judged(s).keys = s.keys
         /\ Judged(s).composed = s.composed
         /\ Judged(Judged(s)) = Judged(s)
<1> DEFINE d == s.disabled \/ ~Valid(s.word, TRUE)
<1>1. d \in BOOLEAN  OBVIOUS
<1>2. Judged(s) = [s EXCEPT !.disabled = d]  BY DEF Judged
<1>3. d \/ ~Valid(s.word, TRUE) <=> d  OBVIOUS
<1>4. Judged(Judged(s))
        = [Judged(s) EXCEPT !.disabled = Judged(s).disabled \/ ~Valid(Judged(s).word, TRUE)]
  BY DEF Judged
<1> HIDE DEF d
<1>5. /\ Judged(s) \in Sessions /\ Judged(s).disabled = d
      /\ Judged(s).word = s.word /\ Judged(s).overflow = s.overflow /\ Judged(s).keys = s.keys
      /\ Judged(s).composed = s.composed
  BY <1>1, <1>2 DEF Sessions, Records
<1>6. (Judged(s).disabled \/ ~Valid(Judged(s).word, TRUE)) = d
  <2>1. (d \/ ~Valid(s.word, TRUE)) = d  BY <1>1, <1>3, Zenon
  <2> QED  BY <1>5, <2>1
<1>7. Judged(Judged(s)) = [Judged(s) EXCEPT !.disabled = d]  BY <1>4, <1>6
<1>8. [[s EXCEPT !.disabled = d] EXCEPT !.disabled = d] = [s EXCEPT !.disabled = d]
  BY DEF Sessions, Records
<1> QED  BY <1>2, <1>5, <1>7, <1>8

\* A word restored is its keys, which carry no mark.
LEMMA SesRaw ==
  ASSUME NEW s \in Sessions
  PROVE  /\ Raw(s) \in Sessions
         /\ Raw(s).word = s.keys /\ Raw(s).overflow = s.overflow /\ Raw(s).keys = s.keys
         /\ ~HasMark(Raw(s).word)
<1>1. s.keys \in Seq(Keys) /\ Len(s.keys) <= MaxBuff /\ s.overflow \in Words
      /\ (s.composed \/ s.overflow \in Seq(Keys))
  BY SesFields
<1>2. s.keys \in Words  BY <1>1, KeyWords
<1>3. Raw(s) = [s EXCEPT !.word = s.keys]  BY DEF Raw
<1>4. ~HasMark(s.keys)
  <2> DEFINE k == s.keys
  <2>1. k \in Seq(Keys)  BY <1>1
  <2> HIDE DEF k
  <2>2. \A p \in DOMAIN k : k[p] \in Keys  BY <2>1
  <2>3. ~HasMark(k)  BY <2>2, KeysAre DEF HasMark
  <2> QED  BY <2>3 DEF k
<1> QED  BY <1>1, <1>2, <1>3, <1>4 DEF Sessions, Records

\* A word saved has no overflow.
LEMMA SesSaved ==
  ASSUME NEW s \in Sessions, s.word = <<>> => s.overflow = <<>>
  PROVE  /\ Saved(s) \in Sessions
         /\ Saved(s).word = s.word /\ Saved(s).overflow = <<>> /\ Saved(s).keys = s.keys
         /\ Saved(s).disabled = s.disabled
<1>1. <<>> \in Words /\ <<>> \in Seq(Keys)  BY DEF Words
<1>2. CASE s.word = <<>>
  BY <1>2 DEF Saved
<1>3. CASE s.word # <<>>
  <2>1. Saved(s) = [s EXCEPT !.overflow = <<>>]  BY <1>3 DEF Saved
  <2> QED  BY <1>1, <2>1 DEF Sessions, Records
<1> QED  BY <1>2, <1>3

\* The word without its last letter is the text without its last character.
LEMMA SesShortened ==
  ASSUME NEW s \in Sessions, s.word # <<>>
  PROVE  LET t == Shortened(s)
             o == s.overflow \o s.word
         IN  /\ t \in Sessions
             /\ t.overflow \o t.word = SubSeq(o, 1, Len(o) - 1)
             /\ Len(t.word) = IF s.overflow = <<>> THEN Len(s.word) - 1 ELSE Len(s.word)
<1> DEFINE ov == s.overflow
           w == s.word
           g == Front(w)
           ov2 == IF ov = <<>> THEN ov ELSE Front(ov)
           w2 == (IF ov = <<>> THEN <<>> ELSE <<Last(ov)>>) \o g
           k2 == IF s.keys = <<>> THEN s.keys ELSE Front(s.keys)
           d == ~Valid(w2, FALSE)
<1>1. /\ w \in Words /\ ov \in Words /\ Len(w) <= MaxBuff /\ w # <<>>
      /\ s.composed \/ (w \in Seq(Keys) /\ ov \in Seq(Keys))
      /\ s.keys \in Seq(Keys) /\ Len(s.keys) <= MaxBuff
  BY SesFields
<1>w. Words = Seq(Lets)  BY KeysAre
<1>2. Shortened(s) = [s EXCEPT !.word = w2, !.overflow = ov2, !.keys = k2, !.disabled = d]
  BY DEF Shortened
<1>3. d \in BOOLEAN  BY ValidIs
<1> HIDE DEF d
<1>4. k2 \in Seq(Keys) /\ Len(k2) <= MaxBuff
  <2> DEFINE k == s.keys
  <2>1. k \in Seq(Keys) /\ Len(k) <= MaxBuff  BY <1>1
  <2> HIDE DEF k
  <2>2. k # <<>> => Front(k) \in Seq(Keys) /\ Len(Front(k)) = Len(k) - 1 /\ Len(k) \in Nat
    BY <2>1, FrontLast
  <2>3. k # <<>> => Len(Front(k)) <= MaxBuff  BY <2>1, <2>2
  <2> QED  BY <2>1, <2>2, <2>3 DEF k
<1> HIDE DEF k2
<1>5. /\ g \in Words /\ Len(g) = Len(w) - 1 /\ Len(w) \in Nat \ {0}
      /\ w \in Seq(Keys) => g \in Seq(Keys)
  <2> HIDE DEF w
  <2>1. g \in Words /\ Len(g) = Len(w) - 1 /\ Len(w) \in Nat \ {0}  BY <1>1, <1>w, FrontLast
  <2>2. w \in Seq(Keys) => g \in Seq(Keys)  BY <1>1, FrontLast
  <2> QED  BY <2>1, <2>2
<1>o. SubSeq(ov \o w, 1, Len(ov \o w) - 1) = ov \o g
  <2> HIDE DEF ov, w
  <2> QED  BY <1>1, <1>w, FrontOfBoth
<1> HIDE DEF g
<1>6. CASE ov = <<>>
  <2>1. w2 = g /\ ov2 = ov  BY <1>5, <1>6
  <2> HIDE DEF w2, ov2
  <2>2. Len(w2) <= MaxBuff /\ Len(w2) = Len(w) - 1
    <3> HIDE DEF w
    <3> QED  BY <1>1, <1>5, <2>1
  <2>3. w2 \in Words /\ ov2 \in Words /\ (s.composed \/ (w2 \in Seq(Keys) /\ ov2 \in Seq(Keys)))
    BY <1>1, <1>5, <2>1
  <2>4. Shortened(s) \in Sessions /\ Shortened(s).overflow = ov2 /\ Shortened(s).word = w2
    <3>1. s \in Records  BY DEF Sessions
    <3> QED  BY <1>2, <1>3, <1>4, <2>2, <2>3, <3>1 DEF Sessions, Records
  <2>5. Shortened(s).overflow \o Shortened(s).word = SubSeq(ov \o w, 1, Len(ov \o w) - 1)
    BY <1>o, <2>1, <2>4
  <2> QED  BY <1>6, <2>2, <2>4, <2>5
<1>7. CASE ov # <<>>
  <2> DEFINE f == Front(ov)
             l == <<Last(ov)>>
  <2>1. /\ f \in Seq(Lets) /\ l \in Seq(Lets) /\ Len(l) = 1 /\ ov = f \o l
        /\ ov \in Seq(Keys) => f \in Seq(Keys) /\ l \in Seq(Keys)
    <3> HIDE DEF ov
    <3>1. f \in Seq(Lets) /\ l \in Seq(Lets) /\ Len(l) = 1 /\ ov = f \o l
      BY <1>1, <1>7, <1>w, FrontLast
    <3>2. ov \in Seq(Keys) => f \in Seq(Keys) /\ l \in Seq(Keys)
      BY <1>7, FrontLast
    <3> QED  BY <3>1, <3>2
  <2>2. w2 = l \o g /\ ov2 = f  BY <1>7
  <2> HIDE DEF w2, ov2, f, l
  <2>3. /\ w2 \in Seq(Lets) /\ Len(w2) = 1 + Len(g)
        /\ (l \in Seq(Keys) /\ g \in Seq(Keys) => w2 \in Seq(Keys))
    <3>1. l \in Seq(Lets) /\ g \in Seq(Lets)  BY <1>5, <1>w, <2>1
    <3> QED  BY <2>1, <2>2, <3>1, Cat
  <2>4. Len(w2) = Len(w) /\ Len(w2) <= MaxBuff
    <3> HIDE DEF w
    <3> QED  BY <1>1, <1>5, <2>3
  <2>5. s.composed \/ (w2 \in Seq(Keys) /\ ov2 \in Seq(Keys))
    BY <1>1, <1>5, <2>1, <2>2, <2>3
  <2>6. Shortened(s) \in Sessions /\ Shortened(s).overflow = ov2 /\ Shortened(s).word = w2
    <3>1. s \in Records /\ ov2 \in Words /\ w2 \in Words  BY <1>w, <2>1, <2>2, <2>3 DEF Sessions
    <3> QED  BY <1>2, <1>3, <1>4, <2>4, <2>5, <3>1 DEF Sessions, Records
  <2>7. f \o (l \o g) = (f \o l) \o g
    <3>1. f \in Seq(Lets) /\ l \in Seq(Lets) /\ g \in Seq(Lets)  BY <1>5, <1>w, <2>1
    <3>9. Regroups(f, l, g)  BY <3>1, Assoc, Zenon
    <3> QED  BY <3>9 DEF Regroups
  <2>8. ov2 \o w2 = ov \o g  BY <2>1, <2>2, <2>7, Zenon
  <2> QED  BY <1>7, <1>o, <2>4, <2>6, <2>8
<1> QED  BY <1>6, <1>7

\* A word saved goes to the end of the history, its overflow before it.
LEMMA WordSaved ==
  ASSUME NEW h, NEW s
  PROVE  /\ h \in Seq(Entries) /\ Len(h) <= MaxHistory
         /\ s \in Sessions /\ (s.word = <<>> => s.overflow = <<>>)
         => /\ WithWord(h, s) \in Seq(Entries) /\ Len(WithWord(h, s)) <= MaxHistory
            /\ s.word = <<>> => WithWord(h, s) = h
            /\ s.word # <<>> => /\ WithWord(h, s) # <<>>
                                /\ Last(WithWord(h, s)) \in EntriesOf(Lets)
            /\ IsSuffix(FlattenSeq(WithWord(h, s)), FlattenSeq(h) \o (s.overflow \o s.word))
<1>0. SUFFICES ASSUME h \in Seq(Entries), Len(h) <= MaxHistory,
                      s \in Sessions, s.word = <<>> => s.overflow = <<>>
      PROVE /\ WithWord(h, s) \in Seq(Entries) /\ Len(WithWord(h, s)) <= MaxHistory
            /\ s.word = <<>> => WithWord(h, s) = h
            /\ s.word # <<>> => /\ WithWord(h, s) # <<>>
                                /\ Last(WithWord(h, s)) \in EntriesOf(Lets)
            /\ IsSuffix(FlattenSeq(WithWord(h, s)), FlattenSeq(h) \o (s.overflow \o s.word))
  OBVIOUS
<1> DEFINE ov == s.overflow
           w == s.word
           a == PushAll(h, ov)
           b == PushAll(a, w)
           fh == FlattenSeq(h)
           fa == FlattenSeq(a)
           fb == FlattenSeq(b)
<1>1. ov \in Seq(Lets) /\ w \in Seq(Lets) /\ Lets \in Kinds  BY <1>0, SesFields, KeysAre DEF Kinds
<1>2. Seq(Lets) \subseteq Seq(Chars)  BY KeyWords, KeysAre
<1>t. \A q \in Seq(Entries) : FlattenSeq(q) \in Seq(Chars)
  <2> TAKE q \in Seq(Entries)
  <2>1. q \in Seq(Seq(Chars))  BY EntriesAreTexts, SeqMonotonic
  <2> QED  BY <2>1, FlatType
<1>3. CASE w = <<>>
  <2>1. WithWord(h, s) = h /\ ov = <<>>  BY <1>0, <1>3 DEF WithWord
  <2>2. <<>> \o <<>> = <<>>  OBVIOUS
  <2>3. fh \in Seq(Chars)  BY <1>0, <1>t
  <2> HIDE DEF fh
  <2>4. fh \o <<>> = fh  BY <2>3
  <2>5. IsSuffix(fh, fh)  BY <2>3, SuffixSelf
  <2>6. IsSuffix(fh, fh \o (ov \o w))  BY <1>3, <2>1, <2>2, <2>4, <2>5
  <2> QED  BY <1>0, <1>3, <2>1, <2>6 DEF fh
<1>4. CASE w # <<>>
  <2>1. WithWord(h, s) = b  BY <1>4 DEF WithWord
  <2> HIDE DEF ov, w
  <2>2. a \in Seq(Entries) /\ Len(a) <= MaxHistory /\ IsSuffix(fa, fh \o ov)
    <3>1. h \in Seq(Entries) /\ Len(h) <= MaxHistory  BY <1>0
    <3> QED  BY <1>1, <3>1, Pushed
  <2> HIDE DEF a
  <2>3. /\ b \in Seq(Entries) /\ Len(b) <= MaxHistory
        /\ b # <<>> /\ Last(b) \in EntriesOf(Lets)
        /\ IsSuffix(fb, fa \o w)
    <3>1. a \in Seq(Entries) /\ Len(a) <= MaxHistory  BY <2>2
    <3> QED  BY <1>1, <1>4, <3>1, Pushed
  <2> HIDE DEF b
  <2>4. fh \in Seq(Chars) /\ fa \in Seq(Chars) /\ fb \in Seq(Chars)
    BY <1>0, <1>t, <2>2, <2>3
  <2> HIDE DEF fh, fa, fb
  <2> DEFINE fo == fh \o ov
             aw == fa \o w
             fow == fo \o w
  <2>5. ov \in Seq(Chars) /\ w \in Seq(Chars)  BY <1>1, <1>2
  <2>6. (fh \o ov) \o w = fh \o (ov \o w)
    <3>1. fh \in Seq(Chars) /\ ov \in Seq(Chars) /\ w \in Seq(Chars)  BY <2>4, <2>5
    <3>9. Regroups(fh, ov, w)  BY <3>1, Assoc, Zenon
    <3> QED  BY <3>9 DEF Regroups
  <2>7. fo \in Seq(Chars) /\ aw \in Seq(Chars)
    <3>1. fh \in Seq(Chars) /\ ov \in Seq(Chars)  BY <2>4, <2>5
    <3>2. fa \in Seq(Chars) /\ w \in Seq(Chars)  BY <2>4, <2>5
    <3> QED  BY <3>1, <3>2, Cat
  <2>8. IsSuffix(fa, fo) /\ IsSuffix(fb, aw)  BY <2>2, <2>3
  <2> HIDE DEF fo
  <2>9. fow \in Seq(Chars)  BY <2>5, <2>7, Cat
  <2>10. IsSuffix(aw, fow)  BY <2>4, <2>5, <2>7, <2>8, SuffixMore
  <2> HIDE DEF aw, fow
  <2>11. IsSuffix(fb, fow)  BY <2>4, <2>7, <2>8, <2>9, <2>10, SuffixTrans
  <2>12. fow = fh \o (ov \o w)  BY <2>6 DEF fow, fo
  <2> QED
    <3>1. IsSuffix(FlattenSeq(WithWord(h, s)), FlattenSeq(h) \o (s.overflow \o s.word))
      BY <2>1, <2>11, <2>12, Zenon DEF fb, fh, ov, w
    <3> QED  BY <1>4, <2>1, <2>3, <3>1, Zenon DEF w
<1> QED  BY <1>3, <1>4

\* Blanks are a text.
LEMMA BlanksType ==
  ASSUME NEW n \in Nat, NEW S, " " \in S
  PROVE  Blanks(n) \in Seq(S) /\ Len(Blanks(n)) = n /\ \A i \in 1 .. n : Blanks(n)[i] = " "
BY Repeated, Zenon DEF Blanks

\* One blank more, one blank less.
LEMMA BlanksAre ==
  ASSUME NEW n \in Nat
  PROVE  /\ n > 0 => Blanks(n) # <<>>
         /\ Blanks(n + 1) = Blanks(n) \o <<" ">>
         /\ n > 0 => SubSeq(Blanks(n), 1, n - 1) = Blanks(n - 1)
<1> DEFINE B == {" "}
           s == " "
           l == <<s>>
           a == Blanks(n)
<1>1. s \in B /\ l \in Seq(B) /\ Len(l) = 1 /\ l[1] = s  OBVIOUS
<1>2. a \in Seq(B) /\ Len(a) = n /\ \A i \in 1 .. n : a[i] = s  BY <1>1, BlanksType
<1> HIDE DEF B, l, a
<1>3. n > 0 => a # <<>>
  <2>1. Len(<<>>) = 0 /\ (n > 0 => n # 0)  OBVIOUS
  <2> QED  BY <1>2, <2>1, Zenon
<1>4. Blanks(n + 1) = a \o l
  <2> DEFINE b == Blanks(n + 1)
             c == a \o l
  <2>0. n + 1 \in Nat  OBVIOUS
  <2>1. b \in Seq(B) /\ Len(b) = n + 1 /\ \A i \in 1 .. n + 1 : b[i] = s
    BY <1>1, <2>0, BlanksType
  <2> HIDE DEF b, s
  <2>2. c \in Seq(B) /\ Len(c) = n + 1  BY <1>1, <1>2, Cat
  <2>3. ASSUME NEW i \in 1 .. n + 1 PROVE c[i] = s
    <3>0. a \in Seq(B) /\ l \in Seq(B)  BY <1>1, <1>2
    <3>00. i \in 1 .. Len(a) + Len(l)  BY <1>1, <1>2
    <3>1. c[i] = IF i <= Len(a) THEN a[i] ELSE l[i - Len(a)]
      BY <3>0, <3>00, ConcatProperties
    <3>2. i <= n => i \in 1 .. n  OBVIOUS
    <3>3. ~(i <= n) => i - n = 1  OBVIOUS
    <3> QED  BY <1>1, <1>2, <3>1, <3>2, <3>3
  <2> HIDE DEF c
  <2>4. \A i \in 1 .. Len(b) : b[i] = c[i]  BY <2>1, <2>3
  <2>5. b = c  BY <2>1, <2>2, <2>4, SeqEqual
  <2> QED  BY <2>5 DEF b, c
<1>5. ASSUME n > 0 PROVE SubSeq(a, 1, n - 1) = Blanks(n - 1)
  <2> DEFINE b == Blanks(n - 1)
             c == SubSeq(a, 1, n - 1)
  <2>0. n - 1 \in Nat  BY <1>5
  <2>1. b \in Seq(B) /\ Len(b) = n - 1 /\ \A i \in 1 .. n - 1 : b[i] = s
    BY <1>1, <2>0, BlanksType
  <2> HIDE DEF b, s
  <2>2. c \in Seq(B) /\ Len(c) = n - 1 /\ \A i \in 1 .. n - 1 : c[i] = a[i]  BY <1>2, <1>5
  <2> HIDE DEF c
  <2>3. \A i \in 1 .. Len(b) : b[i] = c[i]
    <3>1. \A i \in 1 .. n - 1 : i \in 1 .. n  OBVIOUS
    <3> QED  BY <1>2, <2>1, <2>2, <3>1
  <2>4. b = c  BY <2>1, <2>2, <2>3, SeqEqual
  <2> QED  BY <2>4 DEF b, c
<1> QED  BY <1>3, <1>4, <1>5 DEF a, l

\* An entry of blanks is told by its length.
LEMMA BlankEntry ==
  ASSUME NEW e \in EntriesOf({" "})
  PROVE  Len(e) \in Nat \ {0} /\ Blanks(Len(e)) = e
<1> DEFINE B == {" "}
           b == Blanks(Len(e))
           s == " "
<1>1. e \in Seq(B) /\ e # <<>>  BY DEF EntriesOf
<1>3. s \in B /\ \A x \in B : x = s  OBVIOUS
<1>2. Len(e) \in Nat \ {0}
  <2> HIDE DEF B
  <2> QED  BY <1>1, EmptySeq
<1>4. b \in Seq(B) /\ Len(b) = Len(e) /\ \A i \in 1 .. Len(e) : b[i] = s
  BY <1>2, <1>3, BlanksType
<1> HIDE DEF b, B, s
<1>5. \A i \in 1 .. Len(e) : e[i] \in B  BY <1>1, ElementOfSeq
<1>6. \A i \in 1 .. Len(e) : e[i] = b[i]  BY <1>3, <1>4, <1>5
<1>7. e = b  BY <1>1, <1>4, <1>6, SeqEqual
<1> QED  BY <1>2, <1>7 DEF b

-----------------------------------------------------------------------------
(* The inductive invariant.                                                *)

\* What a session holds of the text itself: the blanks, the punctuation or the word
\* it counts, with the part that overflowed in front.
OwnOf(s, sp, n) == IF n > 0 THEN Blanks(n)
                   ELSE IF sp # <<>> THEN sp ELSE s.overflow \o s.word

Own == OwnOf(ses, special, spaces)

\* Types, and the bounds of the buffers.
SesOk ==
  /\ ses \in Sessions /\ special \in Seq({"."}) /\ spaces \in Nat
  /\ history \in Seq(Entries) /\ Len(history) <= MaxHistory
  /\ account \in Nat /\ due \in Seq(Chars) /\ doc \in Seq(Chars)
  /\ resyncs \in Nat /\ jumps \in 0 .. MaxJumps /\ resyncs <= jumps /\ astray \in BOOLEAN
  /\ special # <<>> => spaces = 0

\* The last thing remembered is a word.
LastIsWord == history # <<>> /\ Last(history) \in EntriesOf(Lets)

\* What is kept together.  Behind punctuation the session is empty; behind blanks its
\* word lies in the history, nothing overflowed and no restore is due.  A session without
\* a word has no overflow and, with nothing behind it, neither keys nor history.
Bookkeeping ==
  /\ special # <<>> => ses.word = <<>> /\ ses.overflow = <<>>
  /\ spaces > 0 => /\ ses.overflow = <<>> /\ ~Restores(Judged(ses))
                   /\ ses.word # <<>> => history # <<>>
                   /\ ses.keys # <<>> => LastIsWord
  /\ spaces = 0 /\ special = <<>> /\ ses.word = <<>> => history = <<>>
  /\ ses.word = <<>> => ses.overflow = <<>>
  /\ spaces = 0 /\ ses.word = <<>> => ses.keys = <<>>

\* What the engine believes stands before the caret, and account counts all of it.
Behind == IsSuffix(Believed, due) /\ account >= Len(Believed)

\* The inductive invariant.  Mirror is the first half of Behind; the count is needed
\* because no edit erases more than it, the bookkeeping because a Backspace takes back what
\* the history gives.
SessionInv == SesOk /\ (~astray => Behind /\ Bookkeeping)

\* What the engine believes is the history and what is its own.
LEMMA BelievedIs ==
  /\ Believed = FlattenSeq(history) \o Own
  /\ Believed' = FlattenSeq(history') \o Own'
BY DEF Believed, Own, OwnOf

\* Punctuation and blanks are texts, and kinds of entries.
LEMMA DotChars == Seq({"."}) \subseteq Seq(Chars) /\ Seq({" "}) \subseteq Seq(Chars)
                  /\ {"."} \in Kinds /\ {" "} \in Kinds /\ Lets \in Kinds
<1>1. \A T \in Kinds : Seq(T) \subseteq Seq(Chars)
  BY EntriesAreTexts, SeqMonotonic
<1>2. {"."} \in Kinds /\ {" "} \in Kinds /\ Lets \in Kinds  BY DEF Kinds
<1> QED  BY <1>1, <1>2

\* What is the engine's own is a text.
LEMMA OwnType ==
  ASSUME NEW s \in Sessions, NEW sp \in Seq({"."}), NEW n \in Nat
  PROVE  OwnOf(s, sp, n) \in Seq(Chars)
<1>1. s.overflow \in Seq(Chars) /\ s.word \in Seq(Chars)  BY SesFields, KeyWords
<1>2. s.overflow \o s.word \in Seq(Chars)  BY <1>1, Cat
<1>3. sp \in Seq(Chars)  BY DotChars
<1>4. Blanks(n) \in Seq(Chars)  BY KeysAre, BlanksType
<1> QED  BY <1>2, <1>3, <1>4 DEF OwnOf

\* The history put together is a text.
LEMMA HistoryType ==
  ASSUME NEW h \in Seq(Entries)
  PROVE  FlattenSeq(h) \in Seq(Chars)
<1>1. h \in Seq(Seq(Chars))  BY EntriesAreTexts, SeqMonotonic
<1> QED  BY <1>1, FlatType

\* What the engine believes is a text.
LEMMA BelievedType ==
  /\ SesOk => /\ FlattenSeq(history) \in Seq(Chars) /\ Own \in Seq(Chars)
              /\ Believed \in Seq(Chars)
  /\ SesOk' => /\ FlattenSeq(history') \in Seq(Chars) /\ Own' \in Seq(Chars)
               /\ Believed' \in Seq(Chars)
<1>1. ASSUME SesOk PROVE FlattenSeq(history) \in Seq(Chars) /\ Own \in Seq(Chars)
  BY <1>1, OwnType, HistoryType DEF SesOk, Own
<1>2. ASSUME SesOk' PROVE FlattenSeq(history') \in Seq(Chars) /\ Own' \in Seq(Chars)
  BY <1>2, OwnType, HistoryType DEF SesOk, Own
<1>3. \A f, o \in Seq(Chars) : f \o o \in Seq(Chars)  BY Cat
<1> QED  BY <1>1, <1>2, <1>3, BelievedIs, Zenon

\* An edit of the own text leaves the document ending in what is believed.
LEMMA Moved ==
  ASSUME NEW d, NEW ins
  PROVE  /\ SesOk /\ SesOk' /\ Behind /\ Retype(d, ins)
         /\ d \in 0 .. Len(Own) /\ ins \in Seq(Chars)
         /\ IsSuffix(Believed', FlattenSeq(history) \o (SubSeq(Own, 1, Len(Own) - d) \o ins))
         => Behind'
<1>1. ASSUME SesOk, SesOk', Behind, Retype(d, ins), d \in 0 .. Len(Own), ins \in Seq(Chars),
             IsSuffix(Believed', FlattenSeq(history) \o (SubSeq(Own, 1, Len(Own) - d) \o ins))
      PROVE  Behind'
  <2>1. due \in Seq(Chars) /\ account \in Nat  BY <1>1 DEF SesOk
  <2>2. FlattenSeq(history) \in Seq(Chars) /\ Own \in Seq(Chars) /\ Believed' \in Seq(Chars)
    BY <1>1, BelievedType
  <2>3. IsSuffix(FlattenSeq(history) \o Own, due) /\ account >= Len(FlattenSeq(history) \o Own)
    BY <1>1, BelievedIs DEF Behind
  <2>4. IsSuffix(Believed', due') /\ account' >= Len(Believed')
    BY <1>1, <2>1, <2>2, <2>3, Retyped, Zenon
  <2> QED  BY <2>4 DEF Behind
<1> QED  BY <1>1

\* An edit leaves a text and an account.
LEMMA RetypeType ==
  ASSUME due \in Seq(Chars), account \in Nat, NEW d \in Nat, NEW ins \in Seq(Chars), Retype(d, ins)
  PROVE  due' \in Seq(Chars) /\ account' \in Nat
<1>1. Clamp(d) \in Nat /\ Clamp(d) <= account  BY DEF Clamp
<1>2. \A n \in Nat : Erased(n) \in Seq(Chars)  BY DEF Erased
<1>3. due' = Erased(Clamp(d)) \o ins /\ account' = account - Clamp(d) + Len(ins)  BY DEF Retype
<1>4. Erased(Clamp(d)) \in Seq(Chars) /\ ins \in Seq(Chars)  BY <1>1, <1>2
<1>5. due' \in Seq(Chars)  BY <1>3, <1>4, Cat
<1>6. Len(ins) \in Nat  OBVIOUS
<1> QED  BY <1>1, <1>3, <1>5, <1>6

\* A Backspace passed on leaves a text and an account.
LEMMA PassedType ==
  ASSUME due \in Seq(Chars), account \in Nat, Passed
  PROVE  due' \in Seq(Chars) /\ account' \in Nat
<1>1. Erased(1) \in Seq(Chars)  BY DEF Erased
<1> QED  BY <1>1 DEF Passed, Less

\* The types of the invariant give those of the model.
LEMMA TypedImpliesTypeOK == SesOk => TypeOK
<1>1. ASSUME SesOk PROVE TypeOK
  <2>1. /\ ses.word \in Words /\ ses.overflow \in Words /\ ses.keys \in Seq({"i", "s", "t"})
        /\ ses.disabled \in BOOLEAN /\ ses.composed \in BOOLEAN
        /\ Len(ses.word) <= MaxBuff /\ Len(ses.keys) <= MaxBuff
    BY <1>1, SesFields DEF SesOk, Keys
  <2>2. \A k \in DOMAIN history : history[k] # <<>> /\ Len(history[k]) <= MaxBuff
    <3>1. history \in Seq(Entries)  BY <1>1 DEF SesOk
    <3>2. \A k \in DOMAIN history : history[k] \in Entries  BY <3>1
    <3> QED  BY <3>2 DEF Entries, EntriesOf
  <2>3. resyncs \in 0 .. MaxJumps  BY <1>1, SessionAssumption DEF SesOk
  <2> QED  BY <1>1, <2>1, <2>2, <2>3 DEF SesOk, TypeOK
<1> QED  BY <1>1

-----------------------------------------------------------------------------
(* A letter.                                                               *)

\* Words are texts of letters, and a key is a word of one letter.
LEMMA WordsAre == /\ Words = Seq(Lets)
                  /\ \A c \in Keys : c \in Lets /\ <<c>> \in Seq(Lets) /\ Len(<<c>>) = 1
<1>1. Keys \subseteq Lets  BY KeysAre
<1>2. \A c \in Lets : <<c>> \in Seq(Lets) /\ Len(<<c>>) = 1
  <2> HIDE DEF Lets
  <2> QED  OBVIOUS
<1> QED  BY <1>1, <1>2, KeysAre

\* The word of a session with the part that overflowed.
TextOf(s) == s.overflow \o s.word

\* The type and length of the text of a session.
LEMMA TextType ==
  ASSUME NEW s \in Sessions
  PROVE  /\ TextOf(s) \in Words /\ Len(TextOf(s)) = Len(s.overflow) + Len(s.word)
         /\ Len(s.overflow) \in Nat /\ Len(s.word) \in Nat /\ Len(TextOf(s)) \in Nat
<1>1. s.overflow \in Seq(Lets) /\ s.word \in Seq(Lets)  BY SesFields, WordsAre
<1>2. TextOf(s) \in Seq(Lets) /\ Len(TextOf(s)) = Len(s.overflow) + Len(s.word)
  BY <1>1, Cat DEF TextOf
<1>3. Len(s.overflow) \in Nat /\ Len(s.word) \in Nat
  <2> HIDE DEF Lets
  <2> QED  BY <1>1
<1>4. \A a, b \in Nat : a + b \in Nat  OBVIOUS
<1> QED  BY <1>2, <1>3, <1>4, WordsAre, Zenon

\* The end of a spelling, from the p-th letter on.
LEMMA EndOf ==
  ASSUME NEW w \in Words, NEW p \in 1 .. Len(w) + 1
  PROVE  /\ SubSeq(w, p, Len(w)) \in Words /\ Len(SubSeq(w, p, Len(w))) = Len(w) - p + 1
         /\ Len(w) - p + 1 \in 0 .. Len(w)
<1>0. w \in Seq(Lets)  BY WordsAre, Zenon
<1>3. Len(w) \in Nat
  <2> HIDE DEF Lets, Words
  <2> QED  BY <1>0
<1>1. w \in Seq(Lets) /\ p - 1 \in 0 .. Len(w) /\ (p - 1) + 1 = p  BY <1>0, <1>3
<1>2. SubSeq(w, (p - 1) + 1, Len(w)) \in Seq(Lets)
      /\ Len(SubSeq(w, (p - 1) + 1, Len(w))) = Len(w) - (p - 1)
  BY <1>1, Cut
<1>4. SubSeq(w, p, Len(w)) \in Seq(Lets) /\ Len(SubSeq(w, p, Len(w))) = Len(w) - (p - 1)
  BY <1>1, <1>2, Zenon
<1>5. Len(w) - (p - 1) = Len(w) - p + 1 /\ Len(w) - p + 1 \in 0 .. Len(w)
  <2> HIDE DEF Words
  <2> QED  BY <1>3
<1> QED  BY <1>4, <1>5, WordsAre, Zenon

\* A session r that comes from s by erasing d characters and typing ins.
Forms(s, r, d, ins) ==
  r \in Sessions /\ r.word # <<>> /\ d \in 0 .. Len(TextOf(s)) /\ ins \in Words

\* The edit leads from the word of s to the word of r.
Spells(s, r, d, ins) == TextOf(r) = SubSeq(TextOf(s), 1, Len(TextOf(s)) - d) \o ins

\* A letter finds room.
HasRoom(s) == ~(Full(s) /\ Len(s.overflow) >= MaxLongWord)

\* A letter inserted, and the mark moved behind it or not.
LEMMA PlainShape ==
  ASSUME NEW s, NEW c, NEW t, NEW r, NEW from, NEW d, NEW ins, NEW o
  PROVE  /\ s \in Sessions /\ c \in Keys /\ t = Inserted(s, c) /\ r = Repaired(t)
         /\ from = IF r = t THEN Len(t.word) ELSE FirstVowel(t.word)
         /\ d = Len(t.word) - from /\ ins = SubSeq(r.word, from, Len(r.word)) /\ o = TextOf(s)
         => Forms(s, r, d, ins) /\ (HasRoom(s) => Spells(s, r, d, ins))
<1>0. SUFFICES ASSUME s \in Sessions, c \in Keys, t = Inserted(s, c), r = Repaired(t),
                      from = IF r = t THEN Len(t.word) ELSE FirstVowel(t.word),
                      d = Len(t.word) - from, ins = SubSeq(r.word, from, Len(r.word)),
                      o = TextOf(s)
               PROVE  Forms(s, r, d, ins) /\ (HasRoom(s) => Spells(s, r, d, ins))
  OBVIOUS
<1>1. /\ t \in Sessions /\ t.word # <<>>
      /\ Len(t.word) = IF Full(s) THEN MaxBuff ELSE Len(s.word) + 1
      /\ ~(Full(s) /\ Len(s.overflow) >= MaxLongWord) => TextOf(t) = o \o <<c>>
  BY <1>0, SesInserted DEF TextOf
<1>2. /\ r \in Sessions /\ r.overflow = t.overflow /\ Len(r.word) = Len(t.word)
      /\ \A i \in 1 .. FirstVowel(t.word) - 1 : r.word[i] = t.word[i]
  BY <1>0, <1>1, SesRepaired
<1>3. t.word \in Words /\ r.word \in Words /\ t.overflow \in Words
  BY <1>1, <1>2, SesFields
<1>4. FirstVowel(t.word) \in 1 .. Len(t.word) /\ Len(t.word) \in Nat \ {0}
  <2>1. FirstVowel(t.word) \in 1 .. Len(t.word)  BY <1>1, <1>3, VowelsAre
  <2>2. Len(t.word) \in Nat  BY <1>1, TextType
  <2> QED  BY <2>1, <2>2
<1>5. from \in 1 .. Len(t.word)  BY <1>0, <1>4
<1>6. \A i \in 1 .. from - 1 : t.word[i] = r.word[i]  BY <1>0, <1>2
<1>7. Len(s.word) \in Nat /\ Len(s.overflow) \in Nat /\ Len(o) = Len(s.overflow) + Len(s.word)
      /\ o \in Words
  BY <1>0, TextType
<1>8. d <= Len(s.word) /\ d \in Nat
  <2>1. Full(s) => Len(s.word) = MaxBuff  BY DEF Full
  <2> QED  BY <1>0, <1>1, <1>4, <1>5, <1>7, <2>1
<1>9. ins \in Words
  <2>1. from \in 1 .. Len(r.word) + 1  BY <1>2, <1>4, <1>5
  <2> QED  BY <1>0, <1>3, <2>1, EndOf
<1>10. r.word # <<>>
  <2>1. Len(<<>>) = 0 /\ Len(r.word) # 0  BY <1>2, <1>4
  <2> QED  BY <2>1
<1>11. ASSUME ~(Full(s) /\ Len(s.overflow) >= MaxLongWord)
       PROVE  TextOf(r) = SubSeq(o, 1, Len(o) - d) \o ins
  <2> DEFINE k == Len(o) - d
             W == t.word
             R == r.word
             T == t.overflow
  <2>1. T \o W = o \o <<c>>  BY <1>1, <1>11 DEF TextOf
  <2>2. Len(T) + Len(W) = Len(o) + 1
    <3>2. o \in Seq(Lets) /\ <<c>> \in Seq(Lets) /\ Len(<<c>>) = 1  BY <1>0, <1>7, WordsAre
    <3>3. Len(o \o <<c>>) = Len(o) + 1  BY <3>2, Cat
    <3>4. Len(T \o W) = Len(T) + Len(W)  BY <1>1, TextType DEF TextOf
    <3> QED  BY <2>1, <3>3, <3>4, Zenon
  <2>3. Len(T) \in Nat /\ Len(W) \in Nat  BY <1>1, TextType
  <2>3b. Len(o) \in Nat /\ d \in 0 .. Len(o)
    <3> QED  BY <1>7, <1>8, Within, Zenon
  <2>4. k = Len(T) + (from - 1) /\ k \in 0 .. Len(o)
    <3>1. from \in Nat /\ d = Len(W) - from  BY <1>0, <1>4, <1>5
    <3> HIDE DEF W, T
    <3> QED  BY <2>2, <2>3, <2>3b, <3>1
  <2>5. SubSeq(o, 1, k) = SubSeq(T \o W, 1, k)
    <3>2. o \in Seq(Lets) /\ <<c>> \in Seq(Lets)  BY <1>0, <1>7, WordsAre
    <3>3. SubSeq(o \o <<c>>, 1, k) = SubSeq(o, 1, k)
      <4> HIDE DEF k
      <4> QED  BY <2>4, <3>2, PrefixOfFirst
    <3> QED  BY <2>1, <3>3, Zenon
  <2>6. T \in Seq(Lets) /\ W \in Seq(Lets) /\ R \in Seq(Lets) /\ o \in Seq(Lets)
    BY <1>3, <1>7, WordsAre, Zenon
  <2>7. Len(W) = Len(R) /\ from \in 1 .. Len(W) + 1 /\ \A i \in 1 .. from - 1 : W[i] = R[i]
    <3>1. from \in 1 .. Len(W) + 1  BY <1>4, <1>5
    <3> QED  BY <1>2, <1>6, <3>1, Zenon
  <2>8. k = Len(T) + (from - 1)  BY <2>4
  <2> HIDE DEF k, W, R, T
  <2>9. SubSeq(o, 1, k) \o SubSeq(R, from, Len(R)) = T \o R
    <3>1. Alike(W, R, from - 1)  BY <2>7 DEF Alike
    <3>2. Joined(SubSeq(o, 1, k), SubSeq(R, from, Len(R)), T, R)
      BY <2>5, <2>6, <2>7, <2>8, <3>1, Respell, Zenon
    <3> QED  BY <3>2, Zenon DEF Joined
  <2> QED  BY <1>2, <2>9, <1>0, Zenon DEF k, R, T, TextOf
<1>12. d \in 0 .. Len(o)
  <2> QED  BY <1>7, <1>8, Within, Zenon
<1> QED  BY <1>0, <1>2, <1>9, <1>10, <1>11, <1>12, Zenon DEF Forms, Spells, HasRoom

\* A mark set or taken off at the p-th letter.
LEMMA MarkShape ==
  ASSUME NEW s, NEW p, NEW x, NEW w, NEW r, NEW d, NEW ins, NEW o
  PROVE  /\ s \in Sessions /\ p \in 1 .. Len(s.word) /\ x \in Lets
         /\ w = Put(s.word, p, x) /\ r = Spelt(s, w)
         /\ d = Len(w) - p + 1 /\ ins = SubSeq(w, p, Len(w)) /\ o = TextOf(s)
         => Forms(s, r, d, ins) /\ Spells(s, r, d, ins)
<1>0. SUFFICES ASSUME s \in Sessions, p \in 1 .. Len(s.word), x \in Lets,
                      w = Put(s.word, p, x), r = Spelt(s, w),
                      d = Len(w) - p + 1, ins = SubSeq(w, p, Len(w)), o = TextOf(s)
               PROVE  Forms(s, r, d, ins) /\ Spells(s, r, d, ins)
  OBVIOUS
<1>1. /\ r \in Sessions /\ r.word = w /\ r.keys = s.keys /\ r.overflow = s.overflow
      /\ w \in Words /\ Len(w) = Len(s.word) /\ Alike(s.word, w, p - 1)
  <2>1. s \in Sessions /\ p \in 1 .. Len(s.word) /\ x \in Lets  BY <1>0
  <2> DEFINE v == Put(s.word, p, x)
             u == Spelt(s, v)
  <2>2. /\ u \in Sessions /\ u.word = v /\ u.keys = s.keys /\ u.overflow = s.overflow
        /\ v \in Words /\ Len(v) = Len(s.word) /\ Alike(s.word, v, p - 1)
    BY <2>1, SesMarked
  <2>3. w = v /\ r = Spelt(s, w)  BY <1>0
  <2> HIDE DEF v
  <2> QED  BY <2>2, <2>3
<1>3. Len(s.word) \in Nat /\ Len(s.overflow) \in Nat /\ Len(o) = Len(s.overflow) + Len(s.word)
      /\ o \in Words
  BY <1>0, TextType
<1>4. p \in 1 .. Len(w) + 1 /\ p \in 1 .. Len(w)
  <2>1. \A n \in Nat : \A q \in 1 .. n : q \in 1 .. n + 1  OBVIOUS
  <2>2. p \in 1 .. Len(w)  BY <1>0, <1>1, Zenon
  <2>3. Len(w) \in Nat  BY <1>1, <1>3, Zenon
  <2> QED  BY <2>1, <2>2, <2>3, Zenon
<1>5. ins \in Words /\ d \in 0 .. Len(w)  BY <1>0, <1>1, <1>4, EndOf, Zenon
<1>6. d \in Nat /\ d <= Len(s.word)
  <2>1. \A n \in Nat : \A q \in 0 .. n : q \in Nat /\ q <= n  OBVIOUS
  <2>2. Len(w) = Len(s.word)  BY <1>1, Zenon
  <2>3. Len(w) \in Nat  BY <1>3, <2>2, Zenon
  <2>4. d \in Nat /\ d <= Len(w)  BY <1>5, <2>1, <2>3, Zenon
  <2> QED  BY <2>2, <2>4, Zenon
<1>7. d \in 0 .. Len(o)  BY <1>3, <1>6, Within, Zenon
<1>8. w # <<>>
  <2>1. Len(<<>>) = 0 /\ \A q : q \notin 1 .. 0  OBVIOUS
  <2> QED  BY <1>4, <2>1, Zenon
<1>9. TextOf(r) = SubSeq(o, 1, Len(o) - d) \o ins
  <2> DEFINE k == Len(o) - d
             W == s.word
             T == s.overflow
  <2>1. T \in Seq(Lets) /\ W \in Seq(Lets) /\ w \in Seq(Lets) /\ o \in Seq(Lets)
    BY <1>0, <1>1, <1>3, SesFields, WordsAre, Zenon
  <2>2. Len(W) = Len(w) /\ p \in 1 .. Len(W) + 1  BY <1>1, <1>4, Zenon
  <2>3. Alike(W, w, p - 1)  BY <1>1, Zenon
  <2>4. k = Len(T) + (p - 1)
    <3>1. \A a, b \in Nat : \A q \in 1 .. b : (a + b) - (b - q + 1) = a + (q - 1)  OBVIOUS
    <3>2. d = Len(s.word) - p + 1 /\ p \in 1 .. Len(s.word)  BY <1>0, <1>1, Zenon
    <3>3. (Len(T) + Len(W)) - (Len(W) - p + 1) = Len(T) + (p - 1)
      <4>1. Len(T) \in Nat /\ Len(W) \in Nat /\ p \in 1 .. Len(W)  BY <1>3, <3>2, Zenon
      <4> HIDE DEF T, W
      <4> QED  BY <3>1, <4>1, Zenon
    <3>4. Len(o) = Len(T) + Len(W) /\ d = Len(W) - p + 1  BY <1>3, <3>2, Zenon
    <3> QED  BY <3>3, <3>4, Zenon
  <2>5. SubSeq(o, 1, k) = SubSeq(T \o W, 1, k)  BY <1>0, Zenon DEF TextOf
  <2> HIDE DEF k, W, T
  <2>6. Joined(SubSeq(o, 1, k), SubSeq(w, p, Len(w)), T, w)
    BY <2>1, <2>2, <2>3, <2>4, <2>5, Respell, Zenon
  <2> QED  BY <1>0, <1>1, <2>6, Zenon DEF Joined, TextOf, T, k
<1> QED  BY <1>0, <1>1, <1>5, <1>7, <1>8, <1>9, Zenon DEF Forms, Spells

\* The session with the last key taken back.
Unpressed(s) == [s EXCEPT !.keys = Front(@)]

\* The mark taken off and the key typed as a letter.
LEMMA UnmarkShape ==
  ASSUME NEW s, NEW r, NEW c, NEW t, NEW d, NEW ins
  PROVE  /\ s \in Sessions /\ c \in Keys /\ r.keys # <<>> /\ t = Unpressed(Inserted(r, c))
         /\ Forms(s, r, d, ins) /\ Spells(s, r, d, ins)
         => Forms(s, t, d, Append(ins, c)) /\ (HasRoom(r) => Spells(s, t, d, Append(ins, c)))
<1>0. SUFFICES ASSUME s \in Sessions, c \in Keys, r.keys # <<>>, t = Unpressed(Inserted(r, c)),
                      Forms(s, r, d, ins), Spells(s, r, d, ins)
               PROVE  Forms(s, t, d, Append(ins, c))
                      /\ (HasRoom(r) => Spells(s, t, d, Append(ins, c)))
  OBVIOUS
<1> DEFINE o == TextOf(s)
           a == SubSeq(o, 1, Len(o) - d)
<1>r. r \in Sessions /\ ins \in Words /\ d \in 0 .. Len(o)  BY <1>0 DEF Forms
<1>a. a \in Seq(Lets)
  <2>1. o \in Words /\ Len(o) \in Nat  BY <1>0, TextType
  <2>2. o \in Seq(Lets) /\ Len(o) - d \in 0 .. Len(o)
    <3>1. \A n \in Nat : \A e \in 0 .. n : n - e \in 0 .. n  OBVIOUS
    <3> QED  BY <1>r, <2>1, <3>1, WordsAre, Zenon
  <2> HIDE DEF o
  <2>3. \A k \in 0 .. Len(o) : SubSeq(o, 1, k) \in Seq(Lets)  BY <2>2, Cut
  <2> QED  BY <2>2, <2>3, Zenon
<1>s. TextOf(r) = a \o ins  BY <1>0 DEF Spells
<1> HIDE DEF a, o
<1> DEFINE q == Inserted(r, c)
<1>1. /\ q \in Sessions /\ q.word # <<>> /\ q.keys = r.keys
      /\ HasRoom(r) => TextOf(q) = TextOf(r) \o <<c>>
  BY <1>0, <1>r, SesInserted DEF TextOf, HasRoom
<1>2. t = Unpressed(q)  BY <1>0
<1> HIDE DEF q
<1>3. q.keys \in Seq(Keys) /\ Len(q.keys) <= MaxBuff /\ q.keys # <<>>  BY <1>0, <1>1, SesFields
<1>4. Front(q.keys) \in Seq(Keys) /\ Len(Front(q.keys)) <= MaxBuff
  <2>1. Front(q.keys) \in Seq(Keys) /\ Len(Front(q.keys)) = Len(q.keys) - 1
        /\ Len(q.keys) \in Nat \ {0}
    BY <1>3, FrontLast
  <2> QED  BY <1>3, <2>1, Bounds
<1>5. t \in Sessions /\ t.word = q.word /\ t.overflow = q.overflow
  <2>1. q \in Records  BY <1>1 DEF Sessions
  <2>2. t.word = q.word /\ t.overflow = q.overflow /\ t.composed = q.composed
        /\ t.keys = Front(q.keys) /\ t \in Records
    BY <1>2, <1>4, <2>1 DEF Records, Unpressed
  <2> QED  BY <1>1, <1>4, <2>2 DEF Sessions
<1>6. Append(ins, c) = ins \o <<c>> /\ Append(ins, c) \in Seq(Lets) /\ ins \in Seq(Lets)
  <2>1. ins \in Seq(Lets) /\ c \in Lets  BY <1>0, <1>r, WordsAre, Zenon
  <2> HIDE DEF Lets
  <2> QED  BY <2>1
<1>7. ASSUME HasRoom(r)
      PROVE  TextOf(t) = a \o Append(ins, c)
  <2>1. a \in Seq(Lets) /\ ins \in Seq(Lets) /\ <<c>> \in Seq(Lets)
    BY <1>0, <1>a, <1>r, WordsAre, Zenon
  <2>2. (a \o ins) \o <<c>> = a \o (ins \o <<c>>)
    <3>1. Regroups(a, ins, <<c>>)  BY <2>1, Assoc, Zenon
    <3> QED  BY <3>1 DEF Regroups
  <2>3. TextOf(t) = TextOf(q)  BY <1>5 DEF TextOf
  <2> QED  BY <1>s, <1>1, <1>6, <1>7, <2>2, <2>3, Zenon
<1>8. Append(ins, c) \in Words  BY <1>6, WordsAre, Zenon
<1>9. t.word # <<>>  BY <1>1, <1>5
<1> QED  BY <1>r, <1>5, <1>7, <1>8, <1>9, Zenon DEF Forms, Spells, a, o

\* A step that leaves the engine on its way had no cause to lead it astray.
LEMMA StrayMeans ==
  ASSUME NEW cause, Stray(cause)
  PROVE  astray' \in BOOLEAN /\ (~astray' => EngineIsEmpty' \/ (~astray /\ ~cause))
BY DEF Stray

\* An engine that believes in nothing is right.
LEMMA EmptyIsGood == SesOk' /\ EngineIsEmpty' => Behind' /\ Bookkeeping'
<1>1. ASSUME SesOk', EngineIsEmpty' PROVE Behind' /\ Bookkeeping'
  <2>1. ses'.word = <<>> /\ ses'.overflow = <<>> /\ ses'.keys = <<>> /\ special' = <<>>
        /\ spaces' = 0 /\ history' = <<>>
    BY <1>1 DEF EngineIsEmpty
  <2>2. Own' = <<>> \o <<>>
    <3>1. ~(spaces' > 0)  BY <2>1
    <3> QED  BY <2>1, <3>1, Zenon DEF Own, OwnOf
  <2>3. Believed' = <<>> \o (<<>> \o <<>>)  BY <2>1, <2>2, BelievedIs, FlatEmpty, Zenon
  <2>4. <<>> \o (<<>> \o <<>>) = <<>> /\ <<>> \in Seq(Chars) /\ Len(<<>>) = 0  OBVIOUS
  <2>5. due' \in Seq(Chars) /\ account' \in Nat  BY <1>1 DEF SesOk
  <2>6. due' = due' \o <<>>  BY <2>5
  <2>7. IsSuffix(<<>>, due' \o <<>>)  BY <2>4, <2>5, SuffixBehind, Zenon
  <2>8. Behind'
    <3>1. account' >= 0  BY <2>5
    <3> QED  BY <2>3, <2>4, <2>6, <2>7, <3>1, Zenon DEF Behind
  <2> QED  BY <2>1, <2>8 DEF Bookkeeping
<1> QED  BY <1>1

\* The session a letter is typed into.
Base == IF spaces > 0 THEN NewSession ELSE ses

\* The session a letter is typed into is new behind blanks, else the present one.
LEMMA BaseIs ==
  SesOk => /\ Base \in Sessions /\ \A c \in Keys : Struck(c) = Pressed(Base, c)
           /\ spaces > 0 => TextOf(Base) = <<>> /\ ~Full(Base)
           /\ spaces = 0 => Base = ses
<1>1. ASSUME SesOk PROVE Base \in Sessions
  BY <1>1, SesNew DEF SesOk, Base
<1>2. \A c : Struck(c) = Pressed(Base, c)  BY DEF Struck, Base
<1>3. ASSUME spaces > 0 PROVE TextOf(Base) = <<>> /\ ~Full(Base)
  <2>1. Base = NewSession  BY <1>3 DEF Base
  <2>2. NewSession.word = <<>> /\ NewSession.overflow = <<>>  BY DEF NewSession
  <2>3. <<>> \o <<>> = <<>> /\ Len(<<>>) = 0  OBVIOUS
  <2>4. MaxBuff # 0  BY Bounds
  <2> QED  BY <2>1, <2>2, <2>3, <2>4 DEF TextOf, Full
<1>4. spaces = 0 => Base = ses  BY DEF Base
<1> QED  BY <1>1, <1>2, <1>3, <1>4

\* The key pressed leaves word and overflow as they are.
LEMMA StruckIs ==
  ASSUME NEW c \in Keys
  PROVE  SesOk => /\ Struck(c) \in Sessions /\ Struck(c).word = Base.word
                  /\ Struck(c).overflow = Base.overflow
                  /\ TextOf(Struck(c)) = TextOf(Base) /\ (Full(Struck(c)) <=> Full(Base))
<1>1. ASSUME SesOk
      PROVE  /\ Struck(c) \in Sessions /\ Struck(c).word = Base.word
             /\ Struck(c).overflow = Base.overflow
             /\ TextOf(Struck(c)) = TextOf(Base) /\ (Full(Struck(c)) <=> Full(Base))
  <2>1. Base \in Sessions /\ Struck(c) = Pressed(Base, c)  BY <1>1, BaseIs
  <2>2. Struck(c) \in Sessions /\ Struck(c).word = Base.word
        /\ Struck(c).overflow = Base.overflow
    BY <2>1, SesPressed
  <2> QED  BY <2>2 DEF TextOf, Full
<1> QED  BY <1>1

\* Whatever a letter does, it erases some of the word and types its new end.
LEMMA LetterIsShaped ==
  ASSUME NEW c \in Keys
  PROVE  SesOk /\ (Plain(c) \/ Mark(c) \/ Unmark(c))
         => \E d, ins : /\ Retype(d, ins) /\ Forms(Base, ses', d, ins)
                        /\ HasRoom(Base) => Spells(Base, ses', d, ins)
<1>0. SUFFICES ASSUME SesOk, Plain(c) \/ Mark(c) \/ Unmark(c)
               PROVE  \E d, ins : /\ Retype(d, ins) /\ Forms(Base, ses', d, ins)
                                  /\ HasRoom(Base) => Spells(Base, ses', d, ins)
  OBVIOUS
<1> DEFINE s == Struck(c)
<1>1. /\ s \in Sessions /\ TextOf(s) = TextOf(Base) /\ (Full(s) <=> Full(Base))
      /\ s.overflow = Base.overflow /\ s.word = Base.word
  BY <1>0, StruckIs
<1>b. \A d, ins, t : (Forms(s, t, d, ins) <=> Forms(Base, t, d, ins))
                     /\ (Spells(s, t, d, ins) <=> Spells(Base, t, d, ins))
  <2>1. TextOf(s) = TextOf(Base)  BY <1>1
  <2> QED  BY <2>1, Zenon DEF Forms, Spells
<1>h. HasRoom(s) <=> HasRoom(Base)  BY <1>1 DEF HasRoom
<1>2. CASE Plain(c)
  <2> DEFINE t == Inserted(s, c)
             r == Repaired(t)
             from == IF r = t THEN Len(t.word) ELSE FirstVowel(t.word)
             d == Len(t.word) - from
             ins == SubSeq(r.word, from, Len(r.word))
  <2>1. ses' = r /\ Retype(d, ins)  BY <1>2, Zenon DEF Plain
  <2>2. Forms(s, r, d, ins) /\ (HasRoom(s) => Spells(s, r, d, ins))
    <3> HIDE DEF s
    <3> QED  BY <1>1, PlainShape, Zenon
  <2> HIDE DEF s, r, d, ins
  <2> QED  BY <1>b, <1>h, <2>1, <2>2
<1>p. ASSUME Marks(c) PROVE LastVowel(s.word) \in 1 .. Len(s.word)
  <2>1. s.word \in Words /\ Takes(s.word)  BY <1>1, <1>p, SesFields DEF Marks
  <2> QED  BY <2>1, TakesAre
<1>3. CASE Mark(c)
  <2> DEFINE p == LastVowel(s.word)
             w == Put(s.word, p, Acute)
             r == Spelt(s, w)
             d == Len(w) - p + 1
             ins == SubSeq(w, p, Len(w))
  <2>1. ses' = r /\ Retype(d, ins) /\ Marks(c)  BY <1>3, Zenon DEF Mark, Put, Spelt
  <2>2. p \in 1 .. Len(s.word) /\ Acute \in Lets  BY <1>p, <2>1, KeysAre
  <2>3. Forms(s, r, d, ins) /\ Spells(s, r, d, ins)
    <3> HIDE DEF s, p
    <3> QED  BY <1>1, <2>2, MarkShape, Zenon
  <2> HIDE DEF s, r, d, ins
  <2> QED  BY <1>b, <1>h, <2>1, <2>3
<1>4. CASE Unmark(c)
  <2> DEFINE p == LastVowel(s.word)
             w == Put(s.word, p, "i")
             r == Spelt(s, w)
             t == Unpressed(Inserted(r, c))
             d == Len(w) - p + 1
             ins == SubSeq(w, p, Len(w))
             more == Append(ins, c)
  <2>1. ses' = t /\ Retype(d, more) /\ Marks(c)
    BY <1>4, Zenon DEF Unmark, Put, Spelt, Unpressed
  <2>2. p \in 1 .. Len(s.word) /\ "i" \in Lets  BY <1>p, <2>1 DEF Lets
  <2>3. Forms(s, r, d, ins) /\ Spells(s, r, d, ins)
    <3> HIDE DEF s, p
    <3> QED  BY <1>1, <2>2, MarkShape, Zenon
  <2>4. r.keys # <<>> /\ r.overflow = s.overflow /\ Len(r.word) = Len(s.word)
    <3>1. s.keys # <<>>
      <4>1. Base \in Sessions /\ s = Pressed(Base, c)  BY <1>0, BaseIs
      <4> HIDE DEF s
      <4> QED  BY <4>1, SesPressed
    <3>2. "i" \in Lets /\ s \in Sessions  BY <1>1, <2>2
    <3> HIDE DEF s, p
    <3>3. r.keys = s.keys /\ r.overflow = s.overflow /\ r.word = w /\ Len(w) = Len(s.word)
      BY <2>2, <3>2, SesMarked, ZenonT(40)
    <3> QED  BY <3>1, <3>3, Zenon
  <2> HIDE DEF s, w, r, d, ins
  <2>6. Forms(s, t, d, more) /\ (HasRoom(r) => Spells(s, t, d, more))
    BY <1>1, <2>3, <2>4, UnmarkShape, Zenon
  <2>7. HasRoom(r) <=> HasRoom(s)  BY <2>4, Zenon DEF Full, HasRoom
  <2> HIDE DEF t, more
  <2> QED  BY <1>b, <1>h, <2>1, <2>6, <2>7
<1> QED  BY <1>0, <1>2, <1>3, <1>4

\* What stands between the saved words and the next: blanks or punctuation.
Gap == IF spaces > 0 THEN Blanks(spaces) ELSE special

\* Blanks or punctuation go to the end of the history.
LEMMA GapPushed ==
  SesOk => /\ PushAll(history, Gap) \in Seq(Entries) /\ Len(PushAll(history, Gap)) <= MaxHistory
           /\ Gap = <<>> => PushAll(history, Gap) = history
           /\ Gap # <<>> => PushAll(history, Gap) # <<>>
           /\ IsSuffix(FlattenSeq(PushAll(history, Gap)), FlattenSeq(history) \o Gap)
           /\ Gap \in Seq(Chars)
<1>0. SUFFICES ASSUME SesOk
      PROVE  /\ PushAll(history, Gap) \in Seq(Entries)
             /\ Len(PushAll(history, Gap)) <= MaxHistory
             /\ Gap = <<>> => PushAll(history, Gap) = history
             /\ Gap # <<>> => PushAll(history, Gap) # <<>>
             /\ IsSuffix(FlattenSeq(PushAll(history, Gap)), FlattenSeq(history) \o Gap)
             /\ Gap \in Seq(Chars)
  OBVIOUS
<1>1. history \in Seq(Entries) /\ Len(history) <= MaxHistory /\ special \in Seq({"."})
      /\ spaces \in Nat
  BY <1>0 DEF SesOk
<1>2. \E T \in Kinds : Gap \in Seq(T)
  <2>1. Blanks(spaces) \in Seq({" "})
    <3> DEFINE B == {" "}
    <3>1. " " \in B  OBVIOUS
    <3> HIDE DEF B
    <3>2. Blanks(spaces) \in Seq(B)  BY <1>1, <3>1, BlanksType
    <3> QED  BY <3>2 DEF B
  <2>2. {" "} \in Kinds /\ {"."} \in Kinds  BY DEF Kinds
  <2> QED  BY <1>1, <2>1, <2>2, Zenon DEF Gap
<1>3. PICK T \in Kinds : Gap \in Seq(T)  BY <1>2
<1>4. T \in Kinds /\ Gap \in Seq(T)  BY <1>3
<1>5. Gap \in Seq(Chars)
  <2>1. T \subseteq Chars  BY <1>4, EntriesAreTexts
  <2> QED  BY <1>4, <2>1, SeqMonotonic
<1> HIDE DEF Gap
<1> QED  BY <1>1, <1>4, <1>5, Pushed

\* The document the application shows is a text.
LEMMA DocType ==
  ASSUME doc \in Seq(Chars), due' \in Seq(Chars), OnItsWay
  PROVE  doc' \in Seq(Chars)
BY DEF OnItsWay

\* A letter keeps the invariant.
LEMMA LetterKeeps ==
  ASSUME NEW c \in Keys
  PROVE  SessionInv /\ Letter(c) => SessionInv'
<1>0. SUFFICES ASSUME SessionInv, Letter(c)
               PROVE  SessionInv'
  OBVIOUS
<1> DEFINE o == TextOf(Base)
<1>1. SesOk /\ (~astray => Behind /\ Bookkeeping)  BY <1>0 DEF SessionInv
<1>2. PICK d, ins : /\ Retype(d, ins) /\ Forms(Base, ses', d, ins)
                    /\ HasRoom(Base) => Spells(Base, ses', d, ins)
  <2>1. Plain(c) \/ Mark(c) \/ Unmark(c)  BY <1>0 DEF Letter
  <2> QED  BY <1>1, <2>1, LetterIsShaped
<1>3. /\ history' = PushAll(history, Gap) /\ special' = <<>> /\ spaces' = 0
      /\ Stray(spaces = 0 /\ Full(ses) /\ Len(ses.overflow) >= MaxLongWord)
      /\ resyncs' = resyncs /\ jumps' = jumps /\ OnItsWay
  BY <1>0 DEF Letter, Gap
<1>4. ses' \in Sessions /\ ses'.word # <<>> /\ d \in 0 .. Len(o) /\ ins \in Words
      /\ Base \in Sessions
  BY <1>1, <1>2, BaseIs DEF Forms
<1>5. o \in Words /\ Len(o) \in Nat /\ d \in Nat /\ ins \in Seq(Chars) /\ o \in Seq(Chars)
  <2>1. o \in Words /\ Len(o) \in Nat  BY <1>4, TextType
  <2>2. ins \in Seq(Chars) /\ o \in Seq(Chars)  BY <1>4, <2>1, KeyWords
  <2> HIDE DEF o
  <2> QED  BY <1>4, <2>1, <2>2
<1> HIDE DEF o
<1>6. SesOk'
  <2>1. due \in Seq(Chars) /\ account \in Nat /\ doc \in Seq(Chars)  BY <1>1 DEF SesOk
  <2>2. due' \in Seq(Chars) /\ account' \in Nat  BY <1>2, <1>5, <2>1, RetypeType
  <2>3. doc' \in Seq(Chars)  BY <1>3, <2>1, <2>2, DocType
  <2>4. history' \in Seq(Entries) /\ Len(history') <= MaxHistory  BY <1>1, <1>3, GapPushed
  <2>5. astray' \in BOOLEAN  BY <1>3, StrayMeans
  <2>6. special' \in Seq({"."}) /\ spaces' \in Nat /\ (special' # <<>> => spaces' = 0)
    BY <1>3
  <2>7. resyncs' \in Nat /\ jumps' \in 0 .. MaxJumps /\ resyncs' <= jumps'
    BY <1>1, <1>3 DEF SesOk
  <2> QED  BY <1>4, <2>2, <2>3, <2>4, <2>5, <2>6, <2>7 DEF SesOk
<1>7. ASSUME ~astray, ~(spaces = 0 /\ Full(ses) /\ Len(ses.overflow) >= MaxLongWord)
      PROVE  Behind'
  <2>1. Behind /\ Bookkeeping  BY <1>1, <1>7
  <2>2. HasRoom(Base)
    <3>1. spaces \in Nat /\ (spaces > 0 => ~Full(Base)) /\ (spaces = 0 => Base = ses)
      BY <1>1, BaseIs DEF SesOk
    <3>2. spaces > 0 \/ spaces = 0  BY <3>1
    <3> QED  BY <1>7, <3>1, <3>2 DEF HasRoom
  <2>3. TextOf(ses') = SubSeq(o, 1, Len(o) - d) \o ins  BY <1>2, <2>2 DEF Spells, o
  <2>4. Own' = TextOf(ses')
    <3>1. ~(spaces' > 0)  BY <1>3
    <3> QED  BY <1>3, <3>1, Zenon DEF Own, OwnOf, TextOf
  <2>5. Believed' = FlattenSeq(PushAll(history, Gap)) \o (SubSeq(o, 1, Len(o) - d) \o ins)
    BY <1>3, <2>3, <2>4, BelievedIs, Zenon
  <2>6. Believed' \in Seq(Chars) /\ FlattenSeq(history) \in Seq(Chars) /\ Own \in Seq(Chars)
    BY <1>1, <1>6, BelievedType
  <2>7. CASE Gap = <<>>
    <3>1. Own = o
      <4>1. spaces \in Nat  BY <1>1 DEF SesOk
      <4>2. ~(spaces > 0)
        <5>1. spaces > 0 => Blanks(spaces) # <<>>  BY <4>1, BlanksAre
        <5> QED  BY <2>7, <5>1 DEF Gap
      <4>3. spaces = 0 /\ special = <<>>  BY <2>7, <4>1, <4>2 DEF Gap
      <4>4. Base = ses  BY <1>1, <4>3, BaseIs
      <4> QED  BY <4>2, <4>3, <4>4 DEF Own, OwnOf, o, TextOf
    <3>2. FlattenSeq(PushAll(history, Gap)) = FlattenSeq(history)  BY <1>1, <2>7, GapPushed
    <3>3. IsSuffix(Believed',
                   FlattenSeq(history) \o (SubSeq(Own, 1, Len(Own) - d) \o ins))
      <4>1. IsSuffix(Believed', Believed')  BY <2>6, SuffixSelf
      <4> QED  BY <2>5, <3>1, <3>2, <4>1, Zenon
    <3>4. d \in 0 .. Len(Own)  BY <1>4, <3>1
    <3> QED  BY <1>1, <1>2, <1>5, <1>6, <2>1, <3>3, <3>4, Moved, Zenon
  <2>8. CASE Gap # <<>>
    <3>1. Own = Gap /\ o = <<>>
      <4>1. Own = Gap  BY <2>8 DEF Own, OwnOf, Gap
      <4>2. CASE spaces > 0
        BY <1>1, <4>1, <4>2, BaseIs DEF o
      <4>3. CASE ~(spaces > 0)
        <5>1. special # <<>>  BY <2>8, <4>3 DEF Gap
        <5>2. ses.word = <<>> /\ ses.overflow = <<>>  BY <2>1, <5>1 DEF Bookkeeping
        <5>3. Base = ses
          <6>1. spaces = 0  BY <1>1, <4>3 DEF SesOk
          <6> QED  BY <1>1, <6>1, BaseIs
        <5>4. <<>> \o <<>> = <<>>  OBVIOUS
        <5> QED  BY <4>1, <5>2, <5>3, <5>4, Zenon DEF o, TextOf
      <4> QED  BY <4>1, <4>2, <4>3
    <3>2. d = 0 /\ Len(o) = 0
      <4>1. Len(o) = 0  BY <3>1
      <4> QED  BY <1>4, <4>1
    <3>3. SubSeq(o, 1, Len(o) - d) \o ins = ins
      <4>1. SubSeq(<<>>, 1, 0) = <<>> /\ 0 - 0 = 0  OBVIOUS
      <4>2. <<>> \o ins = ins  BY <1>5
      <4> QED  BY <3>1, <3>2, <4>1, <4>2, Zenon
    <3> DEFINE g == FlattenSeq(PushAll(history, Gap))
               f == FlattenSeq(history)
               fg == f \o Gap
    <3>4. IsSuffix(g, fg) /\ Gap \in Seq(Chars)  BY <1>1, GapPushed
    <3>5. g \in Seq(Chars) /\ f \in Seq(Chars)
      <4>1. FlattenSeq(history') \in Seq(Chars)  BY <1>6, BelievedType
      <4> QED  BY <1>3, <2>6, <4>1, Zenon
    <3> HIDE DEF g, f
    <3>6. fg \in Seq(Chars)  BY <3>4, <3>5, Cat
    <3> HIDE DEF fg
    <3>7. IsSuffix(g \o ins, fg \o ins)  BY <1>5, <3>4, <3>5, <3>6, SuffixMore
    <3>8. fg \o ins = f \o (Gap \o ins)
      <4>1. (f \o Gap) \o ins = f \o (Gap \o ins)
        <5>1. Regroups(f, Gap, ins)  BY <1>5, <3>4, <3>5, Assoc, Zenon
        <5> QED  BY <5>1 DEF Regroups
      <4> QED  BY <4>1 DEF fg
    <3>9. SubSeq(Own, 1, Len(Own) - d) = Gap
      <4>1. SubSeq(Gap, 1, Len(Gap)) = Gap /\ Len(Gap) - 0 = Len(Gap)  BY <3>4
      <4> QED  BY <3>1, <3>2, <4>1, Zenon
    <3>10. IsSuffix(Believed',
                    FlattenSeq(history) \o (SubSeq(Own, 1, Len(Own) - d) \o ins))
      BY <2>5, <3>3, <3>7, <3>8, <3>9, Zenon DEF g, f
    <3>11. d \in 0 .. Len(Own)
      <4>1. Len(Own) \in Nat  BY <2>6
      <4> QED  BY <3>2, <4>1
    <3> QED  BY <1>1, <1>2, <1>5, <1>6, <2>1, <3>10, <3>11, Moved, Zenon
  <2> QED  BY <2>7, <2>8
<1>8. Bookkeeping'
  <2>1. ~(spaces' > 0) /\ special' = <<>> /\ ses'.word # <<>>  BY <1>3, <1>4
  <2> QED  BY <2>1, Zenon DEF Bookkeeping
<1>9. ASSUME ~astray' PROVE Behind'
  BY <1>3, <1>6, <1>7, <1>9, StrayMeans, EmptyIsGood
<1> QED  BY <1>6, <1>8, <1>9 DEF SessionInv

-----------------------------------------------------------------------------
(* The end of a word.                                                      *)

\* What a judged session leaves, the text erased and the keys typed for it.
Ending(s) == IF Restores(s) THEN Raw(s) ELSE s

\* The letters a restore takes back ...
Undone(s) == IF Restores(s) THEN Len(s.word) ELSE 0

\* ... and the keys it writes in their place.
Redone(s) == IF Restores(s) THEN s.keys ELSE <<>>

\* The end of a word: what is erased, what is typed and what is left.
LEMMA EndShape ==
  ASSUME NEW s
  PROVE  s \in Sessions /\ Judged(s) = s
         => /\ Ending(s) \in Sessions /\ Undone(s) \in 0 .. Len(TextOf(s))
            /\ Redone(s) \in Seq(Keys) /\ Spells(s, Ending(s), Undone(s), Redone(s))
            /\ Ending(s).keys = s.keys /\ Ending(s).overflow = s.overflow
            /\ ~Restores(Judged(Ending(s)))
            /\ Ending(s).word = <<>> /\ s.word # <<>> => s.keys = <<>> /\ Restores(s)
            /\ s.word = <<>> => ~Restores(s)
<1>0. SUFFICES ASSUME s \in Sessions, Judged(s) = s
               PROVE  /\ Ending(s) \in Sessions /\ Undone(s) \in 0 .. Len(TextOf(s))
                      /\ Redone(s) \in Seq(Keys)
                      /\ Spells(s, Ending(s), Undone(s), Redone(s))
                      /\ Ending(s).keys = s.keys /\ Ending(s).overflow = s.overflow
                      /\ ~Restores(Judged(Ending(s)))
                      /\ Ending(s).word = <<>> /\ s.word # <<>> => s.keys = <<>> /\ Restores(s)
                      /\ s.word = <<>> => ~Restores(s)
  OBVIOUS
<1>1. /\ s.word \in Seq(Lets) /\ s.overflow \in Seq(Lets) /\ s.keys \in Seq(Keys)
  BY <1>0, SesFields, WordsAre
<1>2. /\ Len(TextOf(s)) = Len(s.overflow) + Len(s.word) /\ TextOf(s) \in Seq(Lets)
      /\ Len(s.overflow) \in Nat /\ Len(s.word) \in Nat /\ Len(TextOf(s)) \in Nat
  <2>1. TextOf(s) \in Words  BY <1>0, TextType
  <2>2. TextOf(s) \in Seq(Lets)  BY <2>1, WordsAre, Zenon
  <2> QED  BY <1>0, <2>2, TextType
<1>3. s.word = <<>> => ~Restores(s)
  <2>1. DOMAIN <<>> = {}  OBVIOUS
  <2> QED  BY <2>1 DEF Restores, HasMark
<1>4. CASE Restores(s)
  <2>1. Ending(s) = Raw(s) /\ Undone(s) = Len(s.word) /\ Redone(s) = s.keys
    BY <1>4 DEF Ending, Undone, Redone
  <2>2. /\ Raw(s) \in Sessions /\ Raw(s).word = s.keys /\ Raw(s).overflow = s.overflow
        /\ Raw(s).keys = s.keys /\ ~HasMark(Raw(s).word)
    BY <1>0, SesRaw
  <2>3. Undone(s) \in 0 .. Len(TextOf(s))
    <3>1. Len(s.word) <= Len(s.word)  BY <1>2
    <3>2. Len(s.word) \in 0 .. Len(TextOf(s))  BY <1>2, <3>1, Within, Zenon
    <3> QED  BY <2>1, <3>2, Zenon
  <2>4. TextOf(Raw(s)) = SubSeq(TextOf(s), 1, Len(TextOf(s)) - Len(s.word)) \o s.keys
    <3>1. Len(TextOf(s)) - Len(s.word) = Len(s.overflow)
      <4>1. \A a, b \in Nat : (a + b) - b = a  OBVIOUS
      <4> QED  BY <1>2, <4>1, Zenon
    <3>2. SubSeq(s.overflow \o s.word, 1, Len(s.overflow)) = s.overflow  BY <1>1, FirstOfTwo
    <3> QED  BY <2>2, <3>1, <3>2, Zenon DEF TextOf
  <2>5. ~Restores(Judged(Raw(s)))
    <3>1. Judged(Raw(s)).word = Raw(s).word  BY <2>2, SesJudged
    <3> QED  BY <2>2, <3>1 DEF Restores
  <2> QED  BY <1>1, <1>3, <1>4, <2>1, <2>2, <2>3, <2>4, <2>5, Zenon DEF Spells
<1>5. CASE ~Restores(s)
  <2>1. Ending(s) = s /\ Undone(s) = 0 /\ Redone(s) = <<>>
    BY <1>5 DEF Ending, Undone, Redone
  <2>2. 0 \in 0 .. Len(TextOf(s))
    <3>1. \A n \in Nat : 0 \in 0 .. n  OBVIOUS
    <3> QED  BY <1>2, <3>1, Zenon
  <2>3. TextOf(s) = SubSeq(TextOf(s), 1, Len(TextOf(s)) - 0) \o <<>>
    <3> HIDE DEF Lets
    <3>1. SubSeq(TextOf(s), 1, Len(TextOf(s))) = TextOf(s) /\ TextOf(s) \o <<>> = TextOf(s)
          /\ Len(TextOf(s)) - 0 = Len(TextOf(s))
      BY <1>2
    <3> QED  BY <3>1, Zenon
  <2>4. <<>> \in Seq(Keys)  OBVIOUS
  <2> QED  BY <1>0, <1>1, <1>3, <1>5, <2>1, <2>2, <2>3, <2>4, Zenon DEF Spells
<1> QED  BY <1>4, <1>5

\* The session saved, and the ring it is saved in.
LEMMA Saving ==
  ASSUME NEW h, NEW s
  PROVE  h \in Seq(Entries) /\ Len(h) <= MaxHistory /\ s \in Sessions
         => /\ Saved(s) \in Sessions /\ WithWord(h, s) \in Seq(Entries)
            /\ Len(WithWord(h, s)) <= MaxHistory
            /\ Saved(s).word = s.word /\ Saved(s).keys = s.keys
            /\ (Restores(Judged(Saved(s))) <=> Restores(Judged(s)))
            /\ (s.word = <<>> => s.overflow = <<>>) => Saved(s).overflow = <<>>
<1>0. SUFFICES ASSUME h \in Seq(Entries), Len(h) <= MaxHistory, s \in Sessions
               PROVE  /\ Saved(s) \in Sessions /\ WithWord(h, s) \in Seq(Entries)
                      /\ Len(WithWord(h, s)) <= MaxHistory
                      /\ Saved(s).word = s.word /\ Saved(s).keys = s.keys
                      /\ (Restores(Judged(Saved(s))) <=> Restores(Judged(s)))
                      /\ (s.word = <<>> => s.overflow = <<>>) => Saved(s).overflow = <<>>
  OBVIOUS
<1>1. CASE s.word = <<>>
  <2>1. Saved(s) = s /\ WithWord(h, s) = h  BY <1>1 DEF Saved, WithWord
  <2> QED  BY <1>0, <1>1, <2>1
<1>2. CASE s.word # <<>>
  <2>1. /\ Saved(s) \in Sessions /\ Saved(s).word = s.word /\ Saved(s).overflow = <<>>
        /\ Saved(s).keys = s.keys /\ Saved(s).disabled = s.disabled
    BY <1>0, <1>2, SesSaved
  <2>2. WithWord(h, s) \in Seq(Entries) /\ Len(WithWord(h, s)) <= MaxHistory
    BY <1>0, <1>2, WordSaved
  <2>3. Restores(Judged(Saved(s))) <=> Restores(Judged(s))
    <3>1. s \in Records /\ Saved(s) \in Records  BY <1>0, <2>1 DEF Sessions
    <3>2. /\ Judged(Saved(s)).word = Saved(s).word /\ Judged(s).word = s.word
          /\ Judged(Saved(s)).disabled = (Saved(s).disabled \/ ~Valid(Saved(s).word, TRUE))
          /\ Judged(s).disabled = (s.disabled \/ ~Valid(s.word, TRUE))
      BY <3>1 DEF Judged, Records
    <3> QED  BY <2>1, <3>2, Zenon DEF Restores
  <2> QED  BY <2>1, <2>2, <2>3
<1> QED  BY <1>1, <1>2

\* One more text typed behind the new end of the word.
LEMMA ThenTyped ==
  ASSUME NEW g, NEW f, NEW a, NEW x, NEW e
  PROVE  /\ g \in Seq(Chars) /\ f \in Seq(Chars) /\ a \in Seq(Chars) /\ x \in Seq(Chars)
         /\ e \in Seq(Chars) /\ IsSuffix(g, f \o (a \o x))
         => IsSuffix(g \o e, f \o (a \o (x \o e)))
<1>0. SUFFICES ASSUME g \in Seq(Chars), f \in Seq(Chars), a \in Seq(Chars), x \in Seq(Chars),
                      e \in Seq(Chars), IsSuffix(g, f \o (a \o x))
               PROVE  IsSuffix(g \o e, f \o (a \o (x \o e)))
  OBVIOUS
<1> DEFINE ax == a \o x
           fax == f \o ax
<1>1. f \in Seq(Chars) /\ a \in Seq(Chars) /\ x \in Seq(Chars) /\ e \in Seq(Chars)
      /\ g \in Seq(Chars)
  BY <1>0
<1>2. (a \o x) \o e = a \o (x \o e)
  <2>1. a \in Seq(Chars) /\ x \in Seq(Chars) /\ e \in Seq(Chars)  BY <1>1
  <2>9. Regroups(a, x, e)  BY <2>1, Assoc, Zenon
  <2> QED  BY <2>9 DEF Regroups
<1>3. ax \in Seq(Chars)  BY <1>1, Cat
<1> HIDE DEF ax
<1>4. (f \o ax) \o e = f \o (ax \o e)
  <2>1. f \in Seq(Chars) /\ ax \in Seq(Chars) /\ e \in Seq(Chars)  BY <1>1, <1>3
  <2>9. Regroups(f, ax, e)  BY <2>1, Assoc, Zenon
  <2> QED  BY <2>9 DEF Regroups
<1>5. fax \in Seq(Chars)  BY <1>1, <1>3, Cat
<1>6. IsSuffix(g, fax)  BY <1>0 DEF ax
<1> HIDE DEF fax
<1>7. IsSuffix(g \o e, fax \o e)  BY <1>1, <1>5, <1>6, SuffixMore
<1> QED  BY <1>2, <1>4, <1>7, Zenon DEF ax, fax

\* The text of the end of a word is the restored keys and the character.
LEMMA EndText ==
  ASSUME NEW s \in Sessions, NEW c \in Chars
  PROVE  /\ (IF Restores(s) THEN Append(s.keys, c) ELSE <<c>>) = Redone(s) \o <<c>>
         /\ Redone(s) \in Seq(Chars) /\ <<c>> \in Seq(Chars) /\ Redone(s) \o <<c>> \in Seq(Chars)
         /\ ~Restores(s) => Redone(s) \o <<c>> = <<c>> /\ Undone(s) = 0
<1>1. s.keys \in Seq(Chars)  BY SesFields, KeyWords
<1>2. Append(s.keys, c) = s.keys \o <<c>> /\ <<>> \o <<c>> = <<c>>
      /\ s.keys \o <<c>> \in Seq(Chars) /\ <<c>> \in Seq(Chars) /\ <<>> \in Seq(Chars)
  <2> HIDE DEF Chars
  <2> QED  BY <1>1
<1>3. CASE Restores(s)  BY <1>1, <1>2, <1>3, Zenon DEF Redone, Undone
<1>4. CASE ~Restores(s)  BY <1>1, <1>2, <1>4, Zenon DEF Redone, Undone
<1> QED  BY <1>3, <1>4

\* The judged session has the text of the present one.
LEMMA JudgedIs ==
  SesOk => /\ Judged(ses) \in Sessions /\ Judged(Judged(ses)) = Judged(ses)
           /\ Judged(ses).word = ses.word /\ Judged(ses).overflow = ses.overflow
           /\ Judged(ses).keys = ses.keys /\ TextOf(Judged(ses)) = TextOf(ses)
<1>1. ASSUME SesOk PROVE ses \in Sessions  BY <1>1 DEF SesOk
<1> QED  BY <1>1, SesJudged DEF TextOf

\* A word goes to the history and one character is typed.
LEMMA WordEnds ==
  ASSUME NEW c \in Chars
  PROVE  LET s == Judged(ses)
         IN  /\ SesOk /\ SesOk' /\ Behind /\ Bookkeeping /\ spaces = 0 /\ special = <<>>
             /\ Retype(Undone(s), Redone(s) \o <<c>>) /\ history' = WithWord(history, Ending(s))
             /\ (Ending(s).word = <<>> => s.overflow = <<>>) /\ Own' = <<c>>
             => Behind'
<1> DEFINE s == Judged(ses)
           r == Ending(s)
           d == Undone(s)
           x == Redone(s)
           a == SubSeq(Own, 1, Len(Own) - d)
           f == FlattenSeq(history)
<1>0. SUFFICES ASSUME SesOk, SesOk', Behind, Bookkeeping, spaces = 0, special = <<>>,
                      Retype(d, x \o <<c>>), history' = WithWord(history, r),
                      r.word = <<>> => s.overflow = <<>>, Own' = <<c>>
               PROVE  Behind'
  OBVIOUS
<1>1. /\ s \in Sessions /\ Judged(s) = s /\ TextOf(s) = TextOf(ses)  BY <1>0, JudgedIs
<1> HIDE DEF s
<1>2. /\ r \in Sessions /\ d \in 0 .. Len(TextOf(s)) /\ Spells(s, r, d, x)
      /\ r.overflow = s.overflow
  BY <1>1, EndShape
<1>3. x \in Seq(Chars) /\ <<c>> \in Seq(Chars) /\ x \o <<c>> \in Seq(Chars)  BY <1>1, EndText
<1> HIDE DEF r, d, x
<1>4. Own = TextOf(ses)
  <2>1. ~(spaces > 0)  BY <1>0
  <2> QED  BY <1>0, <2>1 DEF Own, OwnOf, TextOf
<1>5. TextOf(r) = a \o x  BY <1>1, <1>2, <1>4 DEF Spells
<1>6. d \in 0 .. Len(Own)  BY <1>1, <1>2, <1>4, Zenon
<1>7. f \in Seq(Chars) /\ Own \in Seq(Chars) /\ FlattenSeq(history') \in Seq(Chars)
  BY <1>0, BelievedType
<1>8. a \in Seq(Chars)
  <2>1. \A n \in Nat : \A k \in 0 .. n : n - k \in 0 .. n  OBVIOUS
  <2>2. Len(Own) \in Nat  BY <1>7
  <2>3. Len(Own) - d \in 0 .. Len(Own)  BY <1>6, <2>1, <2>2, Zenon
  <2> QED  BY <1>7, <2>3, Cut
<1>9. IsSuffix(FlattenSeq(history'), f \o (a \o x))
  <2>1. history \in Seq(Entries) /\ Len(history) <= MaxHistory  BY <1>0 DEF SesOk
  <2>2. r.word = <<>> => r.overflow = <<>>  BY <1>0, <1>2
  <2>3. IsSuffix(FlattenSeq(WithWord(history, r)), f \o (r.overflow \o r.word))
    BY <1>2, <2>1, <2>2, WordSaved
  <2> QED  BY <1>0, <1>5, <2>3, Zenon DEF TextOf
<1>10. IsSuffix(FlattenSeq(history') \o <<c>>, f \o (a \o (x \o <<c>>)))
  BY <1>3, <1>7, <1>8, <1>9, ThenTyped, Zenon
<1>11. IsSuffix(Believed', f \o (a \o (x \o <<c>>)))  BY <1>0, <1>10, BelievedIs, Zenon
<1> QED  BY <1>0, <1>3, <1>6, <1>11, Moved, Zenon

\* What stands behind the words goes to the history and one character is typed.
LEMMA GapEnds ==
  ASSUME NEW c \in Chars
  PROVE  /\ SesOk /\ SesOk' /\ Behind /\ Gap # <<>> /\ Retype(0, <<c>>)
         /\ history' = PushAll(history, Gap) /\ Own' = <<c>>
         => Behind'
<1> DEFINE f == FlattenSeq(history)
           g == FlattenSeq(history')
           e == <<c>>
           fo == f \o Own
<1>0. SUFFICES ASSUME SesOk, SesOk', Behind, Gap # <<>>, Retype(0, e),
                      history' = PushAll(history, Gap), Own' = e
               PROVE  Behind'
  OBVIOUS
<1>1. Own = Gap  BY <1>0 DEF Own, OwnOf, Gap
<1>2. e \in Seq(Chars)
  <2> HIDE DEF Chars
  <2> QED  OBVIOUS
<1>3. f \in Seq(Chars) /\ Own \in Seq(Chars) /\ g \in Seq(Chars)  BY <1>0, BelievedType
<1>4. IsSuffix(g, fo)  BY <1>0, <1>1, GapPushed, Zenon
<1>5. Believed' = g \o e  BY <1>0, BelievedIs, Zenon
<1> HIDE DEF f, g, e
<1>6. fo \in Seq(Chars)  BY <1>3, Cat
<1>7. fo \o e = f \o (Own \o e)
  <2>1. Regroups(f, Own, e)  BY <1>2, <1>3, Assoc, Zenon
  <2> QED  BY <2>1 DEF Regroups
<1> HIDE DEF fo
<1>8. IsSuffix(g \o e, fo \o e)  BY <1>2, <1>3, <1>4, <1>6, SuffixMore
<1>9. SubSeq(Own, 1, Len(Own) - 0) = Own /\ 0 \in 0 .. Len(Own)  BY <1>3
<1>10. IsSuffix(Believed', FlattenSeq(history) \o (SubSeq(Own, 1, Len(Own) - 0) \o e))
  BY <1>5, <1>7, <1>8, <1>9, Zenon DEF f
<1> QED  BY <1>0, <1>2, <1>9, <1>10, Moved, Zenon

\* One more character is typed.
LEMMA OneMore ==
  ASSUME NEW c \in Chars
  PROVE  /\ SesOk /\ SesOk' /\ Behind /\ Retype(0, <<c>>) /\ history' = history
         /\ Own' = Own \o <<c>>
         => Behind'
<1> DEFINE f == FlattenSeq(history)
           e == <<c>>
<1>0. SUFFICES ASSUME SesOk, SesOk', Behind, Retype(0, e), history' = history, Own' = Own \o e
               PROVE  Behind'
  OBVIOUS
<1>2. e \in Seq(Chars)
  <2> HIDE DEF Chars
  <2> QED  OBVIOUS
<1> HIDE DEF e
<1>3. Own \in Seq(Chars) /\ Believed' \in Seq(Chars)  BY <1>0, BelievedType
<1>4. Believed' = f \o (Own \o e)  BY <1>0, BelievedIs, Zenon
<1>5. IsSuffix(Believed', Believed')  BY <1>3, SuffixSelf
<1>9. SubSeq(Own, 1, Len(Own) - 0) = Own /\ 0 \in 0 .. Len(Own)  BY <1>3
<1>10. IsSuffix(Believed', FlattenSeq(history) \o (SubSeq(Own, 1, Len(Own) - 0) \o e))
  BY <1>4, <1>5, <1>9, Zenon
<1> QED  BY <1>0, <1>2, <1>9, <1>10, Moved, Zenon

\* A space keeps the invariant.
LEMMA SpaceKeeps == SessionInv /\ Space => SessionInv'
<1> DEFINE s == Judged(ses)
           r == Ending(s)
           b == " "
<1>0. SUFFICES ASSUME SessionInv, Space
               PROVE  SessionInv'
  OBVIOUS
<1>1. SesOk /\ (~astray => Behind /\ Bookkeeping)  BY <1>0 DEF SessionInv
<1>2. /\ Retype(Undone(s), IF Restores(s) THEN Append(s.keys, b) ELSE <<b>>)
      /\ spaces' = spaces + 1
      /\ special' = IF spaces = 0 THEN <<>> ELSE special
      /\ IF spaces = 0 /\ special = <<>>
           THEN history' = WithWord(history, r) /\ ses' = Saved(r)
           ELSE history' = (IF spaces = 0 THEN PushAll(history, special) ELSE history)
                /\ ses' = r
      /\ Stray(Restores(s) /\ s.keys = <<>> /\ s.overflow # <<>>)
      /\ resyncs' = resyncs /\ jumps' = jumps /\ OnItsWay
  BY <1>0, Zenon DEF Space, Ending, Undone
<1>3. /\ s \in Sessions /\ Judged(s) = s /\ s.word = ses.word /\ s.overflow = ses.overflow
      /\ s.keys = ses.keys
  BY <1>1, JudgedIs
<1>b. b \in Chars /\ Blanks(spaces + 1) = Blanks(spaces) \o <<b>>
  <2>1. spaces \in Nat  BY <1>1 DEF SesOk
  <2> QED  BY <2>1, KeysAre, BlanksAre
<1> HIDE DEF b
<1>s. spaces \in Nat /\ spaces' > 0 /\ spaces' \in Nat
  <2>1. spaces \in Nat  BY <1>1 DEF SesOk
  <2> QED  BY <1>2, <2>1
<1>t. (spaces = 0 \/ spaces > 0) /\ (spaces > 0 => spaces # 0)  BY <1>s
<1>o. Own' = Blanks(spaces) \o <<b>>  BY <1>2, <1>b, <1>s, Zenon DEF Own, OwnOf
<1>z. spaces = 0 => Own' = <<b>>
  <2>1. Blanks(0) = <<>>  BY DEF Blanks
  <2>2. <<>> \o <<b>> = <<b>>  OBVIOUS
  <2> QED  BY <1>o, <2>1, <2>2, Zenon
<1>4. /\ r \in Sessions /\ Undone(s) \in 0 .. Len(TextOf(s)) /\ r.keys = s.keys
      /\ r.overflow = s.overflow /\ ~Restores(Judged(r)) /\ Undone(s) \in Nat
      /\ r.word = <<>> /\ s.word # <<>> => s.keys = <<>> /\ Restores(s)
      /\ s.word = <<>> => ~Restores(s)
  BY <1>3, EndShape
<1>5. /\ (IF Restores(s) THEN Append(s.keys, b) ELSE <<b>>) = Redone(s) \o <<b>>
      /\ Redone(s) \o <<b>> \in Seq(Chars)
      /\ ~Restores(s) => Redone(s) \o <<b>> = <<b>> /\ Undone(s) = 0
      /\ ~Restores(s) => r = s
  <2>1. ~Restores(s) => r = s  BY DEF Ending
  <2> QED  BY <1>3, <1>b, <2>1, EndText
<1>6. Retype(Undone(s), Redone(s) \o <<b>>)  BY <1>2, <1>5, Zenon
<1> HIDE DEF s, r
<1>7. history \in Seq(Entries) /\ Len(history) <= MaxHistory /\ special \in Seq({"."})
      /\ due \in Seq(Chars) /\ account \in Nat /\ doc \in Seq(Chars)
      /\ (special # <<>> => spaces = 0)
  BY <1>1 DEF SesOk
<1>8. /\ Saved(r) \in Sessions /\ WithWord(history, r) \in Seq(Entries)
      /\ Len(WithWord(history, r)) <= MaxHistory
      /\ Saved(r).word = r.word /\ Saved(r).keys = r.keys
      /\ (Restores(Judged(Saved(r))) <=> Restores(Judged(r)))
      /\ (r.word = <<>> => r.overflow = <<>>) => Saved(r).overflow = <<>>
  BY <1>4, <1>7, Saving
<1>9. spaces = 0 => PushAll(history, special) = PushAll(history, Gap) /\ Gap = special
  <2>1. spaces = 0 => Gap = special  BY DEF Gap
  <2> QED  BY <2>1
<1>10. SesOk'
  <2>1. due' \in Seq(Chars) /\ account' \in Nat  BY <1>4, <1>5, <1>6, <1>7, RetypeType
  <2>2. doc' \in Seq(Chars)  BY <1>2, <1>7, <2>1, DocType
  <2>3. history' \in Seq(Entries) /\ Len(history') <= MaxHistory /\ ses' \in Sessions
    <3>1. PushAll(history, Gap) \in Seq(Entries) /\ Len(PushAll(history, Gap)) <= MaxHistory
      BY <1>1, GapPushed
    <3>2. CASE spaces = 0 /\ special = <<>>  BY <1>2, <1>8, <3>2, Zenon
    <3>3. CASE spaces = 0 /\ special # <<>>  BY <1>2, <1>4, <1>9, <3>1, <3>3, Zenon
    <3>4. CASE spaces # 0  BY <1>2, <1>4, <1>7, <3>4, Zenon
    <3> QED  BY <3>2, <3>3, <3>4
  <2>4. astray' \in BOOLEAN  BY <1>2, StrayMeans
  <2>5. special' \in Seq({"."}) /\ special' = <<>>
    <3>1. special' = <<>>  BY <1>2, <1>7, Zenon
    <3>2. <<>> \in Seq({"."})  OBVIOUS
    <3> QED  BY <3>1, <3>2, Zenon
  <2>6. resyncs' \in Nat /\ jumps' \in 0 .. MaxJumps /\ resyncs' <= jumps'
    BY <1>1, <1>2 DEF SesOk
  <2> QED  BY <1>s, <2>1, <2>2, <2>3, <2>4, <2>5, <2>6 DEF SesOk
<1>p. special' = <<>>  BY <1>2, <1>7, Zenon
<1>11. ASSUME ~astray, ~(Restores(s) /\ s.keys = <<>> /\ s.overflow # <<>>)
       PROVE  Behind' /\ Bookkeeping'
  <2>1. Behind /\ Bookkeeping  BY <1>1, <1>11
  <2>2. CASE spaces = 0 /\ special = <<>>
    <3>1. history' = WithWord(history, r) /\ ses' = Saved(r)  BY <1>2, <2>2, Zenon
    <3>2. s.word = <<>> => s.overflow = <<>> /\ s.keys = <<>>
      BY <1>3, <2>1, <2>2 DEF Bookkeeping
    <3>3. r.word = <<>> => r.overflow = <<>>
      BY <1>4, <1>5, <1>11, <3>2
    <3>4. Behind'
      <4>1. spaces = 0 /\ special = <<>> /\ Own' = <<b>>  BY <1>z, <2>2
      <4>2. r.word = <<>> => s.overflow = <<>>  BY <1>4, <3>3
      <4> QED  BY <1>1, <1>6, <1>10, <1>b, <2>1, <3>1, <4>1, <4>2, WordEnds, Zenon DEF s, r
    <3>5. r.word # <<>> => history' # <<>> /\ LastIsWord'
      <4>1. r.word # <<>> => WithWord(history, r) # <<>>
                             /\ Last(WithWord(history, r)) \in EntriesOf(Lets)
        BY <1>4, <1>7, WordSaved
      <4> QED  BY <3>1, <4>1, Zenon DEF LastIsWord
    <3>6. r.word = <<>> => r.keys = <<>>
      <4>1. CASE Restores(s)
        <5>1. r = Raw(s)  BY <4>1 DEF r, Ending
        <5>2. Raw(s).word = s.keys  BY <1>3, SesRaw
        <5> QED  BY <1>4, <5>1, <5>2, Zenon
      <4>2. CASE ~Restores(s)  BY <1>5, <3>2, <4>2, Zenon
      <4> QED  BY <4>1, <4>2
    <3>7. ses'.overflow = <<>> /\ ~Restores(Judged(ses'))
          /\ ses'.word = r.word /\ ses'.keys = r.keys
      BY <1>4, <1>8, <3>1, <3>3
    <3>8. Bookkeeping'
      <4>1. Restores(Judged(ses))' <=> Restores(Judged(ses'))  BY Zenon DEF Restores, Judged
      <4> QED  BY <1>p, <1>s, <3>5, <3>6, <3>7 DEF Bookkeeping
    <3> QED  BY <3>4, <3>8
  <2>3. CASE spaces = 0 /\ special # <<>>
    <3>1. s.word = <<>> /\ s.overflow = <<>> /\ s.keys = <<>>
      BY <1>3, <2>1, <2>3 DEF Bookkeeping
    <3>2. ~Restores(s) /\ r = s /\ Retype(0, <<b>>)  BY <1>4, <1>5, <1>6, <3>1, Zenon
    <3>3. history' = PushAll(history, Gap) /\ Gap # <<>> /\ ses' = s
      BY <1>2, <1>9, <2>3, <3>2, Zenon
    <3>4. Behind'
      BY <1>1, <1>10, <1>b, <1>z, <2>1, <2>3, <3>2, <3>3, GapEnds, Zenon
    <3>5. ~Restores(Judged(ses'))  BY <1>4, <3>2, <3>3
    <3>6. Bookkeeping'
      BY <1>p, <1>s, <3>1, <3>3, <3>5 DEF Bookkeeping
    <3> QED  BY <3>4, <3>6
  <2>4. CASE spaces > 0
    <3>1. ~Restores(s) /\ s.overflow = <<>>
      BY <1>3, <2>1, <2>4 DEF Bookkeeping, s
    <3>2. r = s /\ Retype(0, <<b>>)  BY <1>5, <1>6, <3>1, Zenon
    <3>3. history' = history /\ ses' = s  BY <1>2, <1>t, <2>4, <3>2, Zenon
    <3>4. Own' = Own \o <<b>>  BY <1>o, <2>4, Zenon DEF Own, OwnOf
    <3>5. Behind'  BY <1>1, <1>10, <1>b, <2>1, <3>2, <3>3, <3>4, OneMore, Zenon
    <3>6. ~Restores(Judged(ses'))  BY <1>3, <3>1, <3>3
    <3>7. /\ ses.word # <<>> => history # <<>>
          /\ ses.keys # <<>> => LastIsWord
      BY <2>1, <2>4 DEF Bookkeeping
    <3>8. /\ ses'.word # <<>> => history' # <<>>
          /\ ses'.keys # <<>> => LastIsWord'
      BY <1>3, <3>3, <3>7 DEF LastIsWord
    <3>9. Bookkeeping'
      BY <1>p, <1>s, <3>1, <3>3, <3>6, <3>8 DEF Bookkeeping
    <3> QED  BY <3>5, <3>9
  <2> QED  BY <1>t, <2>2, <2>3, <2>4
<1>12. ASSUME ~astray' PROVE Behind' /\ Bookkeeping'
  <2>1. EngineIsEmpty' \/ (~astray /\ ~(Restores(s) /\ s.keys = <<>> /\ s.overflow # <<>>))
    BY <1>2, <1>12, StrayMeans DEF s
  <2> QED  BY <1>10, <1>11, <2>1, EmptyIsGood
<1> QED  BY <1>10, <1>12 DEF SessionInv

\* Punctuation keeps the invariant.
LEMMA PunctKeeps == SessionInv /\ Punct => SessionInv'
<1> DEFINE s == Judged(ses)
           r == Ending(s)
           b == "."
<1>0. SUFFICES ASSUME SessionInv, Punct
               PROVE  SessionInv'
  OBVIOUS
<1>1. SesOk /\ (~astray => Behind /\ Bookkeeping)  BY <1>0 DEF SessionInv
<1>2. /\ Retype(Undone(s), IF Restores(s) THEN Append(s.keys, b) ELSE <<b>>)
      /\ history' = IF spaces > 0 THEN PushAll(history, Blanks(spaces))
                                  ELSE WithWord(history, r)
      /\ spaces' = 0 /\ special' = Append(special, b)
      /\ ses' = IF ~Restores(s) THEN NewSession ELSE IF spaces > 0 THEN r ELSE Saved(r)
      /\ Stray(Restores(s))
      /\ resyncs' = resyncs /\ jumps' = jumps /\ OnItsWay
  BY <1>0, Zenon DEF Punct, Ending, Undone
<1>3. s \in Sessions /\ Judged(s) = s /\ s.word = ses.word /\ s.overflow = ses.overflow
  BY <1>1, JudgedIs
<1>b. b \in Chars  BY KeysAre
<1>p. special' \in Seq({"."}) /\ special' = special \o <<b>> /\ special' # <<>>
      /\ (special = <<>> => special' = <<b>>)
  <2> DEFINE B == {"."}
  <2>1. special \in Seq(B) /\ b \in B  BY <1>1 DEF SesOk
  <2> HIDE DEF B, b
  <2>2. /\ Append(special, b) \in Seq(B) /\ Append(special, b) = special \o <<b>>
        /\ Append(special, b) # <<>> /\ (special = <<>> => Append(special, b) = <<b>>)
    <3>1. \A v \in Seq(B) : /\ Append(v, b) \in Seq(B) /\ Append(v, b) = v \o <<b>>
                           /\ Append(v, b) # <<>>
      BY <2>1
    <3>2. Append(<<>>, b) = <<b>>  OBVIOUS
    <3> QED  BY <2>1, <3>1, <3>2, Zenon
  <2>3. special' = Append(special, b)  BY <1>2
  <2>4. special' \in Seq(B)  BY <2>2, <2>3, Zenon
  <2> QED  BY <2>2, <2>3, <2>4, Zenon DEF B
<1> HIDE DEF b
<1>s. spaces \in Nat /\ ~(spaces' > 0) /\ spaces' = 0
  <2>1. spaces \in Nat  BY <1>1 DEF SesOk
  <2> QED  BY <1>2, <2>1
<1>o. Own' = special \o <<b>> /\ (special = <<>> => Own' = <<b>>)
  <2>1. Own' = special'  BY <1>p, <1>s, Zenon DEF Own, OwnOf
  <2> QED  BY <1>p, <2>1, Zenon
<1>4. /\ r \in Sessions /\ Undone(s) \in 0 .. Len(TextOf(s)) /\ Undone(s) \in Nat
  BY <1>3, EndShape
<1>5. /\ (IF Restores(s) THEN Append(s.keys, b) ELSE <<b>>) = Redone(s) \o <<b>>
      /\ Redone(s) \o <<b>> \in Seq(Chars)
      /\ ~Restores(s) => Redone(s) \o <<b>> = <<b>> /\ Undone(s) = 0
      /\ ~Restores(s) => r = s
  <2>1. ~Restores(s) => r = s  BY DEF Ending
  <2> QED  BY <1>3, <1>b, <2>1, EndText
<1>6. Retype(Undone(s), Redone(s) \o <<b>>)  BY <1>2, <1>5, Zenon
<1> HIDE DEF s, r
<1>7. history \in Seq(Entries) /\ Len(history) <= MaxHistory /\ special \in Seq({"."})
      /\ due \in Seq(Chars) /\ account \in Nat /\ doc \in Seq(Chars)
      /\ (special # <<>> => spaces = 0)
  BY <1>1 DEF SesOk
<1>8. /\ Saved(r) \in Sessions /\ WithWord(history, r) \in Seq(Entries)
      /\ Len(WithWord(history, r)) <= MaxHistory
  BY <1>4, <1>7, Saving
<1>9. spaces > 0 => history' = PushAll(history, Gap) /\ Gap # <<>> /\ special = <<>>
  <2>1. ASSUME spaces > 0
        PROVE  history' = PushAll(history, Gap) /\ Gap # <<>> /\ special = <<>>
    <3>1. Gap = Blanks(spaces) /\ history' = PushAll(history, Blanks(spaces))
      BY <1>2, <2>1, Zenon DEF Gap
    <3>2. Blanks(spaces) # <<>>  BY <1>s, <2>1, BlanksAre
    <3>3. spaces # 0  BY <2>1
    <3> QED  BY <1>7, <3>1, <3>2, <3>3, Zenon
  <2> QED  BY <2>1
<1>w. ~(spaces > 0) => history' = WithWord(history, r) /\ spaces = 0
  <2>1. ~(spaces > 0) => spaces = 0  BY <1>s
  <2> QED  BY <1>2, <2>1, Zenon
<1>10. SesOk'
  <2>1. due' \in Seq(Chars) /\ account' \in Nat  BY <1>4, <1>5, <1>6, <1>7, RetypeType
  <2>2. doc' \in Seq(Chars)  BY <1>2, <1>7, <2>1, DocType
  <2>3. history' \in Seq(Entries) /\ Len(history') <= MaxHistory
    <3>1. PushAll(history, Gap) \in Seq(Entries) /\ Len(PushAll(history, Gap)) <= MaxHistory
      BY <1>1, GapPushed
    <3>2. CASE spaces > 0  BY <1>9, <3>1, <3>2, Zenon
    <3>3. CASE ~(spaces > 0)  BY <1>8, <1>w, <3>3, Zenon
    <3> QED  BY <3>2, <3>3
  <2>4. ses' \in Sessions  BY <1>2, <1>4, <1>8, SesNew, Zenon
  <2>5. astray' \in BOOLEAN  BY <1>2, StrayMeans
  <2>6. resyncs' \in Nat /\ jumps' \in 0 .. MaxJumps /\ resyncs' <= jumps'
    BY <1>1, <1>2 DEF SesOk
  <2>7. spaces' \in Nat  BY <1>s
  <2> QED  BY <1>p, <1>s, <2>1, <2>2, <2>3, <2>4, <2>5, <2>6, <2>7 DEF SesOk
<1>11. ASSUME ~astray, ~Restores(s)
       PROVE  Behind' /\ Bookkeeping'
  <2>1. Behind /\ Bookkeeping  BY <1>1, <1>11
  <2>2. ses' = NewSession /\ r = s /\ Retype(0, <<b>>)  BY <1>2, <1>5, <1>6, <1>11, Zenon
  <2>3. ASSUME spaces > 0 PROVE Behind'
    BY <1>1, <1>9, <1>10, <1>b, <1>o, <2>1, <2>2, <2>3, GapEnds, Zenon
  <2>4. ASSUME ~(spaces > 0), special = <<>> PROVE Behind'
    <3>1. spaces = 0 /\ history' = WithWord(history, r)  BY <1>w, <2>4
    <3>2. r.word = <<>> => s.overflow = <<>>
      BY <1>3, <2>1, <2>2 DEF Bookkeeping
    <3> QED
      BY <1>1, <1>6, <1>10, <1>b, <1>o, <2>1, <2>4, <3>1, <3>2, WordEnds, Zenon DEF s, r
  <2>5. ASSUME ~(spaces > 0), special # <<>> PROVE Behind'
    <3>1. s.word = <<>>  BY <1>3, <2>1, <2>5 DEF Bookkeeping
    <3>2. history' = history
      <4>1. WithWord(history, s) = history  BY <3>1 DEF WithWord
      <4> QED  BY <1>w, <2>2, <2>5, <4>1, Zenon
    <3>3. Own' = Own \o <<b>>  BY <1>o, <2>5, Zenon DEF Own, OwnOf
    <3> QED  BY <1>1, <1>10, <1>b, <2>1, <2>2, <3>2, <3>3, OneMore, Zenon
  <2>6. Behind'  BY <2>3, <2>4, <2>5
  <2>7. ses'.word = <<>> /\ ses'.overflow = <<>> /\ ses'.keys = <<>>
    BY <2>2 DEF NewSession
  <2>8. Bookkeeping'  BY <1>p, <1>s, <2>7, Zenon DEF Bookkeeping
  <2> QED  BY <2>6, <2>8
<1>12. ASSUME ~astray' PROVE Behind' /\ Bookkeeping'
  <2>1. EngineIsEmpty' \/ (~astray /\ ~Restores(s))
    BY <1>2, <1>12, StrayMeans DEF s
  <2> QED  BY <1>10, <1>11, <2>1, EmptyIsGood
<1> QED  BY <1>10, <1>12 DEF SessionInv

-----------------------------------------------------------------------------
(* Breaks without a character, landing keys and the resync.                *)

\* Nothing the engine believes in has changed.
LEMMA SameSession ==
  SessionInv /\ UNCHANGED <<ses, special, spaces, history, account, due, astray>> /\ SesOk'
  => SessionInv'
<1>0. SUFFICES ASSUME SessionInv, SesOk',
                      UNCHANGED <<ses, special, spaces, history, account, due, astray>>
               PROVE  SessionInv'
  OBVIOUS
<1>1. ses' = ses /\ special' = special /\ spaces' = spaces /\ history' = history
      /\ account' = account /\ due' = due /\ astray' = astray
  BY <1>0
<1>2. Believed' = Believed
  <2>1. Own' = Own  BY <1>1, Zenon DEF Own, OwnOf
  <2> QED  BY <1>1, <2>1, BelievedIs, Zenon
<1>3. Bookkeeping' <=> Bookkeeping
  <2>1. Restores(Judged(ses))' <=> Restores(Judged(ses))
    BY <1>1, Zenon DEF Restores, Judged
  <2> QED  BY <1>1, <2>1, Zenon DEF Bookkeeping, LastIsWord
<1>4. Behind' <=> Behind  BY <1>1, <1>2, Zenon DEF Behind
<1> QED  BY <1>0, <1>1, <1>3, <1>4 DEF SessionInv

\* A break without a character leaves an empty engine or one led astray.
LEMMA BreakGood ==
  SesOk /\ BreakWord => /\ ses' \in Sessions /\ special' = <<>> /\ history' = <<>>
                        /\ spaces' = spaces /\ astray' \in BOOLEAN
                        /\ ~astray' => EngineIsEmpty'
<1>0. SUFFICES ASSUME SesOk, BreakWord
               PROVE  /\ ses' \in Sessions /\ special' = <<>> /\ history' = <<>>
                      /\ spaces' = spaces /\ astray' \in BOOLEAN
                      /\ ~astray' => EngineIsEmpty'
  OBVIOUS
<1> DEFINE s == Judged(ses)
<1>1. /\ ses' = IF Restores(s) THEN Raw(s) ELSE NewSession
      /\ special' = <<>> /\ history' = <<>> /\ spaces' = spaces
      /\ Stray(Restores(s) \/ spaces > 0)
  BY <1>0 DEF BreakWord
<1>2. s \in Sessions /\ spaces \in Nat  BY <1>0, JudgedIs DEF SesOk
<1> HIDE DEF s
<1>3. ses' \in Sessions
  <2>1. Raw(s) \in Sessions  BY <1>2, SesRaw
  <2> QED  BY <1>1, <2>1, SesNew, Zenon
<1>4. astray' \in BOOLEAN /\ (~astray' => EngineIsEmpty' \/ ~(Restores(s) \/ spaces > 0))
  BY <1>1, StrayMeans
<1>5. ASSUME ~(Restores(s) \/ spaces > 0) PROVE EngineIsEmpty'
  <2>1. ses' = NewSession /\ spaces = 0  BY <1>1, <1>2, <1>5
  <2> QED  BY <1>1, <2>1 DEF EngineIsEmpty, NewSession
<1> QED  BY <1>1, <1>3, <1>4, <1>5

\* What is left of the document is a text.
LEMMA ErasedType ==
  ASSUME due \in Seq(Chars), NEW n \in Nat
  PROVE  Erased(n) \in Seq(Chars)
BY DEF Erased

\* A word restored at a break leaves a text.
LEMMA RestoredType ==
  ASSUME SesOk, NEW text \in Seq(Chars), RestoredOr(text)
  PROVE  due' \in Seq(Chars)
<1> DEFINE s == Judged(ses)
           del == Clamp(Len(s.word))
<1>1. s \in Sessions /\ due \in Seq(Chars) /\ account \in Nat  BY JudgedIs DEF SesOk
<1>2. due' = IF Restores(s) /\ (del > 0 \/ s.keys # <<>>) THEN Erased(del) \o s.keys ELSE text
  BY DEF RestoredOr
<1> HIDE DEF s
<1>3. del \in Nat
  <2>1. Len(s.word) \in Nat  BY <1>1, TextType
  <2> QED  BY <1>1, <2>1 DEF Clamp
<1> HIDE DEF del
<1>4. Erased(del) \in Seq(Chars) /\ s.keys \in Seq(Chars)
  BY <1>1, <1>3, ErasedType, SesFields, KeyWords
<1>5. Erased(del) \o s.keys \in Seq(Chars)  BY <1>4, Cat
<1> QED  BY <1>2, <1>5, Zenon

\* The counters keep their bounds at a jump.
LEMMA JumpTyped ==
  SesOk /\ CountJump /\ (resyncs' = resyncs \/ resyncs' = resyncs + 1)
  => resyncs' \in Nat /\ jumps' \in 0 .. MaxJumps /\ resyncs' <= jumps'
BY SessionAssumption DEF SesOk, CountJump

\* Enter keeps the invariant.
LEMMA EnterKeeps == SessionInv /\ Enter => SessionInv'
<1>0. SUFFICES ASSUME SessionInv, Enter PROVE SessionInv'
  OBVIOUS
<1>1. SesOk  BY <1>0 DEF SessionInv
<1>2. CountJump /\ BreakWord /\ RestoredOr(Append(due, "\n")) /\ account' = account + 1
      /\ resyncs' = resyncs /\ OnItsWay
  BY <1>0 DEF Enter
<1>3. due \in Seq(Chars) /\ account \in Nat /\ doc \in Seq(Chars) /\ spaces \in Nat
  BY <1>1 DEF SesOk
<1>4. Append(due, "\n") \in Seq(Chars)
  <2>1. \A c \in Chars : Append(due, c) \in Seq(Chars)  BY <1>3
  <2> QED  BY <2>1, KeysAre, Zenon
<1>5. due' \in Seq(Chars)  BY <1>1, <1>2, <1>4, RestoredType
<1>6. doc' \in Seq(Chars)  BY <1>2, <1>3, <1>5, DocType
<1>7. SesOk'
  <2>1. resyncs' \in Nat /\ jumps' \in 0 .. MaxJumps /\ resyncs' <= jumps'
    BY <1>1, <1>2, JumpTyped
  <2>2. /\ ses' \in Sessions /\ special' = <<>> /\ history' = <<>> /\ spaces' = spaces
        /\ astray' \in BOOLEAN
    BY <1>1, <1>2, BreakGood
  <2>3. /\ history' \in Seq(Entries) /\ Len(history') <= MaxHistory /\ special' \in Seq({"."})
        /\ account' \in Nat
    BY <1>2, <1>3, <2>2, Bounds
  <2> QED  BY <1>3, <1>5, <1>6, <2>1, <2>2, <2>3 DEF SesOk
<1> QED  BY <1>1, <1>2, <1>7, BreakGood, EmptyIsGood DEF SessionInv

\* A caret key keeps the invariant.
LEMMA CaretKeyKeeps ==
  ASSUME NEW text \in Seq(Chars), NEW queued
  PROVE  SessionInv /\ CaretKey(text, queued) => SessionInv'
<1>0. SUFFICES ASSUME SessionInv, CaretKey(text, queued) PROVE SessionInv'
  OBVIOUS
<1>1. SesOk  BY <1>0 DEF SessionInv
<1>2. CountJump /\ BreakWord /\ RestoredOr(text) /\ account' = account /\ OnItsWay
      /\ (resyncs' = resyncs \/ resyncs' = resyncs + 1)
  BY <1>0 DEF CaretKey
<1>3. account \in Nat /\ doc \in Seq(Chars) /\ spaces \in Nat  BY <1>1 DEF SesOk
<1>5. due' \in Seq(Chars)  BY <1>1, <1>2, RestoredType
<1>6. doc' \in Seq(Chars)  BY <1>2, <1>3, <1>5, DocType
<1>7. SesOk'
  <2>1. resyncs' \in Nat /\ jumps' \in 0 .. MaxJumps /\ resyncs' <= jumps'
    BY <1>1, <1>2, JumpTyped
  <2>2. /\ ses' \in Sessions /\ special' = <<>> /\ history' = <<>> /\ spaces' = spaces
        /\ astray' \in BOOLEAN
    BY <1>1, <1>2, BreakGood
  <2>3. /\ history' \in Seq(Entries) /\ Len(history') <= MaxHistory /\ special' \in Seq({"."})
    BY <2>2, Bounds
  <2> QED  BY <1>2, <1>3, <1>5, <1>6, <2>1, <2>2, <2>3 DEF SesOk
<1> QED  BY <1>1, <1>2, <1>7, BreakGood, EmptyIsGood DEF SessionInv

\* A click keeps the invariant.
LEMMA ClickKeeps ==
  ASSUME NEW text \in Seq(Chars), NEW queued
  PROVE  SessionInv /\ Click(text, queued) => SessionInv'
<1>0. SUFFICES ASSUME SessionInv, Click(text, queued) PROVE SessionInv'
  OBVIOUS
<1>1. SesOk  BY <1>0 DEF SessionInv
<1>2. CountJump /\ BreakWord /\ due' = text /\ doc' = text /\ account' = account
      /\ (resyncs' = resyncs \/ resyncs' = resyncs + 1)
  BY <1>0 DEF Click
<1>3. account \in Nat /\ spaces \in Nat  BY <1>1 DEF SesOk
<1>7. SesOk'
  <2>1. resyncs' \in Nat /\ jumps' \in 0 .. MaxJumps /\ resyncs' <= jumps'
    BY <1>1, <1>2, JumpTyped
  <2>2. /\ ses' \in Sessions /\ special' = <<>> /\ history' = <<>> /\ spaces' = spaces
        /\ astray' \in BOOLEAN
    BY <1>1, <1>2, BreakGood
  <2>3. /\ history' \in Seq(Entries) /\ Len(history') <= MaxHistory /\ special' \in Seq({"."})
    BY <2>2, Bounds
  <2> QED  BY <1>2, <1>3, <2>1, <2>2, <2>3 DEF SesOk
<1> QED  BY <1>1, <1>2, <1>7, BreakGood, EmptyIsGood DEF SessionInv

\* A change of the foreground keeps the invariant.
LEMMA FocusKeeps ==
  ASSUME NEW text \in Seq(Chars)
  PROVE  SessionInv /\ Focus(text) => SessionInv'
<1>0. SUFFICES ASSUME SessionInv, Focus(text) PROVE SessionInv'
  OBVIOUS
<1>1. SesOk  BY <1>0 DEF SessionInv
<1>2. /\ CountJump /\ due' = text /\ doc' = text /\ account' = 0 /\ resyncs' = resyncs
      /\ ses' = NewSession /\ special' = <<>> /\ spaces' = 0 /\ history' = <<>>
      /\ astray' = FALSE
  BY <1>0 DEF Focus
<1>3. SesOk'
  <2>1. resyncs' \in Nat /\ jumps' \in 0 .. MaxJumps /\ resyncs' <= jumps'
    BY <1>1, <1>2, JumpTyped
  <2>2. /\ history' \in Seq(Entries) /\ Len(history') <= MaxHistory /\ special' \in Seq({"."})
    BY <1>2, Bounds
  <2>3. ses' \in Sessions  BY <1>2, SesNew
  <2> QED  BY <1>2, <2>1, <2>2, <2>3 DEF SesOk
<1>4. EngineIsEmpty'  BY <1>2 DEF EngineIsEmpty, NewSession
<1> QED  BY <1>3, <1>4, EmptyIsGood DEF SessionInv

\* A key that lands keeps the invariant.
LEMMA LandKeeps == SessionInv /\ Land => SessionInv'
<1>0. SUFFICES ASSUME SessionInv, Land PROVE SessionInv'
  OBVIOUS
<1>1. /\ doc' = due
      /\ UNCHANGED <<ses, special, spaces, history, account, due, resyncs, jumps, astray>>
  BY <1>0 DEF Land
<1>2. SesOk  BY <1>0 DEF SessionInv
<1>3. SesOk'  BY <1>1, <1>2 DEF SesOk
<1> QED  BY <1>0, <1>1, <1>3, SameSession

\* A text is what is older and what is newest of it.
LEMMA OlderAndNewest ==
  ASSUME NEW S, NEW w \in Seq(S), NEW n \in Nat
  PROVE  /\ Older(n, w) \in Seq(S) /\ Newest(n, w) \in Seq(S)
         /\ Len(Newest(n, w)) <= n
         /\ Older(n, w) \o Newest(n, w) = w
         /\ n > 0 /\ w # <<>> => Newest(n, w) # <<>>
<1>1. /\ Newest(n, w) \in Seq(S) /\ Len(Newest(n, w)) = IF Len(w) > n THEN n ELSE Len(w)
      /\ n > 0 /\ w # <<>> => Newest(n, w) # <<>>
  BY NewestIs
<1>2. Len(w) \in Nat  OBVIOUS
<1>3. Len(Newest(n, w)) <= n  BY <1>1, <1>2
<1>4. CASE Len(w) > n
  <2>1. PICK k \in 0 .. Len(w) : k = Len(w) - n  BY <1>2, <1>4
  <2>2. SubSeq(w, 1, k) \in Seq(S) /\ w = SubSeq(w, 1, k) \o SubSeq(w, k + 1, Len(w))  BY Cut
  <2>3. Older(n, w) = SubSeq(w, 1, k)  BY <2>1 DEF Older
  <2>4. Newest(n, w) = SubSeq(w, k + 1, Len(w))  BY <1>4, <2>1, Zenon DEF Newest
  <2> QED  BY <1>1, <1>3, <2>2, <2>3, <2>4, Zenon
<1>5. CASE ~(Len(w) > n)
  <2>1. Newest(n, w) = w  BY <1>5 DEF Newest
  <2>2. Older(n, w) = <<>>  BY <1>2, <1>5 DEF Older
  <2>3. <<>> \o w = w /\ <<>> \in Seq(S)  OBVIOUS
  <2> QED  BY <1>1, <1>3, <2>1, <2>2, <2>3, Zenon
<1> QED  BY <1>4, <1>5

\* The word read before the caret is of plain letters and ends the document.
LEMMA WordRead ==
  ASSUME doc \in Seq(Chars)
  PROVE  /\ WordAtCaret \in Seq(Keys) /\ IsSuffix(WordAtCaret, doc)
         /\ WordAtCaret # <<>> => doc # <<>> /\ Last(doc) \in Keys
<1> DEFINE read == Newest(MaxRead, doc)
           B == {p \in DOMAIN read : read[p] \notin Keys}
           q == Most(B)
           w == SubSeq(read, q + 1, Len(read))
<1>1. /\ read \in Seq(Chars) /\ \E x \in Seq(Chars) : doc = x \o read
      /\ Len(read) = IF Len(doc) > MaxRead THEN MaxRead ELSE Len(doc)
      /\ MaxRead > 0 /\ doc # <<>> => Last(read) = Last(doc)
  BY NewestIs, Bounds
<1>2. WordAtCaret = IF q > 0 /\ read[q] = Acute THEN <<>> ELSE w
  BY Zenon DEF WordAtCaret, Keys
<1>n. MaxRead = 0 => Len(read) = 0
  <2>1. Len(doc) \in Nat  OBVIOUS
  <2> QED  BY <1>1, <2>1, Bounds
<1> HIDE DEF read
<1>3. Len(read) \in Nat /\ DOMAIN read = 1 .. Len(read)  BY <1>1
<1>4. B \subseteq 1 .. Len(read)  BY <1>3
<1>5. q \in 0 .. Len(read) /\ \A k \in B : k <= q  BY <1>3, <1>4, MostIs
<1>6. \A k \in 1 .. Len(read) : k > q => read[k] \in Keys
  <2>1. \A k \in 1 .. Len(read) : k \notin B => read[k] \in Keys  BY <1>3
  <2> HIDE DEF B, q
  <2>2. \A k \in 1 .. Len(read) : k > q => k \notin B  BY <1>3, <1>5
  <2> QED  BY <2>1, <2>2
<1> HIDE DEF B, q
<1>7. /\ w \in Seq(Chars) /\ Len(w) = Len(read) - q
      /\ SubSeq(read, 1, q) \in Seq(Chars) /\ read = SubSeq(read, 1, q) \o w
  BY <1>1, <1>5, Cut, ZenonT(40)
<1>8. \A i \in 1 .. Len(w) : w[i] \in Keys
  <2>1. \A i \in 1 .. Len(w) : w[i] = read[q + i] /\ q + i \in 1 .. Len(read) /\ q + i > q
    BY <1>1, <1>3, <1>5, <1>7
  <2> QED  BY <1>6, <2>1
<1>9. IsSuffix(read, doc)
  <2>1. doc \in Seq(Chars)  OBVIOUS
  <2> QED  BY <1>1, <2>1, SuffixIs
<1>10. IsSuffix(w, read)
  <2> HIDE DEF w
  <2> QED  BY <1>1, <1>7, SuffixIs
<1> HIDE DEF w
<1>11. w \in Seq(Keys)  BY <1>7, <1>8
<1>12. IsSuffix(w, doc)  BY <1>1, <1>7, <1>9, <1>10, SuffixTrans, Zenon
<1>13. <<>> \in Seq(Keys) /\ IsSuffix(<<>>, doc)
  <2>1. <<>> \in Seq(Chars) /\ <<>> \in Seq(Keys) /\ doc = doc \o <<>>  OBVIOUS
  <2>2. IsSuffix(<<>>, doc \o <<>>)  BY <2>1, SuffixBehind, Zenon
  <2> QED  BY <2>1, <2>2, Zenon
<1>14. ASSUME w # <<>> PROVE doc # <<>> /\ Last(doc) \in Keys
  <2>1. Len(w) # 0  BY <1>7, <1>14, EmptySeq
  <2>2. Len(read) > q /\ Len(read) \in 1 .. Len(read)
    <3>1. \A n \in Nat : \A k \in 0 .. n : n - k # 0 => n > k /\ n \in 1 .. n  OBVIOUS
    <3> QED  BY <1>3, <1>5, <1>7, <2>1, <3>1, Zenon
  <2>3. read[Len(read)] \in Keys  BY <1>6, <2>2
  <2>4. MaxRead > 0
    <3>1. MaxRead # 0
      <4>1. Len(read) # 0  BY <2>2
      <4> QED  BY <1>n, <4>1
    <3> QED  BY <3>1, Bounds
  <2>5. doc # <<>>
    <3>1. Len(doc) = 0 => Len(read) = 0  BY <1>1, Bounds
    <3>2. Len(read) # 0 /\ Len(<<>>) = 0  BY <2>2
    <3> QED  BY <3>1, <3>2
  <2>6. Last(read) \in Keys  BY <2>3 DEF Last
  <2> QED  BY <1>1, <2>4, <2>5, <2>6
<1> QED  BY <1>2, <1>11, <1>12, <1>13, <1>14, Zenon

\* A text that ends in a character has it last.
LEMMA LastOfSuffix ==
  ASSUME NEW a, NEW c, NEW t
  PROVE  /\ a \in Seq(Chars) /\ c \in Chars /\ t \in Seq(Chars) /\ IsSuffix(a \o <<c>>, t)
         => Last(t) = c
<1>0. SUFFICES ASSUME a \in Seq(Chars), c \in Chars, t \in Seq(Chars), IsSuffix(a \o <<c>>, t)
               PROVE  Last(t) = c
  OBVIOUS
<1> DEFINE e == <<c>>
           ac == a \o e
<1>1. e \in Seq(Chars) /\ Len(e) = 1 /\ e[1] = c
  <2>1. c \in Chars  BY <1>0
  <2> HIDE DEF Chars
  <2> QED  BY <2>1
<1> HIDE DEF e
<1>2. a \in Seq(Chars)  BY <1>0
<1>3. ac \in Seq(Chars)  BY <1>1, <1>2, Cat
<1>4. IsSuffix(ac, t) /\ t \in Seq(Chars)  BY <1>0 DEF e
<1> HIDE DEF ac
<1>5. PICK x \in Seq(Chars) : t = x \o ac  BY <1>3, <1>4, SuffixIs
<1>6. x \in Seq(Chars)  BY <1>5
<1> DEFINE xa == x \o a
<1>7. t = xa \o e
  <2>1. (x \o a) \o e = x \o (a \o e)
    <3>1. Regroups(x, a, e)  BY <1>1, <1>2, <1>6, Assoc, Zenon
    <3> QED  BY <3>1 DEF Regroups
  <2> QED  BY <1>5, <2>1, Zenon DEF ac
<1>8. xa \in Seq(Chars)  BY <1>2, <1>6, Cat
<1> HIDE DEF xa
<1>9. Last(xa \o e) = c
  <2>0. xa \in Seq(Chars) /\ e \in Seq(Chars)  BY <1>1, <1>8
  <2>1. Len(xa) \in Nat /\ Len(xa \o e) = Len(xa) + 1
    <3>1. Len(xa \o e) = Len(xa) + Len(e)  BY <2>0, Cat
    <3>2. Len(xa) \in Nat  BY <2>0
    <3> QED  BY <1>1, <3>1, <3>2, Zenon
  <2>2. Len(xa) + 1 \in 1 .. Len(xa) + Len(e)
    <3>1. \A n \in Nat : n + 1 \in 1 .. n + 1  OBVIOUS
    <3> QED  BY <1>1, <2>1, <3>1, Zenon
  <2>3. (xa \o e)[Len(xa) + 1] = IF Len(xa) + 1 <= Len(xa) THEN xa[Len(xa) + 1]
                                 ELSE e[Len(xa) + 1 - Len(xa)]
    BY <2>0, <2>2, ConcatProperties
  <2>4. ~(Len(xa) + 1 <= Len(xa)) /\ Len(xa) + 1 - Len(xa) = 1  BY <2>1
  <2> QED  BY <1>1, <2>1, <2>3, <2>4, Zenon DEF Last
<1> QED  BY <1>7, <1>9, Zenon

\* A text that ends in a letter has no blank and no punctuation behind it.
LEMMA NothingBehind ==
  SesOk /\ IsSuffix(Own, doc) /\ Last(doc) \in Keys => spaces = 0 /\ special = <<>>
<1>0. SUFFICES ASSUME SesOk, IsSuffix(Own, doc), Last(doc) \in Keys
               PROVE  spaces = 0 /\ special = <<>>
  OBVIOUS
<1>1. spaces \in Nat /\ special \in Seq({"."}) /\ doc \in Seq(Chars)  BY <1>0 DEF SesOk
<1> DEFINE b == " "
           B == {"."}
<1>2. b \in Chars /\ b \notin Keys /\ B \subseteq Chars /\ \A c \in B : c \notin Keys
  BY DEF Keys, Chars
<1>3. spaces = 0
  <2>1. ASSUME spaces > 0 PROVE FALSE
    <3>1. spaces - 1 \in Nat /\ (spaces - 1) + 1 = spaces  BY <1>1, <2>1
    <3>2. Blanks((spaces - 1) + 1) = Blanks(spaces - 1) \o <<b>>  BY <3>1, BlanksAre
    <3>3. Own = Blanks(spaces - 1) \o <<b>>
      <4>1. Own = Blanks(spaces)  BY <2>1 DEF Own, OwnOf
      <4> QED  BY <3>1, <3>2, <4>1, Zenon
    <3> HIDE DEF b
    <3>4. Blanks(spaces - 1) \in Seq(Chars)
      <4>1. " " \in Chars  BY <1>2 DEF b
      <4> QED  BY <3>1, <4>1, BlanksType
    <3>5. IsSuffix(Blanks(spaces - 1) \o <<b>>, doc)  BY <1>0, <3>3, Zenon
    <3>6. Last(doc) = b  BY <1>1, <1>2, <3>4, <3>5, LastOfSuffix
    <3> QED  BY <1>0, <1>2, <3>6
  <2> QED  BY <1>1, <2>1
<1>4. special = <<>>
  <2>1. ASSUME special # <<>> PROVE FALSE
    <3>1. special \in Seq(B)  BY <1>1
    <3> HIDE DEF B
    <3>2. /\ Front(special) \in Seq(B) /\ Last(special) \in B
          /\ special = Front(special) \o <<Last(special)>>
      BY <2>1, <3>1, FrontLast
    <3>3. Front(special) \in Seq(Chars) /\ Last(special) \in Chars
      BY <1>2, <3>2, SeqMonotonic
    <3>4. Own = special
      <4>1. ~(spaces > 0)  BY <1>3
      <4> QED  BY <2>1, <4>1 DEF Own, OwnOf
    <3>5. IsSuffix(Front(special) \o <<Last(special)>>, doc)  BY <1>0, <3>2, <3>4, Zenon
    <3>6. Last(doc) = Last(special)
      <4> DEFINE l == Last(special)
                 a == Front(special)
      <4>1. a \in Seq(Chars) /\ l \in Chars /\ IsSuffix(a \o <<l>>, doc)  BY <3>3, <3>5
      <4> HIDE DEF l, a
      <4>2. Last(doc) = l  BY <1>1, <4>1, LastOfSuffix
      <4> QED  BY <4>2 DEF l
    <3> QED  BY <1>0, <1>2, <3>2, <3>6
  <2> QED  BY <2>1
<1> QED  BY <1>3, <1>4

\* A resync keeps the invariant.
LEMMA ResyncKeeps == SessionInv /\ Resync => SessionInv'
<1>0. SUFFICES ASSUME SessionInv, Resync PROVE SessionInv'
  OBVIOUS
<1> DEFINE w == WordAtCaret
<1>1. SesOk /\ (~astray => Behind /\ Bookkeeping)  BY <1>0 DEF SessionInv
<1>2. /\ resyncs > 0 /\ resyncs' = resyncs - 1
      /\ special' = special /\ spaces' = spaces /\ history' = history /\ due' = due
      /\ doc' = doc /\ jumps' = jumps
  BY <1>0 DEF Resync
<1>3. resyncs' \in Nat /\ jumps' \in 0 .. MaxJumps /\ resyncs' <= jumps'
  <2>1. resyncs \in Nat /\ jumps \in 0 .. MaxJumps /\ resyncs <= jumps /\ MaxJumps \in Nat
    BY <1>1, SessionAssumption DEF SesOk
  <2> QED  BY <1>2, <2>1
<1>4. CASE w = <<>>
  <2>1. ses' = ses /\ account' = account /\ astray' = astray  BY <1>0, <1>4 DEF Resync
  <2>2. SesOk'  BY <1>1, <1>2, <1>3, <2>1 DEF SesOk
  <2> QED  BY <1>0, <1>2, <2>1, <2>2, SameSession
<1>5. CASE w # <<>>
  <2> DEFINE n == Newest(MaxBuff, w)
             o == Older(MaxBuff, w)
  <2>1. /\ ses' = [NewSession EXCEPT !.word = n, !.overflow = o, !.keys = n]
        /\ account' = Len(w) /\ Stray(~Ready \/ history # <<>>)
    BY <1>0, <1>5, Zenon DEF Resync
  <2>2. doc \in Seq(Chars) /\ due \in Seq(Chars) /\ spaces \in Nat  BY <1>1 DEF SesOk
  <2>3. w \in Seq(Keys) /\ IsSuffix(w, doc) /\ Last(doc) \in Keys  BY <1>5, <2>2, WordRead
  <2> HIDE DEF w
  <2>4. /\ o \in Seq(Keys) /\ n \in Seq(Keys) /\ Len(n) <= MaxBuff /\ o \o n = w /\ n # <<>>
    BY <1>5, <2>3, OlderAndNewest, Bounds
  <2> HIDE DEF n, o
  <2>5. ses'.word = n /\ ses'.overflow = o /\ ses'.keys = n /\ ses'.composed = FALSE
        /\ ses'.disabled = FALSE
        /\ ses' = [word |-> n, overflow |-> o, keys |-> n, disabled |-> FALSE, composed |-> FALSE]
    BY <2>1 DEF NewSession
  <2>6. ses' \in Sessions
    <3>1. n \in Words /\ o \in Words  BY <2>4, KeyWords
    <3> QED  BY <2>4, <2>5, <3>1 DEF Sessions, Records
  <2>7. SesOk'
    <3>1. astray' \in BOOLEAN  BY <2>1, StrayMeans
    <3>2. account' \in Nat  BY <2>1, <2>3
    <3> QED  BY <1>1, <1>2, <1>3, <2>6, <3>1, <3>2 DEF SesOk
  <2>8. ASSUME ~astray, Ready, history = <<>> PROVE Behind' /\ Bookkeeping'
    <3>1. Own \in Seq(Chars)  BY <1>1, BelievedType
    <3>2. Believed = Own
      <4>1. Believed = <<>> \o Own  BY <2>8, BelievedIs, FlatEmpty, Zenon
      <4>2. <<>> \o Own = Own  BY <3>1
      <4> QED  BY <4>1, <4>2, Zenon
    <3>3. IsSuffix(Own, doc)  BY <1>1, <2>8, <3>2, Zenon DEF Behind, Ready
    <3>4. spaces = 0 /\ special = <<>>  BY <1>1, <2>3, <3>3, NothingBehind
    <3>5. Believed' = w
      <4>1. ~(spaces' > 0) /\ special' = <<>>  BY <1>2, <3>4
      <4>2. Own' = o \o n  BY <2>5, <4>1, Zenon DEF Own, OwnOf
      <4>3. Believed' = <<>> \o w  BY <1>2, <2>4, <2>8, <4>2, BelievedIs, FlatEmpty, Zenon
      <4>4. <<>> \o w = w  BY <2>3
      <4> QED  BY <4>3, <4>4, Zenon
    <3>6. Behind'
      <4>1. IsSuffix(Believed', due')  BY <1>2, <2>3, <2>8, <3>5, Zenon DEF Ready
      <4>2. account' = Len(w) /\ Len(w) \in Nat  BY <2>1, <2>3
      <4>3. account' >= Len(Believed')
        <5>1. \A k \in Nat : k >= k  OBVIOUS
        <5> QED  BY <3>5, <4>2, <5>1, Zenon
      <4> QED  BY <4>1, <4>3 DEF Behind
    <3>7. Bookkeeping'
      <4>1. ~(spaces' > 0) /\ special' = <<>> /\ ses'.word # <<>>  BY <1>2, <2>4, <2>5, <3>4
      <4> QED  BY <4>1, Zenon DEF Bookkeeping
    <3> QED  BY <3>6, <3>7
  <2>9. ASSUME ~astray' PROVE Behind' /\ Bookkeeping'
    <3>1. EngineIsEmpty' \/ (~astray /\ Ready /\ history = <<>>)  BY <2>1, <2>9, StrayMeans
    <3> QED  BY <2>7, <2>8, <3>1, EmptyIsGood
  <2> QED  BY <2>7, <2>9 DEF SessionInv
<1> QED  BY <1>4, <1>5

-----------------------------------------------------------------------------
(* Backspace.                                                              *)

\* An entry of the history, as its first character tells it.
LEMMA EntryIs ==
  ASSUME NEW e \in Entries
  PROVE  \/ e \in EntriesOf(Lets) /\ e[1] # " " /\ e[1] # "."
         \/ e \in EntriesOf({" "}) /\ e[1] = " " /\ e[1] # "."
         \/ e \in EntriesOf({"."}) /\ e[1] = "." /\ e[1] # " "
<1>1. \A S : e \in EntriesOf(S) => e[1] \in S
  <2>1. ASSUME NEW S, e \in EntriesOf(S) PROVE e[1] \in S
    <3>1. e \in Seq(S) /\ e # <<>>  BY <2>1 DEF EntriesOf
    <3>2. Len(e) # 0 /\ Len(e) \in Nat  BY <3>1, EmptySeq
    <3>3. 1 \in 1 .. Len(e)  BY <3>2
    <3> QED  BY <3>1, <3>3, ElementOfSeq
  <2> QED  BY <2>1
<1>2. e \in EntriesOf(Lets) \/ e \in EntriesOf({" "}) \/ e \in EntriesOf({"."})  BY DEF Entries
<1>3. \A x : /\ x \in Lets => x # " " /\ x # "."
             /\ x \in {" "} => x = " " /\ x # "."
             /\ x \in {"."} => x = "." /\ x # " "
  BY DEF Lets, Acute
<1> HIDE DEF Lets
<1> QED  BY <1>1, <1>2, <1>3, Zenon

\* The history without its last entry, and that entry.
LEMMA HistoryEnds ==
  ASSUME NEW h \in Seq(Entries), h # <<>>
  PROVE  /\ Front(h) \in Seq(Entries) /\ Last(h) \in Entries /\ Len(Front(h)) = Len(h) - 1
         /\ Len(h) \in Nat
         /\ FlattenSeq(h) = FlattenSeq(Front(h)) \o Last(h)
<1>1. /\ Front(h) \in Seq(Entries) /\ Len(Front(h)) = Len(h) - 1 /\ Len(h) \in Nat
      /\ Last(h) \in Entries /\ <<Last(h)>> \in Seq(Entries)
      /\ h = Front(h) \o <<Last(h)>>
  BY FrontLast
<1> DEFINE f == Front(h)
           l == Last(h)
           o == <<l>>
<1>2. /\ f \in Seq(Entries) /\ l \in Entries /\ o \in Seq(Entries) /\ h = f \o o  BY <1>1
<1> HIDE DEF f, l
<1>3. /\ f \in Seq(Seq(Chars)) /\ l \in Seq(Chars) /\ o \in Seq(Seq(Chars))
  BY <1>2, EntriesAreTexts, SeqMonotonic
<1>4. FlattenSeq(o) = l  BY <1>3, FlatOne
<1> HIDE DEF o
<1>5. FlattenSeq(f \o o) = FlattenSeq(f) \o FlattenSeq(o)  BY <1>3, FlatConcat
<1>6. FlattenSeq(h) = FlattenSeq(f) \o l  BY <1>2, <1>4, <1>5, Zenon
<1> QED  BY <1>1, <1>6, Zenon DEF f, l

\* The session a recalled entry is read into.
Recalled(s, e) ==
  [s EXCEPT !.word = IF e[1] \in {" ", "."} THEN <<>> ELSE e,
            !.disabled = @ /\ e[1] # ".",
            !.composed = TRUE]

\* A recalled entry is the word when it is one of letters.
LEMMA RecalledIs ==
  ASSUME NEW s \in Sessions, NEW e \in Entries
  PROVE  /\ Recalled(s, e) \in Sessions /\ Recalled(s, e).overflow = s.overflow
         /\ Recalled(s, e).keys = s.keys
         /\ e \in EntriesOf(Lets) /\ e[1] # " " /\ e[1] # "." => Recalled(s, e).word = e
         /\ e[1] = " " \/ e[1] = "." => Recalled(s, e).word = <<>>
<1> DEFINE w == IF e[1] \in {" ", "."} THEN <<>> ELSE e
           d == s.disabled /\ e[1] # "."
<1>1. w \in Words /\ Len(w) <= MaxBuff
  <2>1. CASE e[1] = " " \/ e[1] = "."
    <3>1. w = <<>>  BY <2>1
    <3>2. <<>> \in Words /\ Len(<<>>) <= MaxBuff
      <4>1. <<>> \in Seq(Lets) /\ Len(<<>>) = 0  OBVIOUS
      <4> QED  BY <4>1, WordsAre, Bounds
    <3> QED  BY <3>1, <3>2, Zenon
  <2>2. CASE ~(e[1] = " " \/ e[1] = ".")
    <3>1. w = e  BY <2>2
    <3>2. e \in Seq(Lets) /\ Len(e) <= MaxBuff  BY <2>2, EntryIs, Zenon DEF EntriesOf
    <3> QED  BY <3>1, <3>2, WordsAre, Zenon
  <2> QED  BY <2>1, <2>2
<1>2. d \in BOOLEAN  OBVIOUS
<1>3. /\ e \in EntriesOf(Lets) /\ e[1] # " " /\ e[1] # "." => w = e
      /\ e[1] = " " \/ e[1] = "." => w = <<>>
  OBVIOUS
<1>4. Recalled(s, e) = [s EXCEPT !.word = w, !.disabled = d, !.composed = TRUE]
  BY Zenon DEF Recalled
<1> HIDE DEF w, d
<1>5. s \in Records /\ Len(s.keys) <= MaxBuff  BY DEF Sessions
<1>6. /\ Recalled(s, e) \in Sessions /\ Recalled(s, e).overflow = s.overflow
      /\ Recalled(s, e).keys = s.keys /\ Recalled(s, e).word = w
  BY <1>1, <1>2, <1>4, <1>5 DEF Sessions, Records
<1> QED  BY <1>3, <1>6, Zenon

\* A recall keeps the types.
LEMMA RecallTyped ==
  ASSUME NEW s \in Sessions
  PROVE  SesOk /\ Recall(s)
         => /\ ses' \in Sessions /\ special' \in Seq({"."}) /\ spaces' \in Nat
            /\ history' \in Seq(Entries) /\ Len(history') <= MaxHistory
            /\ special' # <<>> => spaces' = 0
<1>0. SUFFICES ASSUME SesOk, Recall(s)
      PROVE  /\ ses' \in Sessions /\ special' \in Seq({"."}) /\ spaces' \in Nat
             /\ history' \in Seq(Entries) /\ Len(history') <= MaxHistory
             /\ special' # <<>> => spaces' = 0
  OBVIOUS
<1>1. history \in Seq(Entries) /\ Len(history) <= MaxHistory  BY <1>0 DEF SesOk
<1>2. CASE history = <<>>
  <2>1. ses' = s /\ special' = <<>> /\ spaces' = 0 /\ history' = history
    BY <1>0, <1>2 DEF Recall
  <2> QED  BY <1>1, <2>1
<1>3. CASE history # <<>>
  <2> DEFINE e == Last(history)
  <2>1. /\ history' = Front(history) /\ ses' = Recalled(s, e)
        /\ spaces' = IF e[1] = " " THEN Len(e) ELSE 0
        /\ special' = IF e[1] = "." THEN e ELSE <<>>
    BY <1>0, <1>3, Zenon DEF Recall, Recalled
  <2>2. /\ Front(history) \in Seq(Entries) /\ e \in Entries
        /\ Len(Front(history)) = Len(history) - 1 /\ Len(history) \in Nat
    BY <1>1, <1>3, HistoryEnds
  <2>3. Len(history') <= MaxHistory /\ history' \in Seq(Entries)
    <3>1. \A n \in Nat : \A m \in Nat \ {0} : n <= m => n - 1 <= m  OBVIOUS
    <3> QED  BY <1>1, <2>1, <2>2, <3>1, Bounds, Zenon
  <2> HIDE DEF e
  <2>4. ses' \in Sessions  BY <2>1, <2>2, RecalledIs
  <2>5. spaces' \in Nat
    <3>1. Len(e) \in Nat  BY <2>2, EntriesAreTexts
    <3> QED  BY <2>1, <3>1
  <2>6. special' \in Seq({"."})
    <3>1. e[1] = "." => e \in Seq({"."})  BY <2>2, EntryIs, Zenon DEF EntriesOf
    <3>2. <<>> \in Seq({"."})  OBVIOUS
    <3> QED  BY <2>1, <3>1, <3>2, Zenon
  <2>7. special' # <<>> => spaces' = 0
    <3>1. e[1] = "." => e[1] # " "  BY <2>2, EntryIs, Zenon
    <3> QED  BY <2>1, <3>1, Zenon
  <2> QED  BY <2>3, <2>4, <2>5, <2>6, <2>7
<1> QED  BY <1>2, <1>3

\* A recall believes in the history as it was, and in nothing behind it.
LEMMA RecallGood ==
  ASSUME NEW s \in Sessions
  PROVE  /\ SesOk /\ Recall(s) /\ s.overflow = <<>> /\ (history = <<>> => s.word = <<>>)
         /\ (s.keys # <<>> => LastIsWord)
         => Believed' = FlattenSeq(history) /\ Bookkeeping'
<1>0. SUFFICES ASSUME SesOk, Recall(s), s.overflow = <<>>, history = <<>> => s.word = <<>>,
                      s.keys # <<>> => LastIsWord
               PROVE  Believed' = FlattenSeq(history) /\ Bookkeeping'
  OBVIOUS
<1>1. history \in Seq(Entries)  BY <1>0 DEF SesOk
<1>2. CASE history = <<>>
  <2>1. ses' = s /\ special' = <<>> /\ spaces' = 0 /\ history' = history
    BY <1>0, <1>2 DEF Recall
  <2>2. s.word = <<>> /\ s.keys = <<>>  BY <1>0, <1>2 DEF LastIsWord
  <2>3. ~(spaces' > 0)  BY <2>1
  <2>4. Own' = <<>> \o <<>>  BY <1>0, <2>1, <2>2, <2>3, Zenon DEF Own, OwnOf
  <2>5. Believed' = <<>> \o (<<>> \o <<>>)  BY <1>2, <2>1, <2>4, BelievedIs, FlatEmpty, Zenon
  <2>6. <<>> \o (<<>> \o <<>>) = <<>>  OBVIOUS
  <2>7. Believed' = FlattenSeq(history)  BY <1>2, <2>5, <2>6, FlatEmpty, Zenon
  <2>8. Bookkeeping'  BY <1>0, <1>2, <2>1, <2>2, <2>3, Zenon DEF Bookkeeping
  <2> QED  BY <2>7, <2>8
<1>3. CASE history # <<>>
  <2> DEFINE e == Last(history)
             r == Recalled(s, e)
             g == FlattenSeq(Front(history))
  <2>1. /\ history' = Front(history) /\ ses' = r
        /\ spaces' = IF e[1] = " " THEN Len(e) ELSE 0
        /\ special' = IF e[1] = "." THEN e ELSE <<>>
    BY <1>0, <1>3, Zenon DEF Recall, Recalled
  <2>2. e \in Entries /\ FlattenSeq(history) = g \o e
    BY <1>1, <1>3, HistoryEnds
  <2>k. s.keys # <<>> => e \in EntriesOf(Lets)  BY <1>0 DEF LastIsWord
  <2> HIDE DEF e
  <2>3. /\ r.overflow = <<>> /\ r.keys = s.keys
        /\ e \in EntriesOf(Lets) /\ e[1] # " " /\ e[1] # "." => r.word = e
        /\ e[1] = " " \/ e[1] = "." => r.word = <<>>
    BY <1>0, <2>2, RecalledIs
  <2> HIDE DEF r
  <2>4. e # <<>>  BY <2>2 DEF Entries, EntriesOf
  <2>b. Believed' = FlattenSeq(Front(history)) \o Own'  BY <2>1, BelievedIs, Zenon
  <2>l. e \in EntriesOf(Lets) => e[1] # " " /\ e[1] # "."
    <3>1. ASSUME e \in EntriesOf(Lets) PROVE e[1] \in Lets
      <4>1. e \in Seq(Lets) /\ e # <<>>  BY <3>1 DEF EntriesOf
      <4>2. Len(e) # 0 /\ Len(e) \in Nat  BY <4>1, EmptySeq
      <4>3. 1 \in 1 .. Len(e)  BY <4>2
      <4> QED  BY <4>1, <4>3, ElementOfSeq
    <3>2. \A x : x \in Lets => x # " " /\ x # "."  BY DEF Lets, Acute
    <3> QED  BY <3>1, <3>2, Zenon
  <2>5. CASE e \in EntriesOf(Lets) /\ e[1] # " " /\ e[1] # "."
    <3>1. spaces' = 0 /\ special' = <<>> /\ r.word = e  BY <2>1, <2>3, <2>5, Zenon
    <3>2. ~(spaces' > 0)  BY <3>1
    <3>3. Own' = <<>> \o e  BY <2>1, <2>3, <3>1, <3>2, Zenon DEF Own, OwnOf
    <3>4. <<>> \o e = e  BY <2>2, EntriesAreTexts
    <3>5. Believed' = FlattenSeq(history)  BY <2>2, <2>b, <3>3, <3>4, Zenon
    <3>6. Bookkeeping'  BY <2>1, <2>4, <3>1, <3>2, Zenon DEF Bookkeeping
    <3> QED  BY <3>5, <3>6
  <2>6. CASE e \in EntriesOf({" "}) /\ e[1] = " " /\ e[1] # "."
    <3>1. spaces' = Len(e) /\ special' = <<>> /\ r.word = <<>>  BY <2>1, <2>3, <2>6, Zenon
    <3>2. Len(e) \in Nat \ {0} /\ Blanks(Len(e)) = e  BY <2>6, BlankEntry
    <3>3. spaces' > 0 /\ spaces' # 0  BY <3>1, <3>2
    <3>4. Own' = e  BY <3>1, <3>2, <3>3, Zenon DEF Own, OwnOf
    <3>5. Believed' = FlattenSeq(history)  BY <2>2, <2>b, <3>4, Zenon
    <3>6. s.keys = <<>>  BY <2>6, <2>k, <2>l
    <3>7. ~Restores(Judged(ses))'
      <4>1. r \in Sessions
        <5>1. ses' \in Sessions  BY <1>0, RecallTyped
        <5> QED  BY <2>1, <5>1, Zenon
      <4>2. Judged(r).word = <<>>  BY <3>1, <4>1, SesJudged
      <4>3. ~HasMark(Judged(r).word)
        <5>1. DOMAIN <<>> = {}  OBVIOUS
        <5> QED  BY <4>2, <5>1 DEF HasMark
      <4>4. ~Restores(Judged(r))  BY <4>3, Zenon DEF Restores
      <4>5. Restores(Judged(ses))' <=> Restores(Judged(r))  BY <2>1, Zenon DEF Restores, Judged
      <4> QED  BY <4>4, <4>5
    <3>8. Bookkeeping'  BY <2>1, <2>3, <3>1, <3>3, <3>6, <3>7, Zenon DEF Bookkeeping
    <3> QED  BY <3>5, <3>8
  <2>7. CASE e \in EntriesOf({"."}) /\ e[1] = "." /\ e[1] # " "
    <3>1. spaces' = 0 /\ special' = e /\ r.word = <<>>  BY <2>1, <2>3, <2>7, Zenon
    <3>2. ~(spaces' > 0)  BY <3>1
    <3>3. Own' = e  BY <2>4, <3>1, <3>2, Zenon DEF Own, OwnOf
    <3>4. Believed' = FlattenSeq(history)  BY <2>2, <2>b, <3>3, Zenon
    <3>5. s.keys = <<>>  BY <2>7, <2>k, <2>l
    <3>6. Bookkeeping'  BY <2>1, <2>3, <2>4, <3>1, <3>2, <3>5, Zenon DEF Bookkeeping
    <3> QED  BY <3>4, <3>6
  <2> QED  BY <2>2, <2>5, <2>6, <2>7, EntryIs, Zenon
<1> QED  BY <1>2, <1>3

\* A Backspace takes the last character of the own text off the document.
LEMMA Dropped ==
  ASSUME NEW o, NEW g
  PROVE  /\ SesOk /\ SesOk' /\ Behind /\ Passed /\ o = Own /\ Own # <<>>
         /\ Believed' = FlattenSeq(history) \o SubSeq(o, 1, Len(o) - 1)
         => Behind'
<1>0. SUFFICES ASSUME SesOk, SesOk', Behind, Passed, o = Own, Own # <<>>,
                      Believed' = FlattenSeq(history) \o SubSeq(o, 1, Len(o) - 1)
               PROVE  Behind'
  OBVIOUS
<1>1. due \in Seq(Chars) /\ account \in Nat  BY <1>0 DEF SesOk
<1>2. FlattenSeq(history) \in Seq(Chars) /\ Own \in Seq(Chars) /\ Believed' \in Seq(Chars)
  BY <1>0, BelievedType
<1>3. IsSuffix(FlattenSeq(history) \o Own, due) /\ account >= Len(FlattenSeq(history) \o Own)
  BY <1>0, BelievedIs DEF Behind
<1>4. IsSuffix(Believed', due') /\ account' >= Len(Believed')
  BY <1>0, <1>1, <1>2, <1>3, OneLess, Zenon
<1> QED  BY <1>4 DEF Behind

\* Backspace takes back one character of what stands behind the words.
LEMMA EraseSpecialKeeps ==
  SesOk /\ EraseSpecial
  => /\ ses' \in Sessions /\ special' \in Seq({"."}) /\ spaces' \in Nat
     /\ history' \in Seq(Entries) /\ Len(history') <= MaxHistory
     /\ (special' # <<>> => spaces' = 0) /\ Passed
     /\ SesOk' /\ Behind /\ Bookkeeping => Behind' /\ Bookkeeping'
<1>0. SUFFICES ASSUME SesOk, EraseSpecial
      PROVE  /\ ses' \in Sessions /\ special' \in Seq({"."}) /\ spaces' \in Nat
             /\ history' \in Seq(Entries) /\ Len(history') <= MaxHistory
             /\ (special' # <<>> => spaces' = 0) /\ Passed
             /\ SesOk' /\ Behind /\ Bookkeeping => Behind' /\ Bookkeeping'
  OBVIOUS
<1>1. /\ special # <<>> /\ Passed
      /\ IF Len(special) = 1 THEN Recall(ses)
         ELSE special' = Front(special) /\ ses' = ses /\ spaces' = spaces /\ history' = history
  BY <1>0, Zenon DEF EraseSpecial
<1>2. /\ ses \in Sessions /\ special \in Seq({"."}) /\ spaces \in Nat
      /\ history \in Seq(Entries) /\ Len(history) <= MaxHistory /\ spaces = 0
  BY <1>0, <1>1 DEF SesOk
<1>3. Own = special /\ ~(spaces > 0)
  <2>1. ~(spaces > 0)  BY <1>2
  <2> QED  BY <1>1, <2>1 DEF Own, OwnOf
<1>4. CASE Len(special) = 1
  <2>1. Recall(ses)  BY <1>1, <1>4
  <2>2. ASSUME SesOk', Behind, Bookkeeping PROVE Behind' /\ Bookkeeping'
    <3>1. ses.word = <<>> /\ ses.overflow = <<>> /\ ses.keys = <<>>
      BY <1>1, <1>2, <2>2 DEF Bookkeeping
    <3>2. Believed' = FlattenSeq(history) /\ Bookkeeping'
      BY <1>0, <1>2, <2>1, <3>1, RecallGood
    <3>3. Believed' = FlattenSeq(history) \o SubSeq(special, 1, Len(special) - 1)
      <4>1. SubSeq(special, 1, 0) = <<>> /\ 1 - 1 = 0  BY <1>2
      <4>2. FlattenSeq(history) \in Seq(Chars)  BY <1>0, BelievedType
      <4>3. FlattenSeq(history) \o <<>> = FlattenSeq(history)  BY <4>2
      <4> QED  BY <1>4, <3>2, <4>1, <4>3, Zenon
    <3>4. Behind'  BY <1>0, <1>1, <1>3, <2>2, <3>3, Dropped, Zenon
    <3> QED  BY <3>2, <3>4
  <2> QED  BY <1>0, <1>1, <1>2, <2>1, <2>2, RecallTyped
<1>5. CASE Len(special) # 1
  <2>1. /\ special' = Front(special) /\ ses' = ses /\ spaces' = spaces /\ history' = history
    BY <1>1, <1>5, Zenon
  <2>2. special' \in Seq({"."}) /\ special' # <<>>
    <3> DEFINE B == {"."}
    <3>1. special \in Seq(B)  BY <1>2
    <3> HIDE DEF B
    <3>2. Front(special) \in Seq(B) /\ Len(Front(special)) = Len(special) - 1
          /\ Len(special) \in Nat \ {0}
      BY <1>1, <3>1, FrontLast
    <3>3. Len(Front(special)) # 0  BY <1>5, <3>2
    <3>4. Len(<<>>) = 0  OBVIOUS
    <3>5. Front(special) # <<>>  BY <3>3, <3>4, Zenon
    <3> QED  BY <2>1, <3>2, <3>5, Zenon DEF B
  <2>3. ASSUME SesOk', Behind, Bookkeeping PROVE Behind' /\ Bookkeeping'
    <3>1. ses.word = <<>> /\ ses.overflow = <<>> /\ ses.keys = <<>>
      BY <1>1, <1>2, <2>3 DEF Bookkeeping
    <3>2. Own' = Front(special)  BY <1>3, <2>1, <2>2, Zenon DEF Own, OwnOf
    <3>3. Believed' = FlattenSeq(history) \o SubSeq(special, 1, Len(special) - 1)
      BY <2>1, <3>2, BelievedIs, Zenon DEF Front
    <3>4. Behind'  BY <1>0, <1>1, <1>3, <2>3, <3>3, Dropped, Zenon
    <3>5. Bookkeeping'  BY <1>3, <2>1, <2>2, <3>1, Zenon DEF Bookkeeping
    <3> QED  BY <3>4, <3>5
  <2> QED  BY <1>1, <1>2, <2>1, <2>2, <2>3, Zenon
<1> QED  BY <1>4, <1>5

\* A Backspace on a blank keeps what is believed.
LEMMA EraseSpaceKeeps ==
  SesOk /\ EraseSpace
  => /\ ses' \in Sessions /\ special' \in Seq({"."}) /\ spaces' \in Nat
     /\ history' \in Seq(Entries) /\ Len(history') <= MaxHistory
     /\ (special' # <<>> => spaces' = 0) /\ Passed
     /\ SesOk' /\ Behind /\ Bookkeeping => Behind' /\ Bookkeeping'
<1>0. SUFFICES ASSUME SesOk, EraseSpace
      PROVE  /\ ses' \in Sessions /\ special' \in Seq({"."}) /\ spaces' \in Nat
             /\ history' \in Seq(Entries) /\ Len(history') <= MaxHistory
             /\ (special' # <<>> => spaces' = 0) /\ Passed
             /\ SesOk' /\ Behind /\ Bookkeeping => Behind' /\ Bookkeeping'
  OBVIOUS
<1>1. /\ special = <<>> /\ spaces > 0 /\ Passed
      /\ IF spaces = 1 THEN Recall(ses)
         ELSE spaces' = spaces - 1 /\ special' = special /\ ses' = ses /\ history' = history
  BY <1>0, Zenon DEF EraseSpace
<1>2. /\ ses \in Sessions /\ spaces \in Nat /\ special \in Seq({"."})
      /\ history \in Seq(Entries) /\ Len(history) <= MaxHistory
  BY <1>0 DEF SesOk
<1>3. Own = Blanks(spaces) /\ Blanks(spaces) # <<>>
      /\ SubSeq(Blanks(spaces), 1, spaces - 1) = Blanks(spaces - 1)
      /\ Len(Blanks(spaces)) = spaces
  <2>1. Own = Blanks(spaces)  BY <1>1 DEF Own, OwnOf
  <2>2. Blanks(spaces) # <<>> /\ SubSeq(Blanks(spaces), 1, spaces - 1) = Blanks(spaces - 1)
    BY <1>1, <1>2, BlanksAre
  <2>3. Len(Blanks(spaces)) = spaces  BY <1>2, KeysAre, BlanksType, Zenon
  <2> QED  BY <2>1, <2>2, <2>3
<1>4. CASE spaces = 1
  <2>1. Recall(ses)  BY <1>1, <1>4
  <2>2. ASSUME SesOk', Behind, Bookkeeping PROVE Behind' /\ Bookkeeping'
    <3>1. /\ ses.overflow = <<>> /\ (history = <<>> => ses.word = <<>>)
          /\ (ses.keys # <<>> => LastIsWord)
      BY <1>1, <2>2 DEF Bookkeeping
    <3>2. Believed' = FlattenSeq(history) /\ Bookkeeping'
      BY <1>0, <1>2, <2>1, <3>1, RecallGood
    <3>3. Believed' = FlattenSeq(history) \o SubSeq(Own, 1, Len(Own) - 1)
      <4>1. Blanks(0) = <<>> /\ 1 - 1 = 0  BY DEF Blanks
      <4>2. FlattenSeq(history) \in Seq(Chars)  BY <1>0, BelievedType
      <4>3. FlattenSeq(history) \o <<>> = FlattenSeq(history)  BY <4>2
      <4> QED  BY <1>3, <1>4, <3>2, <4>1, <4>3, Zenon
    <3>4. Behind'  BY <1>0, <1>1, <1>3, <2>2, <3>3, Dropped, Zenon
    <3> QED  BY <3>2, <3>4
  <2> QED  BY <1>0, <1>1, <1>2, <2>1, <2>2, RecallTyped
<1>5. CASE spaces # 1
  <2>1. /\ spaces' = spaces - 1 /\ special' = special /\ ses' = ses /\ history' = history
    BY <1>1, <1>5, Zenon
  <2>2. spaces' > 0 /\ spaces' \in Nat /\ spaces' # 0  BY <1>1, <1>2, <1>5, <2>1
  <2>3. ASSUME SesOk', Behind, Bookkeeping PROVE Behind' /\ Bookkeeping'
    <3>1. Own' = Blanks(spaces - 1)  BY <2>1, <2>2, Zenon DEF Own, OwnOf
    <3>3. Believed' = FlattenSeq(history) \o SubSeq(Own, 1, Len(Own) - 1)
      BY <1>3, <2>1, <3>1, BelievedIs, Zenon
    <3>4. Behind'  BY <1>0, <1>1, <1>3, <2>3, <3>3, Dropped, Zenon
    <3>5. Restores(Judged(ses))' <=> Restores(Judged(ses))
      BY <2>1, Zenon DEF Restores, Judged
    <3>6. LastIsWord' <=> LastIsWord  BY <2>1, Zenon DEF LastIsWord
    <3>7. Bookkeeping'  BY <1>1, <2>1, <2>2, <2>3, <3>5, <3>6, Zenon DEF Bookkeeping
    <3> QED  BY <3>4, <3>7
  <2>4. special' # <<>> => spaces' = 0  BY <1>1, <2>1
  <2> QED  BY <1>1, <1>2, <2>1, <2>2, <2>3, <2>4, Zenon
<1> QED  BY <1>4, <1>5

\* A Backspace on the last letter keeps what is believed.
LEMMA EraseLastKeeps ==
  SesOk /\ EraseLast
  => /\ ses' \in Sessions /\ special' \in Seq({"."}) /\ spaces' \in Nat
     /\ history' \in Seq(Entries) /\ Len(history') <= MaxHistory
     /\ (special' # <<>> => spaces' = 0) /\ Passed
     /\ SesOk' /\ Behind /\ Bookkeeping => Behind' /\ Bookkeeping'
<1>0. SUFFICES ASSUME SesOk, EraseLast
      PROVE  /\ ses' \in Sessions /\ special' \in Seq({"."}) /\ spaces' \in Nat
             /\ history' \in Seq(Entries) /\ Len(history') <= MaxHistory
             /\ (special' # <<>> => spaces' = 0) /\ Passed
             /\ SesOk' /\ Behind /\ Bookkeeping => Behind' /\ Bookkeeping'
  OBVIOUS
<1>1. /\ special = <<>> /\ spaces = 0 /\ Passed /\ Recall(NewSession)
      /\ Len(ses.word) <= IF ses.overflow = <<>> THEN 1 ELSE 0
  BY <1>0, Zenon DEF EraseLast
<1>2. ses \in Sessions /\ ses.word \in Seq(Lets)  BY <1>0, SesFields, WordsAre DEF SesOk
<1>3. NewSession \in Sessions /\ NewSession.word = <<>> /\ NewSession.overflow = <<>>
      /\ NewSession.keys = <<>>
  BY SesNew DEF NewSession
<1>4. ASSUME SesOk', Behind, Bookkeeping PROVE Behind' /\ Bookkeeping'
  <2>1. ~(spaces > 0)  BY <1>1
  <2>2. ses.overflow = <<>> /\ Len(ses.word) <= 1
    <3>1. ses.word = <<>> => ses.overflow = <<>>  BY <1>4 DEF Bookkeeping
    <3>2. Len(ses.word) \in Nat  BY <1>2, TextType
    <3>3. Len(ses.word) <= 0 => ses.word = <<>>
      <4>1. Len(ses.word) <= 0 => Len(ses.word) = 0  BY <3>2
      <4> HIDE DEF Lets
      <4> QED  BY <1>2, <4>1, EmptySeq
    <3> QED  BY <1>1, <3>1, <3>3
  <2>3. Own = ses.word
    <3>1. Own = <<>> \o ses.word  BY <1>1, <2>1, <2>2, Zenon DEF Own, OwnOf
    <3>2. <<>> \o ses.word = ses.word
      <4> HIDE DEF Lets
      <4> QED  BY <1>2
    <3> QED  BY <3>1, <3>2, Zenon
  <2>4. Believed' = FlattenSeq(history) /\ Bookkeeping'
    BY <1>0, <1>1, <1>3, RecallGood
  <2>5. CASE ses.word = <<>>
    <3>1. history = <<>>  BY <1>1, <1>4, <2>5 DEF Bookkeeping
    <3>2. ses' = NewSession /\ special' = <<>> /\ spaces' = 0 /\ history' = <<>>
      BY <1>1, <3>1 DEF Recall
    <3>3. EngineIsEmpty'  BY <3>2 DEF EngineIsEmpty, NewSession
    <3> QED  BY <1>4, <3>3, EmptyIsGood
  <2>6. CASE ses.word # <<>>
    <3>1. Len(Own) = 1 /\ SubSeq(Own, 1, Len(Own) - 1) = <<>>
      <4> HIDE DEF Lets
      <4>1. Len(ses.word) # 0 /\ Len(ses.word) \in Nat  BY <1>2, <2>6, EmptySeq
      <4>2. Len(ses.word) = 1
        <5>1. \A n \in Nat : n # 0 /\ n <= 1 => n = 1  OBVIOUS
        <5> QED  BY <2>2, <4>1, <5>1, Zenon
      <4>3. SubSeq(ses.word, 1, 0) = <<>> /\ 1 - 1 = 0  BY <1>2
      <4> QED  BY <2>3, <4>2, <4>3, Zenon
    <3>2. FlattenSeq(history) \in Seq(Chars)  BY <1>0, BelievedType
    <3>3. FlattenSeq(history) \o <<>> = FlattenSeq(history)  BY <3>2
    <3>4. Believed' = FlattenSeq(history) \o SubSeq(Own, 1, Len(Own) - 1)
      BY <2>4, <3>1, <3>3, Zenon
    <3>5. Own # <<>>  BY <2>3, <2>6
    <3>6. Behind'  BY <1>0, <1>1, <1>4, <3>4, <3>5, Dropped, Zenon
    <3> QED  BY <2>4, <3>6
  <2> QED  BY <2>5, <2>6
<1> QED  BY <1>0, <1>1, <1>3, <1>4, RecallTyped

\* The word without its last letter, and the mark moved back to its place.
LEMMA EraseLetterShape ==
  ASSUME NEW s, NEW t, NEW r, NEW from, NEW d, NEW ins, NEW o
  PROVE  /\ s \in Sessions /\ s.word # <<>> /\ t = Shortened(s) /\ r = Repaired(t)
         /\ t.word # <<>> /\ from = FirstVowel(t.word) /\ d = Len(t.word) - from + 2
         /\ ins = SubSeq(r.word, from, Len(r.word)) /\ o = TextOf(s)
         => /\ t \in Sessions /\ r \in Sessions /\ r.word # <<>>
            /\ TextOf(t) = SubSeq(o, 1, Len(o) - 1)
            /\ d \in 0 .. Len(o) /\ ins \in Words /\ Len(ins) = d - 1
            /\ Spells(s, r, d, ins)
<1>0. SUFFICES ASSUME s \in Sessions, s.word # <<>>, t = Shortened(s), r = Repaired(t),
                      t.word # <<>>, from = FirstVowel(t.word), d = Len(t.word) - from + 2,
                      ins = SubSeq(r.word, from, Len(r.word)), o = TextOf(s)
               PROVE  /\ t \in Sessions /\ r \in Sessions /\ r.word # <<>>
                      /\ TextOf(t) = SubSeq(o, 1, Len(o) - 1)
                      /\ d \in 0 .. Len(o) /\ ins \in Words /\ Len(ins) = d - 1
                      /\ Spells(s, r, d, ins)
  OBVIOUS
<1>1. t \in Sessions /\ TextOf(t) = SubSeq(o, 1, Len(o) - 1)
  <2>1. s \in Sessions /\ s.word # <<>>  BY <1>0
  <2>2. /\ Shortened(s) \in Sessions
        /\ TextOf(Shortened(s)) = SubSeq(TextOf(s), 1, Len(TextOf(s)) - 1)
    BY <2>1, SesShortened DEF TextOf
  <2> QED  BY <1>0, <2>2, Zenon
<1>2. /\ r \in Sessions /\ r.overflow = t.overflow /\ Len(r.word) = Len(t.word)
      /\ Alike(t.word, r.word, from - 1)
  <2>1. /\ Repaired(t) \in Sessions /\ Repaired(t).overflow = t.overflow
        /\ Len(Repaired(t).word) = Len(t.word)
        /\ \A i \in 1 .. FirstVowel(t.word) - 1 : Repaired(t).word[i] = t.word[i]
    BY <1>1, SesRepaired
  <2>2. r = Repaired(t) /\ from = FirstVowel(t.word)  BY <1>0
  <2> QED  BY <2>1, <2>2, Zenon DEF Alike
<1>3. t.word \in Words /\ r.word \in Words /\ t.overflow \in Words  BY <1>1, <1>2, SesFields
<1>4. from \in 1 .. Len(t.word)
  <2>1. FirstVowel(t.word) \in 1 .. Len(t.word)  BY <1>0, <1>3, VowelsAre
  <2> QED  BY <1>0, <2>1, Zenon
<1>5. /\ Len(t.word) \in Nat /\ Len(t.overflow) \in Nat
      /\ Len(TextOf(t)) = Len(t.overflow) + Len(t.word)
  BY <1>1, TextType
<1>6. o \in Seq(Lets) /\ Len(o) \in Nat /\ o # <<>>
  <2>1. o \in Words /\ Len(o) \in Nat /\ Len(o) = Len(s.overflow) + Len(s.word)
        /\ Len(s.overflow) \in Nat /\ Len(s.word) \in Nat
    BY <1>0, TextType
  <2>2. Len(s.word) # 0
    <3>1. s.word \in Seq(Lets) /\ s.word # <<>>  BY <1>0, SesFields, WordsAre
    <3> HIDE DEF Lets
    <3> QED  BY <3>1, EmptySeq
  <2>3. Len(o) # 0
    <3>1. \A a, b \in Nat : b # 0 => a + b # 0  OBVIOUS
    <3> QED  BY <2>1, <2>2, <3>1, Zenon
  <2>4. o # <<>>
    <3>1. Len(<<>>) = 0  OBVIOUS
    <3> QED  BY <2>3, <3>1, Zenon
  <2> QED  BY <2>1, <2>4, WordsAre, Zenon
<1>7. Len(TextOf(t)) = Len(o) - 1 /\ Len(o) - 1 \in 0 .. Len(o)
  <2>1. Len(o) # 0
    <3> HIDE DEF Lets
    <3> QED  BY <1>6, EmptySeq
  <2>2. Len(o) - 1 \in 0 .. Len(o)
    <3>1. \A n \in Nat : n # 0 => n - 1 \in 0 .. n  OBVIOUS
    <3> QED  BY <1>6, <2>1, <3>1, Zenon
  <2>3. Len(SubSeq(o, 1, Len(o) - 1)) = Len(o) - 1  BY <1>6, <2>2, Cut
  <2> QED  BY <1>1, <2>2, <2>3, Zenon
<1> DEFINE k == Len(o) - d
           T == t.overflow
           W == t.word
           R == r.word
<1>8. k = Len(T) + (from - 1) /\ d \in 0 .. Len(o) /\ k \in 0 .. Len(o) - 1
  <2>2. Len(o) - 1 = Len(T) + Len(W)  BY <1>5, <1>7, Zenon
  <2>3. d = Len(W) - from + 2  BY <1>0
  <2>4. Len(T) \in Nat /\ Len(W) \in Nat /\ Len(o) \in Nat /\ from \in 1 .. Len(W)
    BY <1>4, <1>5, <1>6, Zenon
  <2>5. /\ Len(o) - (Len(W) - from + 2) = Len(T) + (from - 1)
        /\ Len(W) - from + 2 \in 0 .. Len(o)
        /\ Len(o) - (Len(W) - from + 2) \in 0 .. Len(o) - 1
    <3> HIDE DEF T, W
    <3>1. /\ Len(o) - (Len(W) - from + 2) = Len(T) + (from - 1)
          /\ Len(W) - from + 2 \in 0 .. Len(o)
          /\ Len(o) - (Len(W) - from + 2) \in 0 .. Len(o) - 1
      BY <2>2, <2>4
    <3> QED  BY <3>1, Zenon
  <2> QED  BY <2>3, <2>5, Zenon
<1>9. SubSeq(o, 1, k) = SubSeq(T \o W, 1, k)
  <2> DEFINE m == Len(o) - 1
             a == SubSeq(o, 1, m)
             z == SubSeq(o, m + 1, Len(o))
  <2>1. a \in Seq(Lets) /\ Len(a) = m /\ z \in Seq(Lets) /\ o = a \o z
    <3>1. m \in 0 .. Len(o)  BY <1>7
    <3> HIDE DEF m
    <3>2. /\ SubSeq(o, 1, m) \in Seq(Lets) /\ Len(SubSeq(o, 1, m)) = m
          /\ SubSeq(o, m + 1, Len(o)) \in Seq(Lets)
          /\ Len(SubSeq(o, m + 1, Len(o))) = Len(o) - m
          /\ o = SubSeq(o, 1, m) \o SubSeq(o, m + 1, Len(o))
      BY <1>6, <3>1, Cut, ZenonT(60)
    <3> QED  BY <3>2, Zenon
  <2>2. k \in 0 .. Len(a)  BY <1>8, <2>1, Zenon
  <2>3. T \o W = a  BY <1>1, Zenon DEF TextOf
  <2> HIDE DEF a, z, k, m
  <2>4. SubSeq(a \o z, 1, k) = SubSeq(a, 1, k)  BY <2>1, <2>2, PrefixOfFirst
  <2> QED  BY <2>1, <2>3, <2>4, Zenon
<1>10. ins \in Words /\ Len(ins) = d - 1
  <2>1. from \in 1 .. Len(r.word) + 1 /\ Len(r.word) \in Nat
    <3>1. \A n \in Nat : \A p \in 1 .. n : p \in 1 .. n + 1  OBVIOUS
    <3> QED  BY <1>2, <1>4, <1>5, <3>1, Zenon
  <2>2. SubSeq(r.word, from, Len(r.word)) \in Words
        /\ Len(SubSeq(r.word, from, Len(r.word))) = Len(r.word) - from + 1
    BY <1>3, <2>1, EndOf
  <2>3. \A n \in Nat : \A p \in 1 .. n : n - p + 1 = (n - p + 2) - 1  OBVIOUS
  <2>4. from \in 1 .. Len(t.word) /\ Len(r.word) = Len(t.word) /\ d = Len(t.word) - from + 2
        /\ ins = SubSeq(r.word, from, Len(r.word))
    BY <1>0, <1>2, <1>4
  <2> QED  BY <1>5, <2>2, <2>3, <2>4, Zenon
<1>11. Spells(s, r, d, ins)
  <2>1. T \in Seq(Lets) /\ W \in Seq(Lets) /\ R \in Seq(Lets)  BY <1>3, WordsAre, Zenon
  <2>2. Len(W) = Len(R) /\ from \in 1 .. Len(W) + 1
    <3>1. \A n \in Nat : \A p \in 1 .. n : p \in 1 .. n + 1  OBVIOUS
    <3> QED  BY <1>2, <1>4, <1>5, <3>1, Zenon
  <2>3. k = Len(T) + (from - 1)  BY <1>8
  <2>4. Alike(W, R, from - 1)  BY <1>2
  <2> HIDE DEF k, W, R, T
  <2>5. Joined(SubSeq(o, 1, k), SubSeq(R, from, Len(R)), T, R)
    BY <1>6, <1>9, <2>1, <2>2, <2>3, <2>4, Respell, Zenon
  <2>6. SubSeq(o, 1, k) \o ins = T \o R  BY <1>0, <2>5, Zenon DEF Joined, R
  <2>7. TextOf(r) = T \o R  BY <1>2, Zenon DEF TextOf, T, R
  <2> QED  BY <1>0, <2>6, <2>7, Zenon DEF Spells, k
<1>12. r.word # <<>>
  <2>1. Len(r.word) # 0
    <3>1. \A n : n \in 1 .. 0 => FALSE  OBVIOUS
    <3> QED  BY <1>2, <1>4, <3>1, Zenon
  <2>2. Len(<<>>) = 0  OBVIOUS
  <2> QED  BY <2>1, <2>2, Zenon
<1> QED  BY <1>1, <1>2, <1>8, <1>10, <1>11, <1>12, Zenon

\* The repair's edit: the account is counted as for one character erased.
LEMMA Redrawn ==
  ASSUME NEW f, NEW o, NEW d, NEW ins, NEW g
  PROVE  /\ due \in Seq(Chars) /\ account \in Nat
         /\ f \in Seq(Chars) /\ o \in Seq(Chars) /\ d \in 0 .. Len(o)
         /\ ins \in Seq(Chars) /\ g \in Seq(Chars) /\ Len(ins) = d - 1
         /\ IsSuffix(f \o o, due) /\ account >= Len(f \o o)
         /\ IsSuffix(g, f \o (SubSeq(o, 1, Len(o) - d) \o ins))
         /\ due' = Erased(Clamp(d)) \o ins /\ account' = Less(account)
         => IsSuffix(g, due') /\ account' >= Len(g)
<1>0. SUFFICES ASSUME due \in Seq(Chars), account \in Nat,
         f \in Seq(Chars), o \in Seq(Chars), d \in 0 .. Len(o),
         ins \in Seq(Chars), g \in Seq(Chars), Len(ins) = d - 1,
         IsSuffix(f \o o, due), account >= Len(f \o o),
         IsSuffix(g, f \o (SubSeq(o, 1, Len(o) - d) \o ins)),
         due' = Erased(Clamp(d)) \o ins, account' = Less(account)
      PROVE IsSuffix(g, due') /\ account' >= Len(g)
  OBVIOUS
<1>1. /\ Len(due) \in Nat /\ Len(f \o o) \in Nat /\ d <= Len(f \o o)
      /\ Len(f \o o) <= Len(due)
      /\ IsSuffix(g, SubSeq(due, 1, Len(due) - d) \o ins)
      /\ Len(g) <= Len(f \o o) - d + Len(ins)
  BY <1>0, Carried, Zenon
<1> DEFINE l == Len(f \o o)
           m == Len(g)
           n == Len(ins)
<1>2. d \in Nat /\ n \in Nat /\ m \in Nat /\ account \in Nat
  <2>1. g \in Seq(Chars) /\ ins \in Seq(Chars) /\ o \in Seq(Chars) /\ d \in 0 .. Len(o)  BY <1>0
  <2> QED  BY <1>0, <2>1
<1>3. /\ l \in Nat /\ d <= l /\ l <= Len(due) /\ account >= l /\ m <= l - d + n /\ n = d - 1
      /\ account' = Less(account) /\ due' = Erased(Clamp(d)) \o ins
  BY <1>0, <1>1
<1> HIDE DEF l, m, n
<1>4. Clamp(d) = d  BY <1>2, <1>3 DEF Clamp
<1>5. Erased(d) = SubSeq(due, 1, Len(due) - d)  BY <1>1, <1>2, <1>3 DEF Erased
<1>6. due' = SubSeq(due, 1, Len(due) - d) \o ins  BY <1>3, <1>4, <1>5, Zenon
<1>7. account' >= m  BY <1>2, <1>3 DEF Less
<1> QED  BY <1>1, <1>6, <1>7, Zenon DEF m

\* A word one letter of which is erased, and more than one letter is left.
LEMMA LetterLeft ==
  SesOk /\ EraseLetter => /\ ses \in Sessions /\ ses.word # <<>>
                          /\ Shortened(ses).word # <<>>
<1>0. SUFFICES ASSUME SesOk, EraseLetter
               PROVE  /\ ses \in Sessions /\ ses.word # <<>> /\ Shortened(ses).word # <<>>
  OBVIOUS
<1> DEFINE t == Shortened(ses)
<1>1. ses \in Sessions  BY <1>0 DEF SesOk
<1>2. Len(ses.word) > (IF ses.overflow = <<>> THEN 1 ELSE 0)  BY <1>0, Zenon DEF EraseLetter
<1>3. Len(ses.word) \in Nat  BY <1>1, TextType
<1>4. Len(ses.word) # 0 /\ (ses.overflow = <<>> => Len(ses.word) - 1 # 0)
  <2>1. \A n \in Nat : (n > 1 => n # 0 /\ n - 1 # 0) /\ (n > 0 => n # 0)  OBVIOUS
  <2>2. \A n : \A b : n > (IF b THEN 1 ELSE 0) => (b => n > 1) /\ (~b => n > 0)
    OBVIOUS
  <2>3. (ses.overflow = <<>> => Len(ses.word) > 1) /\ (ses.overflow # <<>> => Len(ses.word) > 0)
    BY <1>2, <2>2
  <2> QED  BY <1>3, <2>1, <2>3, Zenon
<1>5. Len(<<>>) = 0  OBVIOUS
<1>6. ses.word # <<>>  BY <1>4, <1>5, Zenon
<1>7. Len(t.word) = IF ses.overflow = <<>> THEN Len(ses.word) - 1 ELSE Len(ses.word)
  BY <1>1, <1>6, SesShortened
<1>8. Len(t.word) # 0
  <2> HIDE DEF t
  <2> QED  BY <1>4, <1>7, Zenon
<1> QED  BY <1>1, <1>5, <1>6, <1>8, Zenon

\* A Backspace in a word, with the repair behind it, keeps what is believed.
LEMMA EraseLetterKeeps ==
  SesOk /\ EraseLetter
  => /\ ses' \in Sessions /\ special' \in Seq({"."}) /\ spaces' \in Nat
     /\ history' \in Seq(Entries) /\ Len(history') <= MaxHistory
     /\ (special' # <<>> => spaces' = 0) /\ due' \in Seq(Chars) /\ account' \in Nat
     /\ SesOk' /\ Behind /\ Bookkeeping => Behind' /\ Bookkeeping'
<1>0. SUFFICES ASSUME SesOk, EraseLetter
      PROVE  /\ ses' \in Sessions /\ special' \in Seq({"."}) /\ spaces' \in Nat
             /\ history' \in Seq(Entries) /\ Len(history') <= MaxHistory
             /\ (special' # <<>> => spaces' = 0) /\ due' \in Seq(Chars) /\ account' \in Nat
             /\ SesOk' /\ Behind /\ Bookkeeping => Behind' /\ Bookkeeping'
  OBVIOUS
<1> DEFINE t == Shortened(ses)
           r == Repaired(t)
           from == FirstVowel(t.word)
           d == Len(t.word) - from + 2
           ins == SubSeq(r.word, from, Len(r.word))
           o == TextOf(ses)
<1>1. /\ special = <<>> /\ spaces = 0
      /\ Len(ses.word) > (IF ses.overflow = <<>> THEN 1 ELSE 0)
      /\ ses' = r
      /\ r = t => Passed
      /\ r # t => due' = Erased(Clamp(d)) \o ins /\ account' = Less(account)
      /\ special' = special /\ spaces' = spaces /\ history' = history
  BY <1>0, Zenon DEF EraseLetter
<1>2. /\ ses \in Sessions /\ special \in Seq({"."}) /\ spaces \in Nat
      /\ history \in Seq(Entries) /\ Len(history) <= MaxHistory
      /\ due \in Seq(Chars) /\ account \in Nat
  BY <1>0 DEF SesOk
<1>3. ses.word # <<>> /\ t.word # <<>>  BY <1>0, LetterLeft, Zenon
<1>4. /\ t \in Sessions /\ r \in Sessions /\ r.word # <<>>
      /\ TextOf(t) = SubSeq(o, 1, Len(o) - 1)
      /\ d \in 0 .. Len(o) /\ ins \in Words /\ Len(ins) = d - 1
      /\ Spells(ses, r, d, ins)
  BY <1>2, <1>3, EraseLetterShape, Zenon
<1>5. d \in Nat /\ ins \in Seq(Chars)
  <2>1. Len(o) \in Nat  BY <1>2, TextType
  <2> HIDE DEF d, ins, o
  <2>2. d \in Nat  BY <1>4, <2>1
  <2> QED  BY <1>4, <2>2, KeyWords
<1>6. Own = o
  <2>1. ~(spaces > 0)  BY <1>1
  <2> QED  BY <1>1, <2>1, Zenon DEF Own, OwnOf, TextOf
<1> HIDE DEF t, r, from, d, ins, o
<1>7. due' \in Seq(Chars) /\ account' \in Nat
  <2>1. CASE r = t  BY <1>1, <1>2, <2>1, PassedType
  <2>2. CASE r # t
    <3>1. due' = Erased(Clamp(d)) \o ins /\ account' = Less(account)  BY <1>1, <2>2
    <3>2. Clamp(d) \in Nat  BY <1>2, <1>5 DEF Clamp
    <3>3. Erased(Clamp(d)) \in Seq(Chars)  BY <1>2, <3>2, ErasedType
    <3>4. due' \in Seq(Chars)  BY <1>5, <3>1, <3>3, Cat
    <3>5. account' \in Nat  BY <1>2, <3>1 DEF Less
    <3> QED  BY <3>4, <3>5
  <2> QED  BY <2>1, <2>2
<1>8. ASSUME SesOk', Behind, Bookkeeping PROVE Behind' /\ Bookkeeping'
  <2>0. ~(spaces' > 0)  BY <1>1
  <2>1. Own' = TextOf(r)  BY <1>1, <2>0, Zenon DEF Own, OwnOf, TextOf
  <2>2. Believed' = FlattenSeq(history) \o TextOf(r)  BY <1>1, <2>1, BelievedIs, Zenon
  <2>3. /\ FlattenSeq(history) \in Seq(Chars) /\ o \in Seq(Chars)
        /\ Believed' \in Seq(Chars)
    BY <1>0, <1>6, <1>8, BelievedType
  <2>4. CASE r = t
    <3>1. Passed /\ TextOf(r) = SubSeq(o, 1, Len(o) - 1)  BY <1>1, <1>4, <2>4
    <3>2. Believed' = FlattenSeq(history) \o SubSeq(o, 1, Len(o) - 1)
      BY <2>2, <3>1, Zenon
    <3>3. Own # <<>>
      <4>1. Len(o) = Len(ses.overflow) + Len(ses.word) /\ Len(ses.overflow) \in Nat
            /\ Len(ses.word) \in Nat
        BY <1>2, TextType DEF o
      <4>2. Len(ses.word) # 0
        <5>1. ses.word \in Seq(Lets)  BY <1>2, SesFields, WordsAre
        <5> HIDE DEF Lets
        <5> QED  BY <1>3, <5>1, EmptySeq
      <4>3. \A a, b \in Nat : b # 0 => a + b # 0  OBVIOUS
      <4>4. Len(<<>>) = 0  OBVIOUS
      <4> QED  BY <1>6, <4>1, <4>2, <4>3, <4>4, Zenon
    <3>4. Behind'  BY <1>0, <1>6, <1>8, <3>1, <3>2, <3>3, Dropped, Zenon
    <3> QED  BY <1>1, <1>4, <2>0, <3>4, Zenon DEF Bookkeeping
  <2>5. CASE r # t
    <3>1. due' = Erased(Clamp(d)) \o ins /\ account' = Less(account)  BY <1>1, <2>5
    <3>2. Believed' = FlattenSeq(history) \o (SubSeq(o, 1, Len(o) - d) \o ins)
      BY <1>4, <2>2, Zenon DEF Spells, o
    <3>3. IsSuffix(Believed', FlattenSeq(history) \o (SubSeq(o, 1, Len(o) - d) \o ins))
      <4>1. IsSuffix(Believed', Believed')  BY <2>3, SuffixSelf
      <4> QED  BY <3>2, <4>1, Zenon
    <3>4. IsSuffix(FlattenSeq(history) \o o, due) /\ account >= Len(FlattenSeq(history) \o o)
      BY <1>6, <1>8, BelievedIs, Zenon DEF Behind
    <3>5. IsSuffix(Believed', due') /\ account' >= Len(Believed')
      BY <1>2, <1>4, <1>5, <2>3, <3>1, <3>3, <3>4, Redrawn, Zenon
    <3>6. Behind'  BY <3>5 DEF Behind
    <3> QED  BY <1>1, <1>4, <2>0, <3>6, Zenon DEF Bookkeeping
  <2> QED  BY <2>4, <2>5
<1> QED  BY <1>1, <1>2, <1>4, <1>7, <1>8, Zenon

\* Backspace keeps the invariant.
LEMMA BackspaceKeeps == SessionInv /\ Backspace => SessionInv'
<1>0. SUFFICES ASSUME SessionInv, Backspace
               PROVE  SessionInv'
  OBVIOUS
<1>1. SesOk /\ (~astray => Behind /\ Bookkeeping)  BY <1>0 DEF SessionInv
<1>2. /\ EraseSpecial \/ EraseSpace \/ EraseLast \/ EraseLetter
      /\ Stray(FALSE) /\ resyncs' = resyncs /\ jumps' = jumps /\ OnItsWay
  BY <1>0 DEF Backspace
<1>3. due \in Seq(Chars) /\ account \in Nat /\ doc \in Seq(Chars)  BY <1>1 DEF SesOk
<1>4. Passed => due' \in Seq(Chars) /\ account' \in Nat  BY <1>3, PassedType
<1>5. /\ ses' \in Sessions /\ special' \in Seq({"."}) /\ spaces' \in Nat
      /\ history' \in Seq(Entries) /\ Len(history') <= MaxHistory
      /\ (special' # <<>> => spaces' = 0) /\ due' \in Seq(Chars) /\ account' \in Nat
      /\ SesOk' /\ Behind /\ Bookkeeping => Behind' /\ Bookkeeping'
  <2>1. CASE EraseSpecial  BY <1>1, <1>4, <2>1, EraseSpecialKeeps, Zenon
  <2>2. CASE EraseSpace  BY <1>1, <1>4, <2>2, EraseSpaceKeeps, Zenon
  <2>3. CASE EraseLast  BY <1>1, <1>4, <2>3, EraseLastKeeps, Zenon
  <2>4. CASE EraseLetter  BY <1>1, <2>4, EraseLetterKeeps, Zenon
  <2> QED  BY <1>2, <2>1, <2>2, <2>3, <2>4
<1>6. SesOk'
  <2>1. doc' \in Seq(Chars)  BY <1>2, <1>3, <1>5, DocType
  <2>2. astray' \in BOOLEAN  BY <1>2, StrayMeans
  <2>3. resyncs' \in Nat /\ jumps' \in 0 .. MaxJumps /\ resyncs' <= jumps'
    BY <1>1, <1>2 DEF SesOk
  <2> QED  BY <1>5, <2>1, <2>2, <2>3 DEF SesOk
<1>7. ASSUME ~astray' PROVE Behind' /\ Bookkeeping'
  <2>1. EngineIsEmpty' \/ ~astray  BY <1>2, <1>7, StrayMeans
  <2>2. CASE EngineIsEmpty'  BY <1>6, <2>2, EmptyIsGood
  <2>3. CASE ~astray  BY <1>1, <1>5, <1>6, <2>3
  <2> QED  BY <2>1, <2>2, <2>3
<1> QED  BY <1>6, <1>7 DEF SessionInv

-----------------------------------------------------------------------------
(* The invariant of the session.                                           *)

\* The invariant holds at first.
LEMMA SessionInit == Init => SessionInv
<1>0. SUFFICES ASSUME Init PROVE SessionInv
  OBVIOUS
<1>1. /\ ses = NewSession /\ special = <<>> /\ spaces = 0 /\ history = <<>>
      /\ account = 0 /\ due = <<>> /\ doc = <<>>
      /\ resyncs = 0 /\ jumps = 0 /\ astray = FALSE
  BY <1>0 DEF Init
<1>2. <<>> \in Seq(Chars) /\ <<>> \in Seq({"."}) /\ <<>> \in Seq(Entries) /\ Len(<<>>) = 0
  OBVIOUS
<1>3. SesOk
  <2>1. ses \in Sessions  BY <1>1, SesNew
  <2>2. MaxHistory \in Nat /\ MaxJumps \in Nat  BY SessionAssumption
  <2>3. 0 \in Nat /\ 0 <= MaxHistory /\ 0 \in 0 .. MaxJumps /\ 0 <= 0  BY <2>2
  <2> QED  BY <1>1, <1>2, <2>1, <2>3, Zenon DEF SesOk
<1>4. ses.word = <<>> /\ ses.overflow = <<>> /\ ses.keys = <<>>  BY <1>1 DEF NewSession
<1>5. ~(spaces > 0)  BY <1>1
<1>6. Believed = <<>> \o (<<>> \o <<>>)
  <2>1. Own = <<>> \o <<>>  BY <1>1, <1>4, <1>5, Zenon DEF Own, OwnOf
  <2> QED  BY <1>1, <2>1, BelievedIs, FlatEmpty, Zenon
<1>7. <<>> \o (<<>> \o <<>>) = <<>>  OBVIOUS
<1>8. Behind
  <2>1. IsSuffix(<<>>, <<>>)  BY <1>2, SuffixSelf, Zenon
  <2>2. 0 >= 0  OBVIOUS
  <2> QED  BY <1>1, <1>2, <1>6, <1>7, <2>1, <2>2, Zenon DEF Behind
<1>9. Bookkeeping  BY <1>1, <1>4, <1>5 DEF Bookkeeping
<1> QED  BY <1>3, <1>8, <1>9 DEF SessionInv

\* Every step keeps the invariant.
LEMMA SessionStep == SessionInv /\ [Next]_vars => SessionInv'
<1>0. SUFFICES ASSUME SessionInv, [Next]_vars PROVE SessionInv'
  OBVIOUS
<1>1. Letters \subseteq Keys /\ Elsewhere \subseteq Seq(Chars)
  BY SessionAssumption DEF Keys
<1>2. CASE \E c \in Letters : Letter(c)
  <2>1. PICK c \in Letters : Letter(c)  BY <1>2
  <2>2. c \in Keys  BY <1>1
  <2> QED  BY <1>0, <2>1, <2>2, LetterKeeps
<1>3. CASE Jump
  <2>1. PICK text \in Elsewhere :
          Focus(text) \/ \E queued \in BOOLEAN : CaretKey(text, queued) \/ Click(text, queued)
    BY <1>3 DEF Jump
  <2>2. text \in Seq(Chars)  BY <1>1
  <2>3. CASE Focus(text)  BY <1>0, <2>2, <2>3, FocusKeeps
  <2>4. ASSUME NEW queued \in BOOLEAN, CaretKey(text, queued) \/ Click(text, queued)
        PROVE  SessionInv'
    BY <1>0, <2>2, <2>4, CaretKeyKeeps, ClickKeeps
  <2> QED  BY <2>1, <2>3, <2>4
<1>4. CASE UNCHANGED vars
  <2>1. UNCHANGED <<ses, special, spaces, history, account, due, doc, resyncs, jumps, astray>>
    BY <1>4 DEF vars
  <2>2. SesOk'
    <3>1. SesOk  BY <1>0 DEF SessionInv
    <3> QED  BY <2>1, <3>1, Zenon DEF SesOk
  <2> QED  BY <1>0, <2>1, <2>2, SameSession
<1> QED
  BY <1>0, <1>2, <1>3, <1>4, SpaceKeeps, PunctKeeps, EnterKeeps, BackspaceKeeps, LandKeeps,
     ResyncKeeps
  DEF Next

\* Whatever is typed, erased, restored, recalled or adopted, the session keeps
\* its types, the document ends in what the engine takes it to end in, and the
\* account covers that.
THEOREM SessionInvariant == Spec => []SessionInv
BY SessionInit, SessionStep, PTL DEF Spec

-----------------------------------------------------------------------------
(* What the invariant gives.                                               *)

\* The account covers the word, a mark is always offered the repair, and no
\* word begins with keys of an earlier one.
LEMMA SessionSound == SessionInv => WordIsSound
<1>0. SUFFICES ASSUME SessionInv PROVE WordIsSound
  OBVIOUS
<1>1. SesOk /\ (~astray => Behind /\ Bookkeeping)  BY <1>0 DEF SessionInv
<1>2. ses \in Sessions /\ spaces \in Nat /\ account \in Nat  BY <1>1 DEF SesOk
<1>3. /\ Len(TextOf(ses)) = Len(ses.overflow) + Len(ses.word) /\ Len(ses.overflow) \in Nat
      /\ Len(ses.word) \in Nat /\ TextOf(ses) \in Words /\ Len(TextOf(ses)) \in Nat
  BY <1>2, TextType
<1>4. AccountCoversWord
  <2>1. SUFFICES ASSUME ~astray, spaces = 0 PROVE account >= Len(ses.word)
    BY DEF AccountCoversWord
  <2>2. Behind /\ Bookkeeping /\ ~(spaces > 0)  BY <1>1, <2>1
  <2>3. CASE special # <<>>
    <3>1. ses.word = <<>>  BY <2>2, <2>3 DEF Bookkeeping
    <3>2. Len(<<>>) = 0 /\ account >= 0  BY <1>2
    <3> QED  BY <3>1, <3>2, Zenon
  <2>4. CASE special = <<>>
    <3>1. Own = TextOf(ses)  BY <2>2, <2>4, Zenon DEF Own, OwnOf, TextOf
    <3>2. FlattenSeq(history) \in Seq(Chars) /\ TextOf(ses) \in Seq(Chars)
          /\ Believed = FlattenSeq(history) \o TextOf(ses)
      <4>1. FlattenSeq(history) \in Seq(Chars) /\ Own \in Seq(Chars)  BY <1>1, BelievedType
      <4> QED  BY <3>1, <4>1, BelievedIs, Zenon
    <3>3. Len(Believed) = Len(FlattenSeq(history)) + Len(TextOf(ses))  BY <3>2, Cat, Zenon
    <3>4. Len(FlattenSeq(history)) \in Nat  BY <3>2
    <3>5. account >= Len(Believed)  BY <2>2 DEF Behind
    <3>6. \A a, b, f, o, w \in Nat : a >= f + o /\ o = b + w => a >= w  OBVIOUS
    <3> QED  BY <1>2, <1>3, <3>3, <3>4, <3>5, <3>6, ZenonT(40)
  <2> QED  BY <2>3, <2>4
<1>5. RepairGateIsSound
  <2>1. SUFFICES ASSUME HasMark(TextOf(ses)), ~ses.composed PROVE FALSE
    BY DEF RepairGateIsSound, TextOf
  <2>2. ses.word \in Seq(Keys) /\ ses.overflow \in Seq(Keys)  BY <1>2, <2>1, SesFields
  <2>3. TextOf(ses) \in Seq(Keys)  BY <2>2, Cat DEF TextOf
  <2>4. PICK p \in DOMAIN TextOf(ses) : TextOf(ses)[p] = Acute  BY <2>1 DEF HasMark
  <2>5. TextOf(ses)[p] \in Keys
    <3> DEFINE o == TextOf(ses)
    <3>1. o \in Seq(Keys) /\ p \in DOMAIN o  BY <2>3, <2>4
    <3> HIDE DEF o, Keys
    <3>2. DOMAIN o = 1 .. Len(o)  BY <3>1
    <3>3. o[p] \in Keys  BY <3>1, <3>2, ElementOfSeq
    <3> QED  BY <3>3 DEF o
  <2> QED  BY <2>4, <2>5, KeysAre
<1>6. FreshWord
  BY <1>1 DEF FreshWord, Bookkeeping
<1> QED  BY <1>4, <1>5, <1>6 DEF WordIsSound

\* What stands before the last n characters of the document stays.
Ahead(n) == \A p \in 1 .. Len(due) - n : p <= Len(due') /\ due'[p] = due[p]

\* How far back an edit may reach: the word, or one character of a Backspace.
OwnLen == IF Len(ses.overflow \o ses.word) = 0 \/ spaces > 0 \/ special # <<>> THEN 1
          ELSE Len(ses.overflow \o ses.word)

\* An erased end leaves what stands before it.
LEMMA AheadOf ==
  ASSUME NEW d, NEW n, NEW ins
  PROVE  /\ due \in Seq(Chars) /\ ins \in Seq(Chars) /\ d \in Nat /\ n \in Nat /\ d <= n
         /\ due' = Erased(d) \o ins
         => Ahead(n)
<1>0. SUFFICES ASSUME due \in Seq(Chars), ins \in Seq(Chars), d \in Nat, n \in Nat, d <= n,
                      due' = Erased(d) \o ins, NEW p \in 1 .. Len(due) - n
               PROVE  p <= Len(due') /\ due'[p] = due[p]
  BY DEF Ahead
<1>1. Len(due) \in Nat  BY <1>0
<1> DEFINE k == Len(due) - d
           a == SubSeq(due, 1, k)
<1>2. k \in 0 .. Len(due) /\ p \in 1 .. k
  <2>1. \A l, m, e \in Nat : \A q \in 1 .. l - m :
          e <= m => l - e \in 0 .. l /\ q \in 1 .. l - e /\ ~(e > l)
    OBVIOUS
  <2> QED  BY <1>0, <1>1, <2>1, Zenon
<1>3. Erased(d) = a
  <2>1. ~(d > Len(due))  BY <1>0, <1>1, <1>2
  <2> QED  BY <2>1, Zenon DEF Erased
<1>4. due \in Seq(Chars) /\ ins \in Seq(Chars) /\ due' = a \o ins  BY <1>0, <1>3, Zenon
<1>5. a \in Seq(Chars) /\ Len(a) = k /\ a[p] = due[p]
  <2>1. a \in Seq(Chars) /\ Len(a) = k
    <3> HIDE DEF k
    <3> QED  BY <1>2, <1>4, Cut
  <2>2. a[p] = due[p]
    <3> HIDE DEF k
    <3> QED  BY <1>1, <1>2, <1>4
  <2> QED  BY <2>1, <2>2
<1> HIDE DEF k, a
<1>6. Len(a \o ins) = k + Len(ins) /\ (a \o ins)[p] = a[p] /\ Len(ins) \in Nat
  <2>1. \A i \in 1 .. Len(a) : (a \o ins)[i] = a[i]
    <3> HIDE DEF Chars
    <3> QED  BY <1>4, <1>5
  <2>2. p \in 1 .. Len(a)  BY <1>2, <1>5
  <2>3. Len(a \o ins) = Len(a) + Len(ins)  BY <1>4, <1>5, Cat
  <2>4. Len(ins) \in Nat  BY <1>4
  <2> QED  BY <1>5, <2>1, <2>2, <2>3, <2>4, Zenon
<1>7. p <= k + Len(ins)  BY <1>1, <1>2, <1>6
<1> QED  BY <1>4, <1>5, <1>6, <1>7, Zenon

\* The clamp makes no deletion longer.
LEMMA ClampIs ==
  ASSUME NEW d
  PROVE  account \in Nat /\ d \in Nat => Clamp(d) \in Nat /\ Clamp(d) <= d
BY DEF Clamp

\* The present word is erased within its own length.
LEMMA OwnLenIs ==
  ASSUME NEW d
  PROVE  /\ SesOk
         => /\ OwnLen \in Nat /\ 1 <= OwnLen
            /\ d = 0 => d <= OwnLen
            /\ spaces = 0 /\ special = <<>> /\ d \in 0 .. Len(TextOf(ses)) => d <= OwnLen
<1>0. SUFFICES ASSUME SesOk
      PROVE  /\ OwnLen \in Nat /\ 1 <= OwnLen
             /\ d = 0 => d <= OwnLen
             /\ spaces = 0 /\ special = <<>> /\ d \in 0 .. Len(TextOf(ses)) => d <= OwnLen
  OBVIOUS
<1> DEFINE l == Len(TextOf(ses))
<1>1. l \in Nat
  <2>1. ses \in Sessions  BY <1>0 DEF SesOk
  <2> QED  BY <2>1, TextType
<1>2. OwnLen = IF l = 0 \/ spaces > 0 \/ special # <<>> THEN 1 ELSE l  BY DEF OwnLen, TextOf
<1> HIDE DEF l
<1>3. OwnLen \in Nat /\ 1 <= OwnLen /\ (d = 0 => d <= OwnLen)  BY <1>1, <1>2
<1>4. spaces = 0 /\ special = <<>> /\ d \in 0 .. l => d <= OwnLen  BY <1>1, <1>2
<1> QED  BY <1>3, <1>4 DEF l

\* An edit that erases no more than the word.
LEMMA AheadRetyped ==
  ASSUME NEW d, NEW ins
  PROVE  /\ SesOk /\ d \in Nat /\ d <= OwnLen /\ ins \in Seq(Chars)
         /\ due' = Erased(Clamp(d)) \o ins
         => Ahead(OwnLen)
<1>0. SUFFICES ASSUME SesOk, d \in Nat, d <= OwnLen, ins \in Seq(Chars),
                      due' = Erased(Clamp(d)) \o ins
               PROVE  Ahead(OwnLen)
  OBVIOUS
<1>1. due \in Seq(Chars) /\ account \in Nat  BY <1>0 DEF SesOk
<1>2. Clamp(d) \in Nat /\ Clamp(d) <= d  BY <1>0, <1>1, ClampIs
<1>3. OwnLen \in Nat  BY <1>0, OwnLenIs
<1>4. Clamp(d) <= OwnLen
  <2>1. \A a, b, c \in Nat : a <= b /\ b <= c => a <= c  OBVIOUS
  <2> QED  BY <1>0, <1>2, <1>3, <2>1, Zenon
<1> QED  BY <1>0, <1>1, <1>2, <1>3, <1>4, AheadOf, Zenon

\* A word that is restored is the word before the caret.
LEMMA UndoneIs ==
  SesOk /\ Bookkeeping
  => /\ Undone(Judged(ses)) \in Nat /\ Undone(Judged(ses)) <= OwnLen
     /\ Restores(Judged(ses)) => Undone(Judged(ses)) = Len(Judged(ses).word)
<1> DEFINE s == Judged(ses)
           d == Undone(s)
<1>0. SUFFICES ASSUME SesOk, Bookkeeping
               PROVE  d \in Nat /\ d <= OwnLen /\ (Restores(s) => d = Len(s.word))
  OBVIOUS
<1>1. /\ s \in Sessions /\ Judged(s) = s /\ TextOf(s) = TextOf(ses) /\ s.word = ses.word
  BY <1>0, JudgedIs
<1>2. d \in 0 .. Len(TextOf(ses)) /\ (s.word = <<>> => ~Restores(s))
  <2>1. Undone(s) \in 0 .. Len(TextOf(s)) /\ (s.word = <<>> => ~Restores(s))
    <3> HIDE DEF s
    <3> QED  BY <1>1, EndShape, Zenon
  <2> QED  BY <1>1, <2>1, Zenon
<1>3. Restores(s) => spaces = 0 /\ special = <<>>
  <2>1. spaces \in Nat  BY <1>0 DEF SesOk
  <2>2. spaces > 0 => ~Restores(s)  BY <1>0 DEF Bookkeeping
  <2>3. special # <<>> => ~Restores(s)
    <3>1. special # <<>> => ses.word = <<>>  BY <1>0 DEF Bookkeeping
    <3> QED  BY <1>1, <1>2, <3>1, Zenon
  <2>4. spaces = 0 \/ spaces > 0  BY <2>1
  <2> QED  BY <2>2, <2>3, <2>4, Zenon
<1>4. /\ Restores(s) => d = Len(s.word)
      /\ ~Restores(s) => d = 0
  BY DEF Undone
<1>5. d \in Nat
  <2>1. Len(TextOf(ses)) \in Nat
    <3>1. ses \in Sessions  BY <1>0 DEF SesOk
    <3> QED  BY <3>1, TextType
  <2> HIDE DEF d
  <2> QED  BY <1>2, <2>1
<1> HIDE DEF d, s
<1> QED  BY <1>0, <1>2, <1>3, <1>4, <1>5, OwnLenIs, Zenon

\* A letter rewrites nothing before its word.
LEMMA LetterAhead ==
  ASSUME NEW c \in Keys
  PROVE  SesOk /\ Bookkeeping /\ Letter(c) => Ahead(OwnLen)
<1>0. SUFFICES ASSUME SesOk, Bookkeeping, Letter(c) PROVE Ahead(OwnLen)
  OBVIOUS
<1>1. PICK d, ins : Retype(d, ins) /\ Forms(Base, ses', d, ins)
  <2>1. Plain(c) \/ Mark(c) \/ Unmark(c)  BY <1>0 DEF Letter
  <2> QED  BY <1>0, <2>1, LetterIsShaped
<1>2. d \in 0 .. Len(TextOf(Base)) /\ ins \in Seq(Chars) /\ Base \in Sessions
  BY <1>0, <1>1, BaseIs, KeyWords DEF Forms
<1>3. due' = Erased(Clamp(d)) \o ins  BY <1>1 DEF Retype
<1>4. d \in Nat
  <2>1. Len(TextOf(Base)) \in Nat  BY <1>2, TextType
  <2> QED  BY <1>2, <2>1
<1>5. d <= OwnLen
  <2>1. spaces \in Nat  BY <1>0 DEF SesOk
  <2>2. TextOf(Base) = <<>> => d = 0
    <3>1. Len(<<>>) = 0 /\ \A e : e \in 0 .. 0 => e = 0  OBVIOUS
    <3> QED  BY <1>2, <3>1, Zenon
  <2>3. CASE spaces > 0  BY <1>0, <2>2, <2>3, BaseIs, OwnLenIs
  <2>4. CASE ~(spaces > 0)
    <3>1. spaces = 0  BY <2>1, <2>4
    <3>2. Base = ses  BY <1>0, <3>1, BaseIs
    <3>3. CASE special # <<>>
      <4>1. ses.word = <<>> /\ ses.overflow = <<>>  BY <1>0, <3>3 DEF Bookkeeping
      <4>2. <<>> \o <<>> = <<>>  OBVIOUS
      <4>3. TextOf(Base) = <<>>  BY <3>2, <4>1, <4>2, Zenon DEF TextOf
      <4> QED  BY <1>0, <2>2, <4>3, OwnLenIs
    <3>4. CASE special = <<>>
      <4>1. d \in 0 .. Len(TextOf(ses))  BY <1>2, <3>2
      <4> QED  BY <1>0, <3>1, <3>4, <4>1, OwnLenIs, Zenon
    <3> QED  BY <3>3, <3>4
  <2> QED  BY <2>3, <2>4
<1> QED  BY <1>0, <1>2, <1>3, <1>4, <1>5, AheadRetyped, Zenon

\* A space or punctuation rewrites nothing before its word.
LEMMA WordEndAhead ==
  SesOk /\ Bookkeeping /\ (Space \/ Punct) => Ahead(OwnLen)
<1> DEFINE s == Judged(ses)
<1>0. SUFFICES ASSUME SesOk, Bookkeeping, Space \/ Punct PROVE Ahead(OwnLen)
  OBVIOUS
<1>1. Undone(s) \in Nat /\ Undone(s) <= OwnLen  BY <1>0, UndoneIs
<1>2. s \in Sessions  BY <1>0, JudgedIs
<1>3. CASE Space
  <2> DEFINE b == " "
  <2>1. Retype(Undone(s), IF Restores(s) THEN Append(s.keys, b) ELSE <<b>>)
    BY <1>3, Zenon DEF Space, Undone
  <2>2. b \in Chars  BY KeysAre
  <2> HIDE DEF s, b
  <2>3. (IF Restores(s) THEN Append(s.keys, b) ELSE <<b>>) = Redone(s) \o <<b>>
        /\ Redone(s) \o <<b>> \in Seq(Chars)
    BY <1>2, <2>2, EndText
  <2>4. due' = Erased(Clamp(Undone(s))) \o (Redone(s) \o <<b>>)  BY <2>1, <2>3, Zenon DEF Retype
  <2> QED  BY <1>0, <1>1, <2>3, <2>4, AheadRetyped, Zenon
<1>4. CASE Punct
  <2> DEFINE b == "."
  <2>1. Retype(Undone(s), IF Restores(s) THEN Append(s.keys, b) ELSE <<b>>)
    BY <1>4, Zenon DEF Punct, Undone
  <2>2. b \in Chars  BY KeysAre
  <2> HIDE DEF s, b
  <2>3. (IF Restores(s) THEN Append(s.keys, b) ELSE <<b>>) = Redone(s) \o <<b>>
        /\ Redone(s) \o <<b>> \in Seq(Chars)
    BY <1>2, <2>2, EndText
  <2>4. due' = Erased(Clamp(Undone(s))) \o (Redone(s) \o <<b>>)  BY <2>1, <2>3, Zenon DEF Retype
  <2> QED  BY <1>0, <1>1, <2>3, <2>4, AheadRetyped, Zenon
<1> QED  BY <1>0, <1>3, <1>4

\* A document that stays rewrites nothing.
LEMMA StayAhead == SesOk /\ due' = due => Ahead(OwnLen)
<1>1. ASSUME SesOk, due' = due PROVE Ahead(OwnLen)
  <2>1. Len(due) \in Nat /\ OwnLen \in Nat  BY <1>1, OwnLenIs DEF SesOk
  <2>2. \A n, m \in Nat : \A p \in 1 .. n - m : p <= n  OBVIOUS
  <2>3. \A p \in 1 .. Len(due) - OwnLen : p <= Len(due)  BY <2>1, <2>2, Zenon
  <2> QED  BY <1>1, <2>3, Zenon DEF Ahead
<1> QED  BY <1>1

\* Enter rewrites nothing before its word.
LEMMA EnterAhead == SesOk /\ Bookkeeping /\ Enter => Ahead(OwnLen)
<1> DEFINE s == Judged(ses)
           n == "\n"
<1>0. SUFFICES ASSUME SesOk, Bookkeeping, Enter PROVE Ahead(OwnLen)
  OBVIOUS
<1>1. due' = IF Restores(s) /\ (Clamp(Len(s.word)) > 0 \/ s.keys # <<>>)
               THEN Erased(Clamp(Len(s.word))) \o s.keys ELSE Append(due, n)
  BY <1>0, Zenon DEF Enter, RestoredOr
<1>2. /\ Undone(s) \in Nat /\ Undone(s) <= OwnLen /\ (Restores(s) => Undone(s) = Len(s.word))
  BY <1>0, UndoneIs
<1>3. s \in Sessions  BY <1>0, JudgedIs
<1>n. n \in Chars  BY KeysAre
<1> HIDE DEF s, n
<1>4. s.keys \in Seq(Chars)  BY <1>3, SesFields, KeyWords
<1>5. CASE Restores(s) /\ (Clamp(Len(s.word)) > 0 \/ s.keys # <<>>)
  <2>1. due' = Erased(Clamp(Undone(s))) \o s.keys  BY <1>1, <1>2, <1>5, Zenon
  <2> QED  BY <1>0, <1>2, <1>4, <2>1, AheadRetyped, Zenon
<1>6. CASE ~(Restores(s) /\ (Clamp(Len(s.word)) > 0 \/ s.keys # <<>>))
  <2>1. due' = Append(due, n)  BY <1>1, <1>6, Zenon
  <2>2. due \in Seq(Chars) /\ account \in Nat  BY <1>0 DEF SesOk
  <2>3. Erased(0) = due /\ Append(due, n) = due \o <<n>> /\ <<n>> \in Seq(Chars)
    <3>1. Len(due) \in Nat  BY <2>2
    <3>2. Erased(0) = SubSeq(due, 1, Len(due))  BY <3>1 DEF Erased
    <3>3. SubSeq(due, 1, Len(due)) = due /\ Append(due, n) = due \o <<n>> /\ <<n>> \in Seq(Chars)
      <4> HIDE DEF Chars
      <4> QED  BY <1>n, <2>2
    <3> QED  BY <3>2, <3>3, Zenon
  <2>4. due' = Erased(0) \o <<n>>  BY <2>1, <2>3, Zenon
  <2>5. 0 \in Nat /\ OwnLen \in Nat /\ 0 <= OwnLen  BY <1>0, OwnLenIs
  <2> QED  BY <2>2, <2>3, <2>4, <2>5, AheadOf, Zenon
<1> QED  BY <1>5, <1>6

\* A Backspace passed on takes one character.
LEMMA PassedAhead == SesOk /\ Passed => Ahead(OwnLen)
<1>0. SUFFICES ASSUME SesOk, Passed PROVE Ahead(OwnLen)
  OBVIOUS
<1>1. due \in Seq(Chars)  BY <1>0 DEF SesOk
<1>2. due' = Erased(1) \o <<>> /\ <<>> \in Seq(Chars)
  <2>1. Erased(1) \in Seq(Chars)  BY <1>1, ErasedType
  <2>2. Erased(1) \o <<>> = Erased(1)  BY <2>1
  <2>3. <<>> \in Seq(Chars)  OBVIOUS
  <2> QED  BY <1>0, <2>2, <2>3, Zenon DEF Passed
<1>3. 1 \in Nat /\ OwnLen \in Nat /\ 1 <= OwnLen  BY <1>0, OwnLenIs
<1> QED  BY <1>1, <1>2, <1>3, AheadOf, Zenon

\* Backspace rewrites nothing before its word but the one character.
LEMMA BackspaceAhead == SesOk /\ Backspace => Ahead(OwnLen)
<1>0. SUFFICES ASSUME SesOk, Backspace PROVE Ahead(OwnLen)
  OBVIOUS
<1>1. EraseSpecial \/ EraseSpace \/ EraseLast \/ EraseLetter  BY <1>0 DEF Backspace
<1>2. CASE EraseSpecial \/ EraseSpace \/ EraseLast
  <2>1. Passed  BY <1>2 DEF EraseSpecial, EraseSpace, EraseLast
  <2> QED  BY <1>0, <2>1, PassedAhead
<1>3. CASE EraseLetter
  <2> DEFINE t == Shortened(ses)
             r == Repaired(t)
             from == FirstVowel(t.word)
             d == Len(t.word) - from + 2
             ins == SubSeq(r.word, from, Len(r.word))
             o == TextOf(ses)
  <2>1. /\ special = <<>> /\ spaces = 0
        /\ r = t => Passed
        /\ r # t => due' = Erased(Clamp(d)) \o ins
    BY <1>3, Zenon DEF EraseLetter
  <2>2. ses \in Sessions /\ ses.word # <<>> /\ t.word # <<>>  BY <1>0, <1>3, LetterLeft
  <2>3. /\ t \in Sessions /\ r \in Sessions /\ r.word # <<>>
        /\ TextOf(t) = SubSeq(o, 1, Len(o) - 1)
        /\ d \in 0 .. Len(o) /\ ins \in Words /\ Len(ins) = d - 1
        /\ Spells(ses, r, d, ins)
    BY <2>2, EraseLetterShape, ZenonT(40)
  <2>4. d \in Nat /\ d <= OwnLen /\ ins \in Seq(Chars)
    <3>1. Len(o) \in Nat  BY <2>2, TextType
    <3>2. d <= OwnLen
      <4> HIDE DEF d
      <4> QED  BY <1>0, <2>1, <2>3, OwnLenIs, Zenon DEF o
    <3> HIDE DEF d, ins, o
    <3>3. d \in Nat  BY <2>3, <3>1
    <3> QED  BY <2>3, <3>2, <3>3, KeyWords
  <2> HIDE DEF t, r, from, d, ins, o
  <2>5. CASE r = t  BY <1>0, <2>1, <2>5, PassedAhead
  <2>6. CASE r # t  BY <1>0, <2>1, <2>4, <2>6, AheadRetyped, Zenon
  <2> QED  BY <2>5, <2>6
<1> QED  BY <1>1, <1>2, <1>3

\* No step of an engine not led astray rewrites what stands before its word.
LEMMA StepsAhead ==
  SessionInv /\ ~astray /\ [Next]_vars /\ (jumps' = jumps \/ Enter) => Ahead(OwnLen)
<1>0. SUFFICES ASSUME SessionInv, ~astray, [Next]_vars, jumps' = jumps \/ Enter
               PROVE  Ahead(OwnLen)
  OBVIOUS
<1>1. SesOk /\ Bookkeeping  BY <1>0 DEF SessionInv
<1>2. CASE Enter  BY <1>1, <1>2, EnterAhead
<1>3. CASE \E c \in Letters : Letter(c)
  <2>1. PICK c \in Letters : Letter(c)  BY <1>3
  <2>2. c \in Keys  BY SessionAssumption DEF Keys
  <2> QED  BY <1>1, <2>1, <2>2, LetterAhead
<1>4. CASE Jump /\ ~Enter
  <2>1. CountJump  BY <1>4 DEF Jump, Focus, CaretKey, Click
  <2>2. jumps' = jumps + 1 /\ jumps \in Nat  BY <1>1, <2>1 DEF CountJump, SesOk
  <2> QED  BY <1>0, <1>4, <2>2
<1>5. CASE Land \/ Resync \/ UNCHANGED vars
  <2>1. due' = due  BY <1>5 DEF Land, Resync, vars
  <2> QED  BY <1>1, <2>1, StayAhead
<1> QED
  BY <1>0, <1>1, <1>2, <1>3, <1>4, <1>5, WordEndAhead, BackspaceAhead DEF Next

\* The document ends in what the engine takes it to end in (typingStates_, spaceCount_,
\* specialChar_ and the word of TextEngine.cpp) as long as nothing led it astray, for
\* any sizes of the buffers, any text elsewhere and any number of jumps.
THEOREM MirrorHolds == Spec => []Mirror
<1>1. SessionInv => Mirror  BY DEF SessionInv, Behind, Mirror
<1> QED  BY <1>1, SessionInvariant, PTL

\* The account that clamps deletions covers the word, a word with a mark is never
\* skipped by the repair, and no word begins with the keys of an earlier one
\* (visibleAccount_, wordHasTransform_ and keyStates_ of TextEngine.cpp).
THEOREM WordIsAlwaysSound == Spec => []WordIsSound
BY SessionInvariant, SessionSound, PTL

\* The session keeps its types: no buffer grows beyond its size, no entry of the
\* history is empty, and a resync is queued for a jump only.
THEOREM SessionTypes == Spec => []TypeOK
<1>1. SessionInv => TypeOK  BY TypedImpliesTypeOK DEF SessionInv
<1> QED  BY <1>1, SessionInvariant, PTL

\* A key never rewrites what stands before the present word: no edit of mainKeyBranch,
\* spaceBranch, wordBreakBranch or backspaceBranch of TextEngine.cpp reaches further
\* back than the word, or the one character of a Backspace.
THEOREM EditsStay == Spec => EditsStayInWord
<1> DEFINE Keeps == ((jumps' = jumps \/ Enter) /\ ~astray) => Ahead(OwnLen)
<1>1. SessionInv /\ [Next]_vars => [Keeps]_vars  BY StepsAhead
<1>2. Keeps => (((jumps' = jumps \/ Enter) /\ ~astray) =>
       LET own == Len(ses.overflow \o ses.word)
           kept == Len(due) - (IF own = 0 \/ spaces > 0 \/ special # <<>> THEN 1 ELSE own)
       IN  \A p \in 1..kept : p <= Len(due') /\ due'[p] = due[p])
  BY Zenon DEF Ahead, OwnLen
<1> QED  BY <1>1, <1>2, SessionInvariant, PTL DEF Spec, EditsStayInWord
=============================================================================

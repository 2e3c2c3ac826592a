---- MODULE SettingsLayout ----
(***************************************************************************)
(* The layout of the settings dialog: a solver that measures the texts of  *)
(* the page's rows and plans rows, window and scroll range; a scroll       *)
(* position; and the monitor, whose scale and work area may change.  Rows  *)
(* are planned from the rectangles they were authored with, in 96-dpi      *)
(* pixels, and moved by the scroll offset.                                 *)
(*                                                                         *)
(* A page here is one column of rows.  Windows shows or hides a standard   *)
(* scroll bar as soon as its range says so (SetScrollInfo), and the bar    *)
(* takes its width from the client area.                                   *)
(***************************************************************************)
EXTENDS Integers, Sequences, TLC, FiniteSetsExt

CONSTANTS
    Rows,          \* the rows of all pages
    PageOf,        \* row -> page
    Design,        \* row -> [y, h, w], as authored at 96 dpi
    Growing,       \* rows whose text changes
    Widths,        \* widths of text such a row may show, 96-dpi pixels
    Strip,         \* width of the labels of the tab strip
    Frame,         \* [tab, strip, band, margin, line, bar, width, height, least]: sizes
    Monitors,      \* [dpi, work]: scale, and the client height its work area allows
    MaxChanges     \* bound: changes of texts and monitors

VARIABLES
    job,           \* what the UI thread still has to do for the message it handles
    d,             \* the dialog, a record; [open |-> FALSE] when there is none
    monitor,       \* the monitor it is, or will be, on
    asked,         \* g_settingsRowGrowthSeen
    authored96,    \* g_pageAuthored96
    settled,       \* ghost: nothing changed since the last solve
    layoutChanges

layoutVars == <<job, d, monitor, asked, authored96, settled, layoutChanges>>

Pages == {PageOf[r] : r \in Rows}
RowsOf(t) == {r \in Rows : PageOf[r] = t}

-----------------------------------------------------------------------------
(* ok::layout, the pure part                                               *)

Least(a, b) == IF a < b THEN a ELSE b
Most(a, b) == IF a > b THEN a ELSE b
clamp(v, lo, hi) == Most(lo, Least(v, hi))
UpTo(a, b) == (a + b - 1) \div b                            \* a / b, rounded up

dpiScalePx(px, dpi) == (px * dpi + 48) \div 96              \* px >= 0
scaleTo96Px(px, dpi) == (px * 96 + dpi \div 2) \div dpi     \* px >= 0
pageTopShiftPx(authoredTop, viewportTop) == Most(0, viewportTop - authoredTop)
clampPageChildWidth(r, left, limit) ==
    [r EXCEPT !.w = IF limit > left THEN Least(@, limit - left) ELSE @]
tabHeightForClient(top, bottom, band) == Most(0, bottom - top - band)
rowNeedsReflow(h, need) == need > h + 2
shouldRequestReflow(last, need) == need > last + 2

\* One row, or as many as the labels need, up to three.
planTabs(labels, room) == IF labels <= room THEN 1 ELSE Least(3, UpTo(labels, room))

\* autoFit: a row grows to its text, the rows below it move down by what it
\* grew, and a row that has room is widened to show its text in one line.
autoFit(rects, required, single, left, right) ==
    LET growth(r) == Most(0, required[r] - rects[r].h)
        above(r) == {q \in RowsOf(PageOf[r]) \ {r} : rects[q].y <= rects[r].y}
    IN [r \in Rows |->
         [y |-> rects[r].y + MapThenSumSet(growth, above(r)),
          h |-> Most(rects[r].h, required[r]),
          w |-> Most(rects[r].w, Least(single[r], right - left))]]

\* The client height the window gets: what the content wants, within the work area.
refitWindow(client, viewBottom, contentBottom, work) ==
    Least(client + Most(0, contentBottom - viewBottom), Most(work, Frame.least))

-----------------------------------------------------------------------------
(* The solver, from the authored rectangles a.                             *)

ClientW(e) == dpiScalePx(Frame.width, e.dpi) - (IF e.bar THEN Frame.bar ELSE 0)
Margin(e) == dpiScalePx(Frame.margin, e.dpi)
TabW(e) == ClientW(e) - 2 * Margin(e)
LimitRight(e) == ClientW(e) - Margin(e)

Scaled(r, dpi) == [y |-> dpiScalePx(r.y, dpi), h |-> dpiScalePx(r.h, dpi),
                   w |-> dpiScalePx(r.w, dpi)]

\* DrawText: the height of a row's text in a width.
TextHeight(e, r, w) ==
    UpTo(dpiScalePx(e.text[r], e.dpi), Most(1, w)) * dpiScalePx(Frame.line, e.dpi)

\* The strip of tabs takes one line or more, and the pages begin below it.
PageTop(e) ==
    dpiScalePx(Frame.tab, e.dpi)
    + planTabs(dpiScalePx(Strip, e.dpi), e.tabW) * dpiScalePx(Frame.strip, e.dpi)

\* The rows as authored, narrowed to the client and moved below the strip.
Input(e, a) ==
    LET narrow == [r \in Rows |-> clampPageChildWidth(Scaled(a[r], e.dpi), Margin(e), LimitRight(e))]
        shift(t) == pageTopShiftPx(Min({narrow[r].y : r \in RowsOf(t)}), PageTop(e))
    IN [r \in Rows |-> [narrow[r] EXCEPT !.y = @ + shift(PageOf[r])]]

\* measureSingleLineWidthPx: the width of its text in one line.
SingleWidth(e, r) == dpiScalePx(e.text[r], e.dpi)

Plan(e, input) ==
    autoFit(input, [r \in Rows |-> TextHeight(e, r, input[r].w)],
            [r \in Rows |-> SingleWidth(e, r)], Margin(e), Margin(e) + e.tabW)

\* The latch and the style bit of the window are set together.
settingsApplyScrollbarLatch(e, wants) == [e EXCEPT !.enabled = wants, !.bar = wants]

\* Windows shows the bar exactly while the range it is given is not empty, and
\* the latch follows what the window says.
SetScrollInfo(e) == [e EXCEPT !.bar = e.range > 0]
settingsAdoptScrollbarVisibility(e) ==
    IF e.bar # e.enabled THEN settingsApplyScrollbarLatch(e, e.bar) ELSE e

\* settingsScrollSetTab: the page on screen, at its top.
settingsScrollSetTab(e, t) ==
    settingsAdoptScrollbarVisibility(SetScrollInfo(
        [e EXCEPT !.tab = t, !.range = Most(0, e.depth[t] - e.viewBottom),
                  !.offset = 0, !.live = e.solved]))

\* The window, the tab control and the viewport around the plan.  The bar that was
\* planned is corrected when the final viewport says otherwise.
Refit(e) ==
    LET scaled(px) == dpiScalePx(px, e.dpi)
        bottom == scaled(Frame.tab) + e.tabH
        depth == [t \in Pages |->
                    Max({PageTop(e)} \cup {e.solved[r].y + e.solved[r].h : r \in RowsOf(t)})]
        client == refitWindow(e.client, bottom, Max({bottom} \cup {depth[t] : t \in Pages}),
                              monitor.work)
        intended == e.tabH + client - e.client
        fits == tabHeightForClient(scaled(Frame.tab), client, scaled(Frame.band))
        tabH == IF fits > 0 THEN Least(intended, fits) ELSE intended
        viewBottom == Least(scaled(Frame.tab) + tabH, client)
        bar == \E t \in Pages : depth[t] > viewBottom
    IN [e EXCEPT !.client = client, !.tabH = tabH, !.tabW = TabW([e EXCEPT !.bar = bar]),
                 !.top = PageTop(e), !.viewBottom = viewBottom, !.depth = depth]

\* applySettingsScrollOffset: every row moves, none is resized.
ScrolledTo(e, offset) ==
    [e EXCEPT !.offset = offset, !.live = [r \in Rows |-> [e.solved[r] EXCEPT !.y = @ - offset]]]

\* What a message handler of the UI thread still has to do.
Rest == [at |-> "rest"]
Solve(solves, keep) == [at |-> "input", pass |-> 0, solves |-> solves, keep |-> keep]

\* solveSettingsLayout: the input, the plan, the window around it; once more when
\* this left another width than the rows were measured with.
SolveInput ==
    /\ job.at = "input"
    /\ job' = [job EXCEPT !.at = "plan"] @@ [tabW |-> d.tabW, limit |-> LimitRight(d)]
    /\ d' = [d EXCEPT !.solved = Input(d, authored96)]
    /\ UNCHANGED <<monitor, asked, authored96, settled, layoutChanges>>

SolvePlan ==
    /\ job.at = "plan"
    /\ job' = [job EXCEPT !.at = "refit"]
    /\ d' = [d EXCEPT !.solved = Plan(d, d.solved)]
    /\ UNCHANGED <<monitor, asked, authored96, settled, layoutChanges>>

SolveRefit ==
    /\ job.at = "refit"
    /\ job' = [job EXCEPT !.at = "top"]
    /\ d' = Refit(d)
    /\ UNCHANGED <<monitor, asked, authored96, settled, layoutChanges>>

SolveEnds ==
    /\ job.at = "top"
    /\ d' = settingsScrollSetTab(d, d.tab)
    /\ job' = CASE job.pass = 0 /\ (d.tabW # job.tabW \/ LimitRight(d') # job.limit) ->
                     [Solve(job.solves, job.keep) EXCEPT !.pass = 1]
                [] OTHER -> IF job.solves > 1 THEN Solve(job.solves - 1, job.keep)
                            ELSE [at |-> "restore", keep |-> job.keep]
    /\ UNCHANGED <<monitor, asked, authored96, settled, layoutChanges>>

\* reflowSettingsLayoutPreservingScroll puts the user back, as far as it goes.
\* Mutant: the old offset is kept although the page became shorter.
BadRestore ==
    /\ job.at = "restore"
    /\ job' = Rest /\ settled' = TRUE
    /\ d' = ScrolledTo(d, job.keep)
    /\ UNCHANGED <<monitor, asked, authored96, layoutChanges>>
Restore ==
    /\ job.at = "restore"
    /\ job' = Rest /\ settled' = TRUE
    /\ d' = ScrolledTo(d, clamp(job.keep, 0, d.range))
    /\ UNCHANGED <<monitor, asked, authored96, layoutChanges>>

-----------------------------------------------------------------------------

LayoutInit ==
    /\ d = [open |-> FALSE] /\ job = Rest
    /\ monitor \in Monitors
    /\ asked = [r \in Rows |-> 0]
    /\ authored96 = <<>>
    /\ settled = TRUE /\ layoutChanges = 0

\* rememberAuthoredPageRect: the first rectangle the solver sees of a row.
Remembered(live, dpi) ==
    IF authored96 # <<>> THEN authored96
    ELSE [r \in Rows |-> [y |-> scaleTo96Px(live[r].y, dpi), h |-> scaleTo96Px(live[r].h, dpi),
                          w |-> scaleTo96Px(live[r].w, dpi)]]

\* WM_CREATE: the rows are created at the monitor's scale and solved; the dialog
\* opens on a page chosen by the caller.
Create ==
    /\ ~d.open
    /\ \E words \in [Growing -> Widths], t \in Pages :
         LET dpi == monitor.dpi
             live == [r \in Rows |-> Scaled(Design[r], dpi)]
         IN /\ authored96' = Remembered(live, dpi)
            /\ d' = [open |-> TRUE, dpi |-> dpi, tab |-> t, live |-> live, solved |-> live,
                     text |-> [r \in Rows |-> IF r \in Growing THEN words[r] ELSE Design[r].w],
                     client |-> dpiScalePx(Frame.height, dpi),
                     tabH |-> dpiScalePx(Frame.height - Frame.tab - Frame.band, dpi),
                     tabW |-> dpiScalePx(Frame.width - 2 * Frame.margin, dpi),
                     depth |-> [p \in Pages |-> 0], viewBottom |-> 0, top |-> 0,
                     offset |-> 0, range |-> 0, bar |-> FALSE, enabled |-> FALSE]
    /\ job' = Solve(1, 0)
    /\ UNCHANGED <<monitor, asked, settled, layoutChanges>>

showTab ==
    /\ d.open /\ job = Rest
    /\ \E t \in Pages \ {d.tab} : d' = settingsScrollSetTab(d, t)
    /\ UNCHANGED <<job, monitor, asked, authored96, settled, layoutChanges>>

\* settingsLayoutSelfCheckLiveUtf8, for a report and when the dialog closes: every
\* page is shown to be measured, and the user's own again, at its top.
SelfCheck ==
    /\ d.open /\ job = Rest
    /\ d' = settingsScrollSetTab(d, d.tab)
    /\ UNCHANGED <<job, monitor, asked, authored96, settled, layoutChanges>>

\* comboWheelProc: Windows resized a combo box after the solve; the row takes its
\* planned size again in a solve of its own.
ComboResized ==
    /\ d.open /\ job = Rest
    /\ job' = Solve(1, d.offset)
    /\ UNCHANGED <<d, monitor, asked, authored96, settled, layoutChanges>>

\* WM_VSCROLL and WM_MOUSEWHEEL: a line, three, a page, an end, or where the thumb
\* was dropped; nothing without a bar.
Scroll ==
    /\ d.open /\ job = Rest
    /\ d.enabled /\ d.range > 0
    /\ LET line == dpiScalePx(16, d.dpi)
           page == Most(1, d.viewBottom - d.top)
       IN \E by \in {line, 3 * line, page}, to \in {-1, 1} :
            \/ d' = ScrolledTo(d, clamp(d.offset + to * by, 0, d.range))
            \/ d' = ScrolledTo(d, IF to = 1 THEN d.range ELSE d.range \div 2)
    /\ UNCHANGED <<job, monitor, asked, authored96, settled, layoutChanges>>

\* WM_TIMER: a row shows another text, asks for a reflow when it needs more height
\* than it ever asked for, and gets it at the end of the tick.
Tick ==
    /\ d.open /\ job = Rest /\ layoutChanges < MaxChanges
    /\ layoutChanges' = layoutChanges + 1
    /\ \E r \in Growing, w \in Widths :
         LET e == [d EXCEPT !.text = [d.text EXCEPT ![r] = w]]
             need == TextHeight(e, r, d.live[r].w) + 4
             outgrown == rowNeedsReflow(d.live[r].h, need)
             asks == outgrown /\ shouldRequestReflow(asked[r], need)
         IN /\ d' = e
            /\ asked' = [asked EXCEPT ![r] = IF asks THEN need ELSE IF outgrown THEN @ ELSE 0]
            /\ job' = IF asks THEN Solve(1, d.offset) ELSE Rest
            /\ settled' = (settled /\ w = d.text[r])
    /\ UNCHANGED <<monitor, authored96>>

\* What was planned is dropped with the scroll state that belongs to it.
dropSettingsLayoutBaseline(e) ==
    settingsApplyScrollbarLatch(
        [e EXCEPT !.depth = [t \in Pages |-> 0], !.viewBottom = 0, !.top = 0,
                  !.offset = 0, !.range = 0], FALSE)

\* applySettingsDpiScale: every child is scaled in place.
Rescaled(e, dpi) ==
    LET scale(v) == (v * dpi) \div e.dpi
    IN dropSettingsLayoutBaseline(
         [e EXCEPT !.dpi = dpi, !.client = scale(@), !.tabH = scale(@), !.tabW = scale(@)])

\* WM_DPICHANGED, with the size Windows suggests, solves twice; a display change
\* that keeps the scale moves nothing.
ChangeMonitor ==
    /\ job = Rest /\ layoutChanges < MaxChanges
    /\ layoutChanges' = layoutChanges + 1
    /\ \E m \in Monitors \ {monitor} :
         /\ monitor' = m
         /\ IF d.open /\ d.dpi # m.dpi
            THEN d' = Rescaled(d, m.dpi) /\ job' = Solve(2, 0) /\ UNCHANGED settled
            ELSE UNCHANGED <<d, job>> /\ settled' = (settled /\ ~d.open)
    /\ UNCHANGED <<asked, authored96>>

\* WM_DESTROY: the authored rectangles stay.
Close ==
    /\ d.open /\ job = Rest
    /\ d' = [open |-> FALSE] /\ asked' = [r \in Rows |-> 0] /\ settled' = TRUE
    /\ UNCHANGED <<job, monitor, authored96, layoutChanges>>

LayoutNext ==
    \/ Create \/ showTab \/ SelfCheck \/ Scroll \/ Tick \/ ComboResized
    \/ ChangeMonitor \/ Close
    \/ SolveInput \/ SolvePlan \/ SolveRefit \/ SolveEnds \/ Restore

-----------------------------------------------------------------------------
(* Properties                                                              *)

AtRest == d.open /\ job = Rest

\* Whatever was scrolled, rescaled and planned again, rows are where the last
\* plan and the scroll offset put them: no page drifts out of its viewport.
PageWhereSolved ==
    AtRest => \A r \in Rows : d.live[r] = [d.solved[r] EXCEPT !.y = @ - d.offset]

\* Every pixel of the page on screen can be scrolled to, with a bar to do it.
EveryPixelReachable ==
    AtRest => /\ d.offset \in 0..d.range
              /\ d.enabled = d.bar /\ (d.range > 0 => d.bar)
              /\ \A r \in RowsOf(d.tab) :
                   d.solved[r].y >= d.top /\ d.solved[r].y + d.solved[r].h - d.range <= d.viewBottom

\* After a solve no row covers another one and each is high enough for its text.
RowsFit ==
    (AtRest /\ settled) =>
        \A r \in Rows :
            /\ d.solved[r].h >= TextHeight(d, r, d.solved[r].w)
            /\ \A q \in RowsOf(PageOf[r]) \ {r} :
                 \/ d.solved[r].y + d.solved[r].h <= d.solved[q].y
                 \/ d.solved[q].y + d.solved[q].h <= d.solved[r].y

\* The authored rectangles are the design, at whatever scale they were seen first.
AuthoredIsDesign == authored96 # <<>> => authored96 = Design

LayoutSound == PageWhereSolved /\ EveryPixelReachable /\ RowsFit /\ AuthoredIsDesign

\* A row of the page on screen ends before the dialog's right margin: "appearing
\* requires an overflowing current tab and such a tab forces the solve to keep
\* the bar" (settingsAdoptScrollbarVisibility).
RowsInsideClient ==
    (AtRest /\ settled) =>
        \A r \in RowsOf(d.tab) : Margin(d) + d.solved[r].w <= LimitRight(d)
====

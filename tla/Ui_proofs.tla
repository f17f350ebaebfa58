----------------------------- MODULE Ui_proofs -----------------------------
(***************************************************************************)
(* Theorems about Ui for any commands, verbs, letters and entities: level, *)
(* tab and dialogs fit together whatever keys are pressed, Esc closes one  *)
(* thing at a time, the palette follows its query and the screen the data. *)
(***************************************************************************)
EXTENDS Ui, SequenceTheorems, FiniteSetTheorems, TLAPS

Level(f) == IF f.level = "Modal" THEN f.preLevel ELSE f.level
On(f) == IF f.level = "Modal" THEN f.preOn ELSE f.on

FocusType ==
  [level : {"Dashboard", "Widget", "Drill", "Modal"}, on : Widgets \union {None},
   drilled : Widgets \union {None}, preLevel : {"Dashboard", "Widget", "Drill"},
   preOn : Widgets \union {None}]

\* The controller, by itself, on tab t.
Fits(f, t) ==
  /\ f \in FocusType
  /\ Level(f) = "Dashboard" <=> On(f) = None
  /\ Level(f) # "Dashboard" => t = 0
  /\ f.drilled = IF Level(f) = "Drill" THEN On(f) ELSE None

Dialogs ==
  /\ palette.open \in BOOLEAN /\ help \in BOOLEAN
  /\ focus.level = "Modal" => palette.open \/ help
  /\ palette.open => focus.level = "Modal" /\ ~help

Coherence == Fits(focus, tab) /\ Dialogs /\ DOMAIN palette = {"open", "query", "results", "selected"}

LEMMA CoherenceImpliesFocus == Coherence => FocusCoherent
BY DEF Coherence, Fits, Dialogs, Level, On, FocusType, FocusCoherent, Widgets, None

-----------------------------------------------------------------------------
(* The controller                                                           *)

LEMMA NoFocusFits == ASSUME NEW t PROVE Fits(NoFocus, t)
BY DEF NoFocus, Fits, FocusType, Level, On, None, Widgets

LEMMA AlongIsWidget ==
  ASSUME NEW w \in Widgets, NEW n \in {1, -1}
  PROVE  Along(w, n) \in Widgets
<1> DEFINE i == CHOOSE i \in DOMAIN kTabOrder : kTabOrder[i] = w
<1>1. i \in 1 .. 4
  BY DEF Widgets, kTabOrder
<1>2. Len(kTabOrder) = 4
  BY DEF kTabOrder
<1> HIDE DEF i
<1>3. ((i - 1 + n + 4) % 4) + 1 \in 1 .. 4
  BY <1>1
<1>4. \A j \in 1 .. 4 : kTabOrder[j] \in Widgets
  BY DEF kTabOrder, Widgets
<1> QED BY <1>2, <1>3, <1>4 DEF Along, i

LEMMA BesideIsWidget ==
  ASSUME NEW w \in Widgets, NEW way
  PROVE  Beside(w, way) \in Widgets
<1> DEFINE at == CHOOSE rc \in {1, 2} \X {1, 2} : kGrid[rc[1]][rc[2]] = w
<1>1. \E rc \in {1, 2} \X {1, 2} : kGrid[rc[1]][rc[2]] = w
  <2>1. /\ <<1, 1>> \in {1, 2} \X {1, 2} /\ <<1, 2>> \in {1, 2} \X {1, 2}
        /\ <<2, 1>> \in {1, 2} \X {1, 2} /\ <<2, 2>> \in {1, 2} \X {1, 2}
    OBVIOUS
  <2>2. /\ kGrid[1][1] = "NetWorth" /\ kGrid[1][2] = "CashFlow"
        /\ kGrid[2][1] = "RecentActivity" /\ kGrid[2][2] = "SyncStatus"
    BY DEF kGrid
  <2> QED BY <2>1, <2>2 DEF Widgets
<1>2. at \in {1, 2} \X {1, 2}
  BY <1>1
<1> HIDE DEF at
<1>3. \A a, b \in {1, 2} : kGrid[a][b] \in Widgets
  BY DEF kGrid, Widgets
<1>4. at[1] \in {1, 2} /\ at[2] \in {1, 2} /\ 3 - at[1] \in {1, 2} /\ 3 - at[2] \in {1, 2}
  BY <1>2
<1> QED BY <1>3, <1>4 DEF Beside, at

LEMMA DialogFits ==
  ASSUME NEW f, NEW t, Fits(f, t)
  PROVE  /\ Fits(EnterModal(f), t) /\ EnterModal(f).level = "Modal"
         /\ Level(EnterModal(f)) = Level(f)
         /\ Fits(ExitModal(f), t) /\ ExitModal(f).level # "Modal"
         /\ Level(ExitModal(f)) = Level(f)
<1>1. CASE f.level = "Modal"
  <2> DEFINE g == [f EXCEPT !.level = f.preLevel, !.on = f.preOn]
  <2>1. EnterModal(f) = f /\ ExitModal(f) = g
    BY <1>1 DEF EnterModal, ExitModal
  <2>2. /\ g \in FocusType /\ g.level = f.preLevel /\ g.on = f.preOn /\ g.drilled = f.drilled
        /\ g.level # "Modal"
    BY DEF Fits, FocusType
  <2> HIDE DEF g
  <2> QED BY <1>1, <2>1, <2>2 DEF Fits, Level, On
<1>2. CASE f.level # "Modal"
  <2> DEFINE g == [f EXCEPT !.level = "Modal", !.on = None, !.preLevel = f.level, !.preOn = f.on]
  <2>1. EnterModal(f) = g /\ ExitModal(f) = f
    BY <1>2 DEF EnterModal, ExitModal
  <2>2. /\ g \in FocusType /\ g.level = "Modal" /\ g.preLevel = f.level /\ g.preOn = f.on
        /\ g.drilled = f.drilled
    BY <1>2 DEF Fits, FocusType
  <2> HIDE DEF g
  <2> QED BY <1>2, <2>1, <2>2 DEF Fits, Level, On
<1> QED BY <1>1, <1>2

LEMMA KeyFits ==
  ASSUME NEW f, NEW k, Fits(f, 0), Claims(f, k)
  PROVE  /\ Fits(HandleKey(f, k), 0)
         /\ HandleKey(f, k).level # "Modal"
         /\ f.level # "Modal"
<1>0. f.level \in {"Dashboard", "Widget", "Drill"} /\ f \in FocusType
  BY DEF Claims, Fits, FocusType, Moves
<1>1. CASE k = "Esc"
  <2>1. CASE f.level = "Drill"
    <3> DEFINE g == [f EXCEPT !.level = "Widget", !.on = f.drilled, !.drilled = None]
    <3>1. HandleKey(f, k) = g
      BY <1>1, <2>1 DEF HandleKey
    <3>2. f.drilled = f.on /\ f.on # None
      BY <2>1 DEF Fits, Level, On
    <3>3. /\ g \in FocusType /\ g.level = "Widget" /\ g.on = f.on /\ g.drilled = None
      BY <1>0, <3>2 DEF FocusType
    <3> HIDE DEF g
    <3> QED BY <2>1, <3>1, <3>2, <3>3 DEF Fits, Level, On
  <2>2. CASE f.level = "Widget"
    <3> DEFINE g == [f EXCEPT !.level = "Dashboard", !.on = None]
    <3>1. HandleKey(f, k) = g
      BY <1>1, <2>2 DEF HandleKey
    <3>2. f.drilled = None
      BY <2>2 DEF Fits, Level, On
    <3>3. g \in FocusType /\ g.level = "Dashboard" /\ g.on = None /\ g.drilled = None
      BY <1>0, <3>2 DEF FocusType
    <3> HIDE DEF g
    <3> QED BY <2>2, <3>1, <3>3 DEF Fits, Level, On
  <2>3. f.level \in {"Drill", "Widget"}
    BY <1>1 DEF Claims, Moves
  <2> QED BY <2>1, <2>2, <2>3
<1>2. CASE k \in {"Tab", "BackTab"}
  <2>1. PICK w \in Widgets : HandleKey(f, k) = [f EXCEPT !.level = "Widget", !.on = w]
    <3>1. f.on # None => f.on \in Widgets
      BY <1>0 DEF FocusType
    <3>2. kTabOrder[1] \in Widgets /\ Last(kTabOrder) \in Widgets
      BY DEF kTabOrder, Widgets, Last
    <3>3. k = "Tab" => HandleKey(f, k) = [f EXCEPT !.level = "Widget",
                        !.on = IF f.on = None THEN kTabOrder[1] ELSE Along(f.on, 1)]
      BY DEF HandleKey
    <3>4. k = "BackTab" => HandleKey(f, k) = [f EXCEPT !.level = "Widget",
                        !.on = IF f.on = None THEN Last(kTabOrder) ELSE Along(f.on, -1)]
      BY DEF HandleKey
    <3> QED BY <1>2, <3>1, <3>2, <3>3, <3>4, AlongIsWidget
  <2>2. f.level \in {"Dashboard", "Widget"}
    BY <1>0, <1>2 DEF Claims, Moves
  <2> QED BY <1>0, <2>1, <2>2 DEF Fits, FocusType, Level, On, None, Widgets
<1>3. CASE k \in DOMAIN Moves /\ f.level = "Widget" /\ k \notin {"Esc", "Tab", "BackTab"}
  <2>1. f.on \in Widgets
    BY <1>0, <1>3 DEF Fits, FocusType, Level, On
  <2>2. HandleKey(f, k) = [f EXCEPT !.on = Beside(f.on, Moves[k])]
    BY <1>3 DEF HandleKey
  <2>3. Beside(f.on, Moves[k]) \in Widgets
    BY <2>1, BesideIsWidget
  <2> QED BY <1>0, <1>3, <2>2, <2>3 DEF Fits, FocusType, Level, On, None, Widgets
<1> QED BY <1>1, <1>2, <1>3 DEF Claims

LEMMA DrillFits ==
  ASSUME NEW f, Fits(f, 0), f.level = "Widget"
  PROVE  Fits(EnterDrill(f), 0) /\ EnterDrill(f).level # "Modal"
<1>1. /\ EnterDrill(f) \in FocusType /\ EnterDrill(f).level = "Drill"
      /\ EnterDrill(f).on = f.on /\ EnterDrill(f).drilled = f.on
  BY DEF EnterDrill, Fits, FocusType
<1> HIDE DEF EnterDrill
<1> QED BY <1>1 DEF Fits, Level, On

-----------------------------------------------------------------------------
(* Keys and commands                                                        *)

PaletteDomain == DOMAIN palette = {"open", "query", "results", "selected"}

\* A palette that is edited stays open.
LEMMA EditsStayOpen ==
  ASSUME Coherence, palette.open, NEW k, PaletteEdits(k)
  PROVE  palette'.open /\ PaletteDomain'
<1>1. \A n : [palette EXCEPT !.selected = n].open = palette.open
             /\ DOMAIN [palette EXCEPT !.selected = n] = DOMAIN palette
  BY DEF Coherence
<1>2. \A n : Select(n).open = palette.open /\ DOMAIN Select(n) = DOMAIN palette
  BY <1>1 DEF Select
<1>3. \A q : Queried(q).open /\ DOMAIN Queried(q) = {"open", "query", "results", "selected"}
  BY DEF Queried
<1> HIDE DEF Select, Queried
<1> QED BY <1>2, <1>3 DEF PaletteEdits, Coherence, PaletteDomain

\* The palette closes and the focus becomes one that fits, in no dialog.
LEMMA Closes ==
  ASSUME Coherence, palette' \in {palette, ClosedPalette}, Fits(focus, tab)',
         focus'.level # "Modal", ~palette'.open, help' \in BOOLEAN
  PROVE  Coherence'
<1>1. ClosedPalette.open = FALSE /\ DOMAIN ClosedPalette = {"open", "query", "results", "selected"}
  BY DEF ClosedPalette
<1>2. palette'.open \in BOOLEAN /\ DOMAIN palette' = {"open", "query", "results", "selected"}
  BY <1>1 DEF Coherence, Dialogs
<1> QED BY <1>2 DEF Coherence, Dialogs

LEMMA DispatchFits ==
  ASSUME Coherence, NEW id, Dispatch(id)
  PROVE  Fits(focus, tab)' /\ focus'.level # "Modal" /\ help' \in BOOLEAN
<1>1. CASE id \in DOMAIN ViewTab /\ GoTo(ViewTab[id]) /\ UNCHANGED <<help, phase, data>>
  BY <1>1, NoFocusFits DEF GoTo, NoFocus, Coherence, Dialogs
<1>2. CASE /\ id \in DOMAIN DrillSteps
           /\ tab' = 0
           /\ focus' = [NoFocus EXCEPT !.level = "Widget", !.on = kTabOrder[DrillSteps[id]]]
           /\ UNCHANGED <<help, phase, data>>
  <2>1. kTabOrder[DrillSteps[id]] \in Widgets
    BY <1>2 DEF DrillSteps, kTabOrder, Widgets
  <2>2. PICK w \in Widgets : focus' = [NoFocus EXCEPT !.level = "Widget", !.on = w]
    BY <1>2, <2>1
  <2> QED BY <1>2, <2>2
          DEF NoFocus, Fits, FocusType, Level, On, None, Widgets, Coherence, Dialogs
<1>3. CASE id = "Help" /\ help' = TRUE /\ focus' = ExitModal(EnterModal(focus))
           /\ UNCHANGED <<tab, phase, data>>
  BY <1>3, DialogFits DEF Coherence
<1>4. CASE focus' = ExitModal(focus) /\ UNCHANGED <<tab, help>>
  BY <1>4, DialogFits DEF Coherence, Dialogs
<1> QED BY <1>1, <1>2, <1>3, <1>4, Zenon DEF Dispatch

LEMMA VerbFits ==
  ASSUME Coherence, RunVerb
  PROVE  Fits(focus, tab)' /\ focus'.level # "Modal" /\ UNCHANGED help
<1>1. CASE \E t : GoTo(t)
  BY <1>1, NoFocusFits DEF GoTo, NoFocus, RunVerb
<1>2. CASE focus' = ExitModal(focus) /\ UNCHANGED tab
  BY <1>2, DialogFits DEF Coherence, RunVerb
<1> QED BY <1>1, <1>2, Zenon DEF RunVerb, OpenObject

LEMMA PaletteKeeps ==
  ASSUME Coherence, NEW k, PaletteKey(k)
  PROVE  Coherence'
<1>1. CASE PaletteEdits(k)
  <2>1. palette'.open /\ PaletteDomain'
    BY <1>1, EditsStayOpen DEF PaletteKey
  <2>2. UNCHANGED <<focus, help, tab>>
    BY <1>1 DEF PaletteEdits
  <2>3. palette'.open \in BOOLEAN
    <3>1. palette.open = TRUE
      BY DEF PaletteKey, Coherence, Dialogs
    <3>2. \A n : Select(n).open = TRUE
      <4>1. \A n : [palette EXCEPT !.selected = n].open = palette.open
        BY DEF Coherence
      <4> QED BY <3>1, <4>1 DEF Select
    <3>3. \A q : Queried(q).open = TRUE
      BY DEF Queried
    <3> HIDE DEF Select, Queried
    <3> QED BY <1>1, <3>1, <3>2, <3>3 DEF PaletteEdits
  <2> QED BY <2>1, <2>2, <2>3 DEF PaletteKey, Coherence, Dialogs, PaletteDomain
<1>2. CASE PaletteCancels
  <2>1. /\ palette' = ClosedPalette /\ focus' = ExitModal(focus) /\ UNCHANGED <<help, tab>>
    BY <1>2 DEF PaletteCancels
  <2>2. Fits(focus, tab)' /\ focus'.level # "Modal"
    BY <2>1, DialogFits DEF Coherence
  <2> QED BY <2>1, <2>2, Closes DEF ClosedPalette, Coherence, Dialogs
<1>3. CASE RunVerb
  <2>1. palette' = ClosedPalette
    BY <1>3 DEF RunVerb
  <2>2. Fits(focus, tab)' /\ focus'.level # "Modal" /\ help' \in BOOLEAN
    BY <1>3, VerbFits DEF Coherence, Dialogs
  <2> QED BY <2>1, <2>2, Closes DEF ClosedPalette
<1>4. CASE RunCommand
  <2>1. palette' = ClosedPalette
    BY <1>4 DEF RunCommand
  <2>2. Fits(focus, tab)' /\ focus'.level # "Modal" /\ help' \in BOOLEAN
    BY <1>4, DispatchFits DEF RunCommand
  <2> QED BY <2>1, <2>2, Closes DEF ClosedPalette
<1> QED BY <1>1, <1>2, <1>3, <1>4, Zenon DEF PaletteKey

LEMMA HelpKeeps ==
  ASSUME Coherence, NEW k, HelpKey(k) \/ (~palette.open /\ ~help /\ OpenDialog(k))
  PROVE  Coherence'
<1>1. CASE HelpKey(k)
  <2>1. /\ help = TRUE /\ help' = FALSE /\ focus' = ExitModal(focus) /\ UNCHANGED <<palette, tab>>
    BY <1>1 DEF HelpKey, Coherence, Dialogs
  <2>2. ~palette.open
    BY <2>1 DEF Coherence, Dialogs
  <2>3. Fits(focus, tab)' /\ focus'.level # "Modal"
    BY <2>1, DialogFits DEF Coherence
  <2> QED BY <2>1, <2>2, <2>3, Closes
<1>2. CASE ~palette.open /\ ~help /\ OpenDialog(k)
  <2>1. focus' = EnterModal(focus) /\ UNCHANGED tab
    BY <1>2 DEF OpenDialog
  <2>2. \/ palette' = OpenPalette /\ help' = FALSE
        \/ palette' = palette /\ help' = TRUE
    BY <1>2 DEF OpenDialog, Coherence, Dialogs
  <2>3. Fits(focus, tab)' /\ focus'.level = "Modal"
    BY <2>1, DialogFits DEF Coherence
  <2>4. OpenPalette.open = TRUE /\ DOMAIN OpenPalette = {"open", "query", "results", "selected"}
    BY DEF OpenPalette
  <2> HIDE DEF OpenPalette
  <2> QED BY <1>2, <2>2, <2>3, <2>4 DEF Coherence, Dialogs
<1> QED BY <1>1, <1>2

LEMMA HomeKeeps ==
  ASSUME Coherence, ~help, NEW k, HomeKey(k)
  PROVE  Coherence'
<1>1. /\ tab = 0 /\ UNCHANGED <<palette, help, tab>>
      /\ Claims(focus, k) \/ (k = "Enter" /\ focus.level = "Widget")
  BY DEF HomeKey, OnHome
<1>2. k = "Enter" => ~Claims(focus, k)
  BY DEF Claims, Moves
<1>3. focus.level # "Modal"
  BY <1>1, KeyFits DEF Coherence
<1>4. ~palette.open
  BY <1>3 DEF Coherence, Dialogs
<1>5. Fits(focus', 0) /\ focus'.level # "Modal"
  <2>1. CASE k # "Enter"
    BY <1>1, <2>1, KeyFits DEF HomeKey, Coherence
  <2>2. CASE k = "Enter"
    BY <1>1, <1>2, <1>3, <2>2, DrillFits DEF HomeKey, Coherence
  <2> QED BY <2>1, <2>2
<1> QED BY <1>1, <1>4, <1>5 DEF Coherence, Dialogs

LEMMA KeyKeeps ==
  ASSUME Coherence, NEW k, Key(k)
  PROVE  Coherence'
<1>1. CASE PaletteKey(k) \/ HelpKey(k) \/ (~palette.open /\ ~help /\ OpenDialog(k))
  BY <1>1, PaletteKeeps, HelpKeeps
<1>2. CASE /\ IF palette.open THEN k \in PaletteIgnores ELSE ~help /\ k \notin {":", "?"}
           /\ \/ HomeKey(k)
              \/ ~OnHome(k) /\ k = "Esc" /\ EscExits
              \/ ~OnHome(k) /\ EntityKey(k)
              \/ ~OnHome(k) /\ GoKey(k)
              \/ ~OnHome(k) /\ OtherKey(k)
  <2>1. ~help
    BY <1>2 DEF Coherence, Dialogs
  <2>2. CASE HomeKey(k)
    BY <2>1, <2>2, HomeKeeps
  <2>3. CASE EscExits \/ EntityKey(k) \/ OtherKey(k)
    <3>1. UNCHANGED <<focus, palette, help, tab>>
      BY <2>3 DEF EscExits, EntityKey, OtherKey
    <3> QED BY <3>1 DEF Coherence, Dialogs
  <2>4. CASE GoKey(k)
    <3>1. k \notin PaletteIgnores
      BY <2>4 DEF GoKey, GTab, PaletteIgnores
    <3>2. ~palette.open /\ focus' = NoFocus /\ UNCHANGED <<palette, help>>
      BY <1>2, <2>4, <3>1 DEF GoKey, GoTo
    <3>3. Fits(focus, tab)' /\ focus'.level # "Modal"
      BY <3>2, NoFocusFits DEF NoFocus
    <3>4. palette' = palette /\ ~palette'.open /\ help' \in BOOLEAN
      BY <3>2 DEF Coherence, Dialogs
    <3> QED BY <3>3, <3>4, Closes
  <2> QED BY <1>2, <2>2, <2>3, <2>4
<1> QED BY <1>1, <1>2, Zenon DEF Key

LEMMA CoherenceHolds == Spec => []Coherence
<1>1. Init => Coherence
  <2> SUFFICES ASSUME Init PROVE Coherence
    OBVIOUS
  <2>1. ClosedPalette.open = FALSE /\ DOMAIN ClosedPalette = {"open", "query", "results", "selected"}
    BY DEF ClosedPalette
  <2>2. NoFocus.level = "Dashboard"
    BY DEF NoFocus
  <2> QED BY <2>1, <2>2, NoFocusFits DEF Init, Coherence, Dialogs
<1>2. Coherence /\ [Next]_vars => Coherence'
  <2>1. ASSUME Coherence, Next PROVE Coherence'
    BY <2>1, KeyKeeps DEF Next
  <2>2. ASSUME Coherence, UNCHANGED vars PROVE Coherence'
    BY <2>2 DEF vars, Coherence, Dialogs
  <2> QED BY <2>1, <2>2
<1> QED BY <1>1, <1>2, PTL DEF Spec

\* From wherever the keys led: focus and drills only on the home tab, a modal level
\* only under an open dialog.
THEOREM LevelsAgree == Spec => []FocusCoherent
BY CoherenceHolds, CoherenceImpliesFocus, PTL

-----------------------------------------------------------------------------
(* Esc                                                                      *)

LEMMA EscPops ==
  ASSUME Coherence, Key("Esc")
  PROVE  IF Depth > 0 THEN Depth' = Depth - 1 /\ phase' = phase ELSE tab # 0 => phase' = "left"
<1> DEFINE D(f) == CASE Level(f) = "Dashboard" -> 0 [] Level(f) = "Widget" -> 1
                      [] Level(f) = "Drill" -> 2
<1>1. Depth = (IF palette.open \/ help THEN 1 ELSE 0) + D(focus)
  BY DEF Depth, Level
<1>2. Depth' = (IF palette'.open \/ help' THEN 1 ELSE 0) + D(focus')
  BY DEF Depth, Level
<1>3. Level(focus) \in {"Dashboard", "Widget", "Drill"} /\ D(focus) \in {0, 1, 2}
  BY DEF Coherence, Fits, FocusType, Level
<1>4. CASE PaletteKey("Esc")
  <2>1. palette.open /\ PaletteCancels
    BY <1>4, TypedAssumption DEF PaletteKey, PaletteEdits
  <2>2. /\ ~palette'.open /\ ~help' /\ Level(focus') = Level(focus)
    BY <2>1, DialogFits DEF PaletteCancels, ClosedPalette, Coherence, Dialogs
  <2>3. phase' = phase
    BY <2>1 DEF PaletteCancels
  <2> QED BY <1>1, <1>2, <1>3, <2>1, <2>2, <2>3
<1>5. CASE HelpKey("Esc")
  <2>1. help /\ ~palette.open
    BY <1>5 DEF HelpKey, Coherence, Dialogs
  <2>2. /\ ~palette'.open /\ ~help' /\ Level(focus') = Level(focus)
    BY <1>5, <2>1, DialogFits DEF HelpKey, Coherence
  <2>3. phase' = phase
    BY <1>5 DEF HelpKey
  <2> QED BY <1>1, <1>2, <1>3, <2>1, <2>2, <2>3
<1>6. ~OpenDialog("Esc")
  BY DEF OpenDialog
<1>7. CASE ~palette.open /\ ~help /\ HomeKey("Esc")
  <2>1. /\ tab = 0 /\ Claims(focus, "Esc") /\ focus' = HandleKey(focus, "Esc")
        /\ UNCHANGED <<palette, help, phase>>
    BY <1>7 DEF HomeKey, OnHome
  <2>2. focus.level \in {"Drill", "Widget"} /\ focus \in FocusType
    BY <2>1 DEF Claims, Moves, Coherence, Fits
  <2>3. focus.level = "Drill" => focus'.level = "Widget"
    BY <2>1, <2>2 DEF HandleKey, FocusType
  <2>4. focus.level = "Widget" => focus'.level = "Dashboard"
    BY <2>1, <2>2 DEF HandleKey, FocusType
  <2> QED BY <1>1, <1>2, <1>7, <2>1, <2>2, <2>3, <2>4 DEF Level
<1>8. CASE ~palette.open /\ ~help /\ ~OnHome("Esc") /\ EscExits
  <2>1. focus.level # "Modal"
    BY <1>8 DEF Coherence, Dialogs
  <2>2. Level(focus) = "Dashboard"
    BY <1>3, <1>8, <2>1 DEF OnHome, Claims, Coherence, Fits, Level
  <2>3. Depth = 0
    BY <1>1, <1>8, <2>2
  <2>4. phase' = "left"
    BY <1>8 DEF EscExits
  <2> QED BY <2>3, <2>4
<1>9. ~EntityKey("Esc") /\ ~GoKey("Esc") /\ ~OtherKey("Esc") /\ "Esc" \notin PaletteIgnores
  BY DEF EntityKey, GoKey, GTab, OtherKey, PaletteIgnores
<1> QED BY <1>4, <1>5, <1>6, <1>7, <1>8, <1>9, Zenon DEF Key

\* Whatever is open, Esc closes exactly one thing and stays in the program; with
\* nothing open it leaves it, from every view but the home one.
THEOREM EscAscends == Spec => EscPopsOne
<1>1. Coherence /\ [Next]_vars =>
        [Key("Esc") => IF Depth > 0 THEN Depth' = Depth - 1 /\ phase' = phase
                       ELSE tab # 0 => phase' = "left"]_vars
  BY EscPops
<1> QED BY <1>1, CoherenceHolds, PTL DEF Spec, EscPopsOne

-----------------------------------------------------------------------------
(* The palette                                                              *)

LEMMA MinOfTwo ==
  ASSUME NEW a \in Int, NEW b \in Int
  PROVE  Min({a, b}) \in {a, b} /\ Min({a, b}) <= a /\ Min({a, b}) <= b
<1>1. \E x \in {a, b} : \A y \in {a, b} : x =< y
  <2>1. CASE a <= b
    BY <2>1
  <2>2. CASE b <= a
    BY <2>2
  <2> QED BY <2>1, <2>2
<1> QED BY <1>1 DEF Min

\* A limit on a number of things.
LEMMA LimitFits ==
  ASSUME NEW x \in Nat
  PROVE  Min({kMaxVisibleResults, x}) \in 0 .. kMaxVisibleResults
<1>1. kMaxVisibleResults \in Int /\ x \in Int
  BY UiAssumption
<1> QED BY <1>1, MinOfTwo, UiAssumption

\* What the palette finds fits on it.
LEMMA FindFits ==
  ASSUME NEW q
  PROVE  Len(FuzzyFind(q, Commands, kMaxVisibleResults)) \in 0 .. kMaxVisibleResults
<1> DEFINE scored == {<<i, FuzzyScore(q, Commands[i])>> : i \in DOMAIN Commands}
           hits == {h \in scored : h[2] # NoScore}
           Before(g, h) == g[2] > h[2] \/ (g[2] = h[2] /\ g[1] < h[1])
           Nth(n) == (CHOOSE h \in hits : Cardinality({g \in hits : Before(g, h)}) = n - 1)[1]
           all == Min({kMaxVisibleResults, Len(Commands)})
           few == Min({kMaxVisibleResults, Cardinality(hits)})
           First == [n \in 1 .. all |-> n]
           Best == [n \in 1 .. few |-> Nth(n)]
<1>1. FuzzyFind(q, Commands, kMaxVisibleResults) = IF q = <<>> THEN First ELSE Best
  BY Zenon DEF FuzzyFind
<1>2. Len(Commands) \in Nat /\ DOMAIN Commands = 1 .. Len(Commands)
  BY UiAssumption, LenProperties
<1>3. Cardinality(hits) \in Nat
  <2>1. IsFiniteSet(DOMAIN Commands)
    BY <1>2, FS_Interval
  <2>2. IsFiniteSet(scored)
    <3> DEFINE f == [i \in DOMAIN Commands |-> <<i, FuzzyScore(q, Commands[i])>>]
    <3>1. f \in Surjection(DOMAIN Commands, scored)
      BY DEF Surjection
    <3> HIDE DEF f, scored
    <3> QED BY <2>1, <3>1, FS_Surjection
  <2>3. hits \subseteq scored
    OBVIOUS
  <2> HIDE DEF hits, scored
  <2> QED BY <2>2, <2>3, FS_Subset, FS_CardinalityType
<1>4. all \in 0 .. kMaxVisibleResults /\ few \in 0 .. kMaxVisibleResults
  <2> HIDE DEF hits
  <2> QED BY <1>2, <1>3, LimitFits
<1> HIDE DEF all, few, Nth
<1>5. Len(First) = all /\ Len(Best) = few
  BY <1>4, UiAssumption
<1> HIDE DEF First, Best
<1> QED BY <1>1, <1>4, <1>5

\* The query is one that can be typed, the results are what it finds, and the
\* selection is one of them.
Listing ==
  /\ palette.query \in Queries
  /\ palette.results = IF palette.open THEN Find[palette.query] ELSE <<>>
  /\ palette.selected \in Nat
  /\ palette.selected = 0 \/ palette.selected < Len(palette.results)

LEMMA NewListing ==
  ASSUME NEW q \in Queries, palette' = Queried(q)
  PROVE  Listing'
<1>1. /\ Queried(q).open = TRUE /\ Queried(q).query = q
      /\ Queried(q).results = Find[q] /\ Queried(q).selected = 0
  BY DEF Queried
<1> HIDE DEF Queried
<1> QED BY <1>1 DEF Listing

LEMMA OpenAndClosedListing ==
  /\ palette' = OpenPalette => Listing'
  /\ palette' = ClosedPalette => Listing'
<1>1. OpenPalette = Queried(<<>>)
  BY DEF OpenPalette, Queried
<1>2. /\ ClosedPalette.open = FALSE /\ ClosedPalette.query = <<>>
      /\ ClosedPalette.results = <<>> /\ ClosedPalette.selected = 0
  BY DEF ClosedPalette
<1>3. ASSUME palette' = ClosedPalette
      PROVE  Listing'
  BY <1>2, <1>3, UiAssumption DEF Listing
<1> QED BY <1>1, <1>3, UiAssumption, NewListing

LEMMA ResultsFit ==
  ASSUME Listing, palette.open
  PROVE  Len(palette.results) \in 0 .. kMaxVisibleResults
<1>1. palette.results = FuzzyFind(palette.query, Commands, kMaxVisibleResults)
  BY DEF Listing, Find
<1> QED BY <1>1, FindFits

LEMMA SelectListing ==
  ASSUME Coherence, Listing, palette.open, NEW step \in {1, -1}, palette' = Select(step)
  PROVE  Listing'
<1> DEFINE n == Len(palette.results)
           s == (palette.selected + step + n) % n
<1>1. n \in 0 .. kMaxVisibleResults /\ kMaxVisibleResults \in Nat
  BY ResultsFit, UiAssumption
<1>2. CASE n = 0
  <2>1. palette' = palette
    BY <1>2 DEF Select
  <2> QED BY <2>1 DEF Listing
<1>3. CASE n # 0
  <2>1. palette' = [palette EXCEPT !.selected = s]
    BY <1>3 DEF Select
  <2>2. s \in 0 .. n - 1
    <3>1. n \in Nat /\ n > 0
      BY <1>1, <1>3
    <3>2. palette.selected \in Nat /\ step \in Int
      BY DEF Listing
    <3> HIDE DEF n
    <3>3. palette.selected + step + n \in Int
      BY <3>1, <3>2
    <3> QED BY <3>1, <3>3
  <2> HIDE DEF s
  <2>3. /\ palette'.open = palette.open /\ palette'.query = palette.query
        /\ palette'.results = palette.results /\ palette'.selected = s
    BY <2>1 DEF Coherence
  <2> QED BY <1>1, <2>2, <2>3 DEF Listing
<1> QED BY <1>2, <1>3

LEMMA EditsListing ==
  ASSUME Coherence, Listing, palette.open, NEW k, PaletteEdits(k)
  PROVE  Listing'
<1> DEFINE q == palette.query
<1>1. q \in Queries
  BY DEF Listing
<1>2. CASE palette' = Select(1) \/ palette' = Select(-1)
  BY <1>2, SelectListing
<1>3. CASE palette' = palette
  BY <1>3 DEF Listing
<1>4. CASE q # <<>> /\ palette' = Queried(Front(q))
  <2>1. Front(q) \in Queries
    BY <1>1, <1>4, UiAssumption
  <2> QED BY <1>4, <2>1, NewListing
<1>5. CASE Append(q, k) \in Queries /\ palette' = Queried(Append(q, k))
  BY <1>5, NewListing
<1>6. \/ palette' = Select(1) \/ palette' = Select(-1)
      \/ palette' = palette
      \/ q # <<>> /\ palette' = Queried(Front(q))
      \/ Append(q, k) \in Queries /\ palette' = Queried(Append(q, k))
  BY Zenon DEF PaletteEdits
<1> HIDE DEF q
<1> QED BY <1>2, <1>3, <1>4, <1>5, <1>6

\* A key edits an open palette, opens it, closes it or leaves it as it is.
LEMMA PaletteTurns ==
  ASSUME NEW k, Key(k)
  PROVE  \/ palette.open /\ PaletteEdits(k)
         \/ palette' \in {palette, OpenPalette, ClosedPalette}
<1>1. CASE PaletteKey(k)
  BY <1>1, Zenon DEF PaletteKey, PaletteCancels, RunVerb, RunCommand
<1>2. CASE HelpKey(k) \/ OpenDialog(k)
  BY <1>2 DEF HelpKey, OpenDialog
<1>3. CASE HomeKey(k) \/ EscExits \/ EntityKey(k) \/ GoKey(k) \/ OtherKey(k)
  BY <1>3 DEF HomeKey, EscExits, EntityKey, GoKey, OtherKey
<1> QED BY <1>1, <1>2, <1>3, Zenon DEF Key

LEMMA ListingKept ==
  ASSUME Coherence, Listing, NEW k, Key(k)
  PROVE  Listing'
<1>1. CASE palette.open /\ PaletteEdits(k)
  BY <1>1, EditsListing
<1>2. CASE palette' = palette
  BY <1>2 DEF Listing
<1> QED BY <1>1, <1>2, PaletteTurns, OpenAndClosedListing

-----------------------------------------------------------------------------
(* What is shown                                                            *)

\* Only the first widget is drilled into.
DrillDrawn == focus.drilled \in {None, "NetWorth"}

LEMMA HandlesDrill ==
  ASSUME NEW f, NEW k, Fits(f, 0), Claims(f, k)
  PROVE  HandleKey(f, k).drilled \in {None, f.drilled}
<1> DEFINE Turn(w) == [f EXCEPT !.level = "Widget", !.on = w]
           Move(w) == [f EXCEPT !.on = w]
<1>1. f \in FocusType
  BY DEF Fits
<1>2. \A w : Turn(w).drilled = f.drilled /\ Move(w).drilled = f.drilled
  BY <1>1 DEF FocusType
<1>3. /\ [f EXCEPT !.level = "Widget", !.on = f.drilled, !.drilled = None].drilled = None
      /\ [f EXCEPT !.level = "Dashboard", !.on = None].drilled = f.drilled
  BY <1>1 DEF FocusType
<1>4. CASE k = "Esc"
  <2>1. f.level \in {"Drill", "Widget"}
    BY <1>4 DEF Claims, Moves
  <2>2. HandleKey(f, k) = IF f.level = "Drill"
          THEN [f EXCEPT !.level = "Widget", !.on = f.drilled, !.drilled = None]
          ELSE [f EXCEPT !.level = "Dashboard", !.on = None]
    BY <1>4, <2>1 DEF HandleKey
  <2> QED BY <1>3, <2>2
<1>5. CASE k # "Esc"
  <2>1. HandleKey(f, k) =
          CASE k = "Tab" -> Turn(IF f.on = None THEN kTabOrder[1] ELSE Along(f.on, 1))
            [] k = "BackTab" -> Turn(IF f.on = None THEN Last(kTabOrder) ELSE Along(f.on, -1))
            [] OTHER -> Move(Beside(f.on, Moves[k]))
    BY <1>5 DEF HandleKey
  <2> HIDE DEF Turn, Move
  <2> QED BY <1>2, <2>1
<1> QED BY <1>4, <1>5

LEMMA ModalsDrill ==
  ASSUME NEW f \in FocusType
  PROVE  /\ EnterModal(f).drilled = f.drilled /\ EnterModal(f) \in FocusType
         /\ ExitModal(f).drilled = f.drilled /\ ExitModal(f) \in FocusType
         /\ EnterDrill(f).drilled = f.on
<1>1. CASE f.level = "Modal"
  BY <1>1 DEF EnterModal, ExitModal, EnterDrill, FocusType
<1>2. CASE f.level # "Modal"
  BY <1>2 DEF EnterModal, ExitModal, EnterDrill, FocusType
<1> QED BY <1>1, <1>2

OnlyWidget(w) == [NoFocus EXCEPT !.level = "Widget", !.on = w]

\* What a key can do to the controller.
LEMMA FocusTurns ==
  ASSUME NEW k, Key(k)
  PROVE  \/ focus' = focus \/ focus' = EnterModal(focus) \/ focus' = ExitModal(focus)
         \/ focus' = NoFocus \/ focus' = ExitModal(EnterModal(focus))
         \/ \E w : focus' = OnlyWidget(w)
         \/ HomeKey(k)
<1>1. ASSUME NEW id, Dispatch(id)
      PROVE  \/ focus' = ExitModal(focus) \/ focus' = NoFocus
             \/ focus' = ExitModal(EnterModal(focus)) \/ \E w : focus' = OnlyWidget(w)
  BY <1>1, Zenon DEF Dispatch, GoTo, OnlyWidget
<1>2. CASE PaletteKey(k)
  <2>1. CASE PaletteEdits(k) \/ PaletteCancels
    <3>1. focus' = focus \/ focus' = ExitModal(focus)
      BY <2>1 DEF PaletteEdits, PaletteCancels
    <3> QED BY <3>1, Zenon
  <2>2. CASE RunVerb
    <3>1. focus' = ExitModal(focus) \/ focus' = NoFocus
      BY <2>2, Zenon DEF RunVerb, OpenObject, GoTo
    <3> QED BY <3>1, Zenon
  <2>3. CASE RunCommand
    BY <1>1, <2>3, Zenon DEF RunCommand
  <2> QED BY <1>2, <2>1, <2>2, <2>3, Zenon DEF PaletteKey
<1>3. CASE HelpKey(k) \/ OpenDialog(k)
  BY <1>3, Zenon DEF HelpKey, OpenDialog
<1>4. CASE EscExits \/ EntityKey(k) \/ GoKey(k) \/ OtherKey(k)
  <2>1. focus' = focus \/ focus' = NoFocus
    BY <1>4 DEF EscExits, EntityKey, GoKey, GoTo, OtherKey
  <2> QED BY <2>1, Zenon
<1> QED BY <1>2, <1>3, <1>4, Zenon DEF Key

LEMMA DrillDrawnKept ==
  ASSUME Coherence, DrillDrawn, NEW k, Key(k)
  PROVE  DrillDrawn'
<1>1. focus \in FocusType
  BY DEF Coherence, Fits
<1>2. CASE \/ focus' = focus \/ focus' = EnterModal(focus) \/ focus' = ExitModal(focus)
           \/ focus' = ExitModal(EnterModal(focus))
  <2>1. focus'.drilled = focus.drilled
    <3> HIDE DEF FocusType
    <3> QED BY <1>1, <1>2, ModalsDrill
  <2> QED BY <2>1 DEF DrillDrawn
<1>3. CASE focus' = NoFocus \/ \E w : focus' = OnlyWidget(w)
  <2>1. NoFocus.drilled = None /\ \A w : OnlyWidget(w).drilled = None
    BY DEF NoFocus, OnlyWidget
  <2> QED BY <1>3, <2>1, Zenon DEF DrillDrawn
<1>4. CASE HomeKey(k)
  <2>1. Fits(focus, 0) /\ (Claims(focus, k) \/ k = "Enter")
    BY <1>4 DEF HomeKey, OnHome, Coherence
  <2>2. CASE k # "Enter"
    <3>1. focus' = HandleKey(focus, k) /\ Claims(focus, k)
      BY <1>4, <2>1, <2>2 DEF HomeKey
    <3> QED BY <2>1, <3>1, HandlesDrill DEF DrillDrawn
  <2>3. CASE k = "Enter"
    <3>1. focus' = IF focus.on = "NetWorth" THEN EnterDrill(focus) ELSE focus
      BY <1>4, <2>3 DEF HomeKey
    <3>2. EnterDrill(focus).drilled = focus.on
      BY <1>1, ModalsDrill
    <3> QED BY <3>1, <3>2 DEF DrillDrawn
  <2> QED BY <2>2, <2>3
<1> QED BY <1>2, <1>3, <1>4, FocusTurns, Zenon

\* The loaded data, and what the views show of it.
DataTypes ==
  /\ entities \in Seq(Entities) /\ banked \subseteq Range(entities) /\ current \in {0, 1}
  /\ shown \in Entities \union {None}
  /\ phase \in {"running", "saved", "left", "undefined"}

ViewsFollow ==
  phase # "undefined" /\ entities # <<>> =>
    /\ current + 1 \in DOMAIN entities
    /\ entities[current + 1] \in banked => shown = entities[current + 1]

LEMMA ViewsUpdate ==
  ASSUME DataTypes, UpdateViews, phase = "running", entities' \in Seq(Entities),
         banked' \subseteq Range(entities'), current' \in {0, 1}
  PROVE  DataTypes' /\ ViewsFollow'
<1>1. CASE entities' = <<>>
  BY <1>1 DEF UpdateViews, DataTypes, ViewsFollow
<1>2. CASE entities' # <<>> /\ current' + 1 \notin DOMAIN entities'
  BY <1>2 DEF UpdateViews, DataTypes, ViewsFollow
<1>3. CASE entities' # <<>> /\ current' + 1 \in DOMAIN entities'
  <2> DEFINE e == entities'[current' + 1]
  <2>1. e \in Entities
    BY <1>3, LenProperties, ElementOfSeq
  <2>2. shown' = (IF e \in banked' THEN e ELSE shown) /\ phase' = phase
    BY <1>3, Zenon DEF UpdateViews
  <2>3. shown' \in Entities \union {None}
    BY <2>1, <2>2 DEF DataTypes
  <2> QED BY <1>3, <2>2, <2>3 DEF DataTypes, ViewsFollow
<1> QED BY <1>1, <1>2, <1>3

LEMMA SwitchFollows ==
  ASSUME DataTypes, phase = "running", NEW n \in {1, 2}, SwitchEntity(n)
  PROVE  DataTypes' /\ ViewsFollow'
<1>1. current' \in {0, 1} /\ UNCHANGED <<entities, banked>>
  BY DEF SwitchEntity
<1> QED BY <1>1, ViewsUpdate DEF SwitchEntity, DataTypes

LEMMA RefreshFollows ==
  ASSUME DataTypes, phase = "running", Refresh
  PROVE  DataTypes' /\ ViewsFollow'
<1>1. CASE \E l \in Lists, b \in SUBSET Entities :
             b \subseteq Range(l) /\ entities' = l /\ banked' = b
  <2>1. entities' \in Seq(Entities) /\ banked' \subseteq Range(entities')
    BY <1>1, UiAssumption
  <2> QED BY <2>1, ViewsUpdate DEF Refresh, DataTypes
<1>2. CASE UNCHANGED <<entities, banked>>
  BY <1>2, ViewsUpdate DEF Refresh, DataTypes
<1> QED BY <1>1, <1>2, Zenon DEF Refresh

\* What a key can do to the data.
LEMMA DataTurns ==
  ASSUME NEW k, Key(k)
  PROVE  \/ UNCHANGED data /\ phase' \in {phase, "saved", "left"}
         \/ SwitchEntity(1) \/ SwitchEntity(2) \/ Refresh
<1>1. ASSUME NEW id, Dispatch(id)
      PROVE  \/ UNCHANGED data /\ phase' \in {phase, "saved", "left"}
             \/ SwitchEntity(1) \/ SwitchEntity(2) \/ Refresh
  <2>1. CASE id \in DOMAIN ViewTab /\ GoTo(ViewTab[id]) /\ UNCHANGED <<help, phase, data>>
    BY <2>1 DEF data
  <2>2. CASE id \in DOMAIN DrillSteps /\ UNCHANGED <<help, phase, data>>
    BY <2>2 DEF data
  <2>3. CASE id = "Help" /\ UNCHANGED <<tab, phase, data>>
    BY <2>3 DEF data
  <2>4. CASE \/ id = "Personal" /\ Len(entities) >= 1 /\ SwitchEntity(1)
             \/ id = "Business" /\ Len(entities) >= 2 /\ SwitchEntity(2)
             \/ id = "Refresh" /\ Refresh
             \/ id = "Quit" /\ phase' = "saved" /\ UNCHANGED data
             \/ /\ \/ id \in Messages
                   \/ id = "Personal" /\ Len(entities) < 1
                   \/ id = "Business" /\ Len(entities) < 2
                /\ UNCHANGED <<phase, data>>
    BY <2>4 DEF data
  <2> QED BY <1>1, <2>1, <2>2, <2>3, <2>4, Zenon DEF Dispatch
<1>2. CASE PaletteKey(k)
  <2>1. CASE PaletteEdits(k) \/ PaletteCancels \/ RunVerb
    BY <2>1 DEF PaletteEdits, PaletteCancels, RunVerb, data
  <2>2. CASE RunCommand
    BY <1>1, <2>2 DEF RunCommand
  <2> QED BY <1>2, <2>1, <2>2, Zenon DEF PaletteKey
<1>3. CASE HelpKey(k) \/ OpenDialog(k)
  BY <1>3 DEF HelpKey, OpenDialog, data
<1>4. CASE HomeKey(k) \/ EscExits \/ EntityKey(k) \/ GoKey(k) \/ OtherKey(k)
  BY <1>4 DEF HomeKey, EscExits, EntityKey, GoKey, GoTo, OtherKey, data
<1> QED BY <1>2, <1>3, <1>4, Zenon DEF Key

LEMMA DataKept ==
  ASSUME DataTypes, ViewsFollow, phase = "running", NEW k, Key(k)
  PROVE  DataTypes' /\ ViewsFollow'
<1>1. CASE UNCHANGED data /\ phase' \in {phase, "saved", "left"}
  <2>1. UNCHANGED <<entities, banked, current, shown>>
    BY <1>1 DEF data
  <2> QED BY <1>1, <2>1 DEF DataTypes, ViewsFollow
<1> QED BY <1>1, DataTurns, SwitchFollows, RefreshFollows

-----------------------------------------------------------------------------
(* The invariant of the application                                         *)

Flags == tab \in 0 .. 15 /\ armed \in BOOLEAN

LEMMA FlagsKept ==
  ASSUME Flags, NEW k, Key(k)
  PROVE  Flags'
<1>1. \A i \in DOMAIN GTab : GTab[i] \in 0 .. 15
  BY DEF GTab
<1>2. \A i \in DOMAIN ViewTab : ViewTab[i] \in 0 .. 15
  BY DEF ViewTab
<1>3. ASSUME NEW id, Dispatch(id)
      PROVE  tab' \in 0 .. 15
  <2>1. \/ id \in DOMAIN ViewTab /\ GoTo(ViewTab[id])
        \/ tab' = 0
        \/ UNCHANGED tab
    BY <1>3, Zenon DEF Dispatch
  <2> QED BY <1>2, <2>1 DEF GoTo, Flags
<1>4. CASE PaletteKey(k)
  <2>1. CASE PaletteEdits(k) \/ PaletteCancels
    BY <2>1 DEF PaletteEdits, PaletteCancels, Flags
  <2>2. CASE RunVerb
    <3>1. armed' = armed /\ (UNCHANGED tab \/ GoTo(14) \/ GoTo(15) \/ GoTo(6) \/ GoTo(11))
      BY <2>2 DEF RunVerb, OpenObject
    <3> QED BY <3>1 DEF GoTo, Flags
  <2>3. CASE RunCommand
    BY <1>3, <2>3 DEF RunCommand, Flags
  <2> QED BY <1>4, <2>1, <2>2, <2>3, Zenon DEF PaletteKey
<1>5. CASE HelpKey(k) \/ OpenDialog(k) \/ HomeKey(k) \/ EscExits \/ EntityKey(k) \/ OtherKey(k)
  BY <1>5 DEF HelpKey, OpenDialog, HomeKey, EscExits, EntityKey, OtherKey, Flags
<1>6. CASE GoKey(k)
  BY <1>1, <1>6 DEF GoKey, GoTo, Flags
<1> QED BY <1>4, <1>5, <1>6, Zenon DEF Key

UiInv == Coherence /\ Listing /\ DrillDrawn /\ DataTypes /\ ViewsFollow /\ Flags

LEMMA UiInit == Init => UiInv
<1> SUFFICES ASSUME Init PROVE UiInv
  OBVIOUS
<1>1. Coherence
  <2>1. ClosedPalette.open = FALSE /\ DOMAIN ClosedPalette = {"open", "query", "results", "selected"}
    BY DEF ClosedPalette
  <2>2. NoFocus.level = "Dashboard"
    BY DEF NoFocus
  <2> QED BY <2>1, <2>2, NoFocusFits DEF Init, Coherence, Dialogs
<1>2. Listing
  <2>1. /\ palette.open = FALSE /\ palette.query = <<>>
        /\ palette.results = <<>> /\ palette.selected = 0
    BY DEF Init, ClosedPalette
  <2> QED BY <2>1, UiAssumption DEF Listing
<1>3. DrillDrawn /\ Flags
  <2>1. NoFocus.drilled = None
    BY DEF NoFocus
  <2>2. focus = NoFocus /\ tab = 0 /\ armed = FALSE
    BY DEF Init
  <2>3. DrillDrawn
    BY <2>1, <2>2 DEF DrillDrawn
  <2>4. 0 \in 0 .. 15 /\ FALSE \in BOOLEAN
    OBVIOUS
  <2> QED BY <2>2, <2>3, <2>4, Zenon DEF Flags
<1>4. DataTypes /\ ViewsFollow
  <2>1. entities \in Seq(Entities) /\ banked \subseteq Range(entities)
    BY UiAssumption, EmptySeq DEF Init
  <2>2. ASSUME entities # <<>>
        PROVE  1 \in DOMAIN entities /\ entities[1] \in Entities
    <3>1. Len(entities) \in Nat \ {0}
      BY <2>1, <2>2, EmptySeq
    <3> QED BY <2>1, <3>1, LenProperties, ElementOfSeq
  <2>3. current = 0 /\ phase = "running"
        /\ shown = IF entities # <<>> /\ entities[1] \in banked THEN entities[1] ELSE None
    BY DEF Init
  <2> QED BY <2>1, <2>2, <2>3 DEF DataTypes, ViewsFollow
<1> QED BY <1>1, <1>2, <1>3, <1>4 DEF UiInv

LEMMA UiAlways == Spec => []UiInv
<1>1. UiInv /\ [Next]_vars => UiInv'
  <2>1. ASSUME UiInv, Next
        PROVE  UiInv'
    <3>1. PICK k \in Keys : Key(k) /\ phase = "running"
      BY <2>1, Zenon DEF Next
    <3> HIDE DEF Keys
    <3> QED BY <2>1, <3>1, KeyKeeps, ListingKept, DrillDrawnKept, DataKept, FlagsKept DEF UiInv
  <2>2. ASSUME UiInv, UNCHANGED vars
        PROVE  UiInv'
    BY <2>2 DEF vars, UiInv, Coherence, Dialogs, Listing, DrillDrawn, DataTypes, ViewsFollow, Flags
  <2> QED BY <2>1, <2>2
<1> QED BY <1>1, UiInit, PTL DEF Spec

\* Every variable keeps its type, level, tab and dialogs fit together, and the
\* selection stays on the palette, for any commands, letters and entities.
THEOREM TypeCorrect == Spec => []TypeOK
<1>1. UiInv => TypeOK
  <2> SUFFICES ASSUME UiInv PROVE TypeOK
    OBVIOUS
  <2>1. FocusCoherent
    BY CoherenceImpliesFocus DEF UiInv
  <2>2. palette.open \in BOOLEAN /\ help \in BOOLEAN /\ focus \in FocusType
    BY DEF UiInv, Coherence, Dialogs, Fits
  <2>3. palette.selected \in 0 .. kMaxVisibleResults - 1
    <3>1. kMaxVisibleResults \in Nat \ {0}
      BY UiAssumption
    <3>2. palette.selected \in Nat
      BY DEF UiInv, Listing
    <3>3. CASE palette.selected = 0
      BY <3>1, <3>3
    <3>4. CASE palette.selected # 0
      <4>1. palette.selected < Len(palette.results)
        BY <3>4 DEF UiInv, Listing
      <4>2. palette.open
        <5>1. ~palette.open => palette.results = <<>> /\ Len(<<>>) = 0
          BY EmptySeq DEF UiInv, Listing
        <5> QED BY <3>2, <4>1, <5>1
      <4>3. Len(palette.results) \in 0 .. kMaxVisibleResults
        BY <4>2, ResultsFit DEF UiInv
      <4> QED BY <3>1, <3>2, <4>1, <4>3
    <3> QED BY <3>3, <3>4
  <2> QED BY <2>1, <2>2, <2>3 DEF UiInv, DataTypes, Flags, TypeOK, FocusType
<1> QED BY <1>1, UiAlways, PTL

\* Whatever was typed, erased and moved: the palette shows what its query finds, and
\* the selection is one of the results, so Enter never reads past them.
THEOREM PaletteFollowsQuery == Spec => []Listing
<1>1. UiInv => Listing
  BY DEF UiInv
<1> QED BY <1>1, UiAlways, PTL

\* While the program is defined, the screen shows the state: one loaded entity is
\* marked, the transactions are its own, and a drill that takes the keys is drawn.
THEOREM ScreenIsCurrent == Spec => []ShownIsCurrent
<1>1. UiInv => ShownIsCurrent
  <2> SUFFICES ASSUME UiInv, phase # "undefined"
               PROVE  /\ focus.level = "Drill" => Drawn = "Drill_NetWorth" /\ OnTop # "palette"
                      /\ entities # <<>> =>
                           /\ Cardinality(Marked) = 1
                           /\ entities[current + 1] \in banked => shown = entities[current + 1]
    BY DEF ShownIsCurrent
  <2>1. ASSUME focus.level = "Drill"
        PROVE  Drawn = "Drill_NetWorth" /\ OnTop # "palette"
    <3>1. tab = 0 /\ focus.drilled = focus.on /\ focus.on # None
      BY <2>1 DEF UiInv, Coherence, Fits, Level, On
    <3>2. focus.drilled = "NetWorth"
      BY <3>1 DEF UiInv, DrillDrawn
    <3>3. ~palette.open
      BY <2>1 DEF UiInv, Coherence, Dialogs
    <3> QED BY <2>1, <3>1, <3>2, <3>3 DEF Drawn, OnTop, None
  <2>2. ASSUME entities # <<>>
        PROVE  /\ Cardinality(Marked) = 1
               /\ entities[current + 1] \in banked => shown = entities[current + 1]
    <3>1. /\ current + 1 \in DOMAIN entities
          /\ entities[current + 1] \in banked => shown = entities[current + 1]
      BY <2>2 DEF UiInv, ViewsFollow
    <3>2. Marked = {current + 1}
      BY <3>1 DEF Marked
    <3> QED BY <3>1, <3>2, FS_Singleton
  <2> QED BY <2>1, <2>2
<1> QED BY <1>1, UiAlways, PTL
=============================================================================

-------------------------------- MODULE Ui --------------------------------
(* The event loop of the terminal application: src/main.cpp's CatchEvent    *)
(* handler, FocusController, CommandPalette, HelpOverlay and the command    *)
(* dispatch.  One step is one key, or the answer to one command.  What the  *)
(* views draw is left out; what the keys make them show is kept.            *)
EXTENDS FuzzyMatch

CONSTANTS
  Commands,            \* the command table: [id, name, alias] in its order
  kMaxVisibleResults,
  Queries,             \* bound: what a user types into the palette, letter by letter
  VerbTexts,           \* query -> verb, the queries that begin with a verb
  Entities,            \* the entities the storage may hold
  Lists                \* the entity lists a load may bring

None == "none"

ASSUME UiAssumption ==
  /\ kMaxVisibleResults \in Nat \ {0}
  /\ <<>> \in Queries
  /\ \A q \in Queries \ {<<>>} : Front(q) \in Queries
  /\ Lists \subseteq Seq(Entities) /\ None \notin Entities
  /\ Commands \in Seq(Range(Commands))

\* The letters typed.
Typed == UNION {Range(q) : q \in Queries}

ASSUME TypedAssumption ==
  {"Esc", "Enter", "Up", "Down", "Left", "Right", "Tab", "BackTab", "Backspace"}
    \intersect Typed = {}

VARIABLES
  focus,      \* FocusController: level_, focused_, drilled_, pre_modal_*
  palette,    \* CommandPalette: open_, query_, results_, selected_ (from 0)
  help,       \* HelpOverlay: open_
  tab,        \* current_tab
  armed,      \* g_pending
  entities,   \* data_store.entities, as a sequence
  banked,     \* the entities the loaded accounts belong to
  current,    \* current_entity, from 0
  shown,      \* the entity whose account the transactions view shows
  phase       \* "running", "saved" or "left" (ended), "undefined"

vars == <<focus, palette, help, tab, armed, entities, banked, current, shown, phase>>
data == <<entities, banked, current, shown>>

Widgets == {"NetWorth", "CashFlow", "RecentActivity", "SyncStatus"}
kTabOrder == <<"NetWorth", "CashFlow", "RecentActivity", "SyncStatus">>
kGrid == <<<<"NetWorth", "CashFlow">>, <<"RecentActivity", "SyncStatus">>>>

\* The tabs reached by g and a letter, and by the view commands.
GTab == [d |-> 0, a |-> 1, t |-> 2, b |-> 3, c |-> 4, n |-> 5, D |-> 6, k |-> 7, e |-> 8,
         p |-> 9, T |-> 10, R |-> 11, r |-> 12, s |-> 13, G |-> 14]
ViewTab == [Dashboard |-> 0, Accounts |-> 1, Transactions |-> 2, Budget |-> 3,
            Categories |-> 4, Notes |-> 5, Decisions |-> 6, Tasks |-> 7, Events |-> 8,
            Proposals |-> 9, Targets |-> 10, Relationships |-> 11, RealEstate |-> 12,
            Snapshot |-> 13, Search |-> 2]
\* Commands that only write to the status line.
Messages == {"LinkPlaid", "LinkPlaidTest", "OpenConfig", "Logout", "Whoami"}

Moves == [h |-> "left", Left |-> "left", l |-> "right", Right |-> "right",
          j |-> "down", Down |-> "down", k |-> "up", Up |-> "up"]
Keys == {"Esc", "Enter", "Tab", "BackTab", "Backspace", ":", "?", "1", "2", "g", "q", "S"}
        \union DOMAIN Moves \union DOMAIN GTab \union Typed

-----------------------------------------------------------------------------
(* FocusController                                                          *)

NoFocus == [level |-> "Dashboard", on |-> None, drilled |-> None,
            preLevel |-> "Dashboard", preOn |-> None]

\* The widget n places further in the order of declaration, which wraps.
Along(w, n) ==
  LET i == CHOOSE i \in DOMAIN kTabOrder : kTabOrder[i] = w
  IN  kTabOrder[((i - 1 + n + Len(kTabOrder)) % Len(kTabOrder)) + 1]

\* The widget beside w: rows and columns wrap, and no cell is empty.
Beside(w, way) ==
  LET at == CHOOSE rc \in {1, 2} \X {1, 2} : kGrid[rc[1]][rc[2]] = w
  IN  IF way \in {"left", "right"} THEN kGrid[at[1]][3 - at[2]] ELSE kGrid[3 - at[1]][at[2]]

\* Whether handle_key claims the key, and the controller after it.
Claims(f, k) ==
  \/ k = "Esc" /\ f.level \in {"Drill", "Widget"}
  \/ k \in {"Tab", "BackTab"} /\ f.level \in {"Dashboard", "Widget"}
  \/ k \in DOMAIN Moves /\ f.level = "Widget"

\* Variant: Esc leaves a drill for the home view.
HandleKeyEscResets(f, k) ==
  IF k = "Esc" THEN NoFocus
  ELSE [f EXCEPT !.level = "Widget",
          !.on = IF k \in DOMAIN Moves THEN Beside(f.on, Moves[k])
                 ELSE IF f.on = None THEN kTabOrder[1] ELSE Along(f.on, 1)]

HandleKey(f, k) ==
  CASE k = "Esc" /\ f.level = "Drill" ->
         [f EXCEPT !.level = "Widget", !.on = f.drilled, !.drilled = None]
    [] k = "Esc" /\ f.level = "Widget" -> [f EXCEPT !.level = "Dashboard", !.on = None]
    [] k = "Tab" -> [f EXCEPT !.level = "Widget",
                       !.on = IF f.on = None THEN kTabOrder[1] ELSE Along(f.on, 1)]
    [] k = "BackTab" -> [f EXCEPT !.level = "Widget",
                           !.on = IF f.on = None THEN Last(kTabOrder) ELSE Along(f.on, -1)]
    [] OTHER -> [f EXCEPT !.on = Beside(f.on, Moves[k])]

EnterDrill(f) == [f EXCEPT !.level = "Drill", !.drilled = f.on]

EnterModal(f) ==
  IF f.level = "Modal" THEN f
  ELSE [f EXCEPT !.level = "Modal", !.on = None, !.preLevel = f.level, !.preOn = f.on]

ExitModal(f) ==
  IF f.level = "Modal" THEN [f EXCEPT !.level = f.preLevel, !.on = f.preOn] ELSE f

-----------------------------------------------------------------------------
(* CommandPalette                                                           *)

\* recompute_results, tabulated over the queries there are.
Find == [q \in Queries |-> FuzzyFind(q, Commands, kMaxVisibleResults)]

OpenPalette == [open |-> TRUE, query |-> <<>>, results |-> Find[<<>>], selected |-> 0]
ClosedPalette == [open |-> FALSE, query |-> <<>>, results |-> <<>>, selected |-> 0]
Queried(query) == [open |-> TRUE, query |-> query, results |-> Find[query], selected |-> 0]

\* The selection wraps.
Select(step) ==
  LET n == Len(palette.results)
  IN  IF n = 0 THEN palette
      ELSE [palette EXCEPT !.selected = (palette.selected + step + n) % n]

\* A key that edits the query or moves the selection.
PaletteEdits(k) ==
  /\ \/ k = "Down" /\ palette' = Select(1)
     \/ k = "Up" /\ palette' = Select(-1)
     \/ /\ k = "Backspace"
        /\ palette' = IF palette.query = <<>> THEN palette ELSE Queried(Front(palette.query))
     \/ /\ k \in Typed /\ Append(palette.query, k) \in Queries
        /\ palette' = Queried(Append(palette.query, k))
  /\ UNCHANGED <<focus, help, tab, armed, phase, data>>

PaletteCancels ==
  /\ palette' = ClosedPalette
  /\ focus' = ExitModal(focus)
  /\ UNCHANGED <<help, tab, armed, phase, data>>

-----------------------------------------------------------------------------
(* Commands                                                                 *)

\* Variant: the view changes and the widget keeps its focus.
GoToKeepsFocus(t) ==
  /\ tab' = t
  /\ focus' = ExitModal(focus)

GoTo(t) ==
  /\ tab' = t
  /\ focus' = NoFocus

\* update_views_for_entity, for the entities, accounts and current entity now in
\* force: the transactions view keeps its account if the entity has none.
UpdateViews ==
  IF entities' = <<>> THEN UNCHANGED <<shown, phase>>
  ELSE IF current' + 1 \notin DOMAIN entities'
    THEN phase' = "undefined" /\ UNCHANGED shown  \* reads past the vector's end
  ELSE /\ LET e == entities'[current' + 1]
          IN  shown' = IF e \in banked' THEN e ELSE shown
       /\ UNCHANGED phase

SwitchEntity(n) ==
  /\ current' = n - 1
  /\ UNCHANGED <<entities, banked>>
  /\ UpdateViews

\* Variant: new data under the old views.
RefreshWithoutViews ==
  /\ \E l \in Lists, b \in SUBSET Entities :
       b \subseteq Range(l) /\ entities' = l /\ banked' = b
  /\ UNCHANGED <<current, shown, phase>>

\* data_store.load: what the storage holds, all or the part that came before a
\* request failed, or nothing changed (an unreadable file); the views follow.
Refresh ==
  /\ \/ \E l \in Lists, b \in SUBSET Entities :
          b \subseteq Range(l) /\ entities' = l /\ banked' = b
     \/ UNCHANGED <<entities, banked>>
  /\ UNCHANGED current
  /\ UpdateViews

\* The widgets a drill command reaches by pressing Tab.
DrillSteps == [DrillNetWorth |-> 1, DrillSyncStatus |-> 2, DrillCategoryTrends |-> 3]

Dispatch(id) ==
  \/ /\ id \in DOMAIN ViewTab
     /\ GoTo(ViewTab[id])
     /\ UNCHANGED <<help, phase, data>>
  \/ /\ id \in DOMAIN DrillSteps
     /\ tab' = 0
     /\ focus' = [NoFocus EXCEPT !.level = "Widget", !.on = kTabOrder[DrillSteps[id]]]
     /\ UNCHANGED <<help, phase, data>>
  \/ /\ id = "Help"                      \* open_help, then the loop's exit_modal
     /\ help' = TRUE
     /\ focus' = ExitModal(EnterModal(focus))
     /\ UNCHANGED <<tab, phase, data>>
  \/ /\ id \in {"Personal", "Business", "Refresh", "Quit"} \union Messages
     /\ focus' = ExitModal(focus)
     /\ UNCHANGED <<tab, help>>
     /\ \/ id = "Personal" /\ Len(entities) >= 1 /\ SwitchEntity(1)
        \/ id = "Business" /\ Len(entities) >= 2 /\ SwitchEntity(2)
        \/ id = "Refresh" /\ Refresh
        \/ id = "Quit" /\ phase' = "saved" /\ UNCHANGED data
        \/ /\ \/ id \in Messages
              \/ id = "Personal" /\ Len(entities) < 1
              \/ id = "Business" /\ Len(entities) < 2
           /\ UNCHANGED <<phase, data>>

\* handle_open_command: the detail view of the decision, target or relationship
\* found, or the view as it is (no session, an error, nothing of that name).
OpenObject ==
  \/ \E t \in {6, 11} : GoTo(t)
  \/ focus' = ExitModal(focus) /\ UNCHANGED tab

\* A verb in the query is taken before the selected command.
Verb == IF palette.query \in DOMAIN VerbTexts THEN VerbTexts[palette.query] ELSE None
RunVerb ==
  /\ palette' = ClosedPalette
  /\ UNCHANGED <<help, armed, phase, data>>
  /\ \/ Verb = "open" /\ OpenObject
     \/ Verb = "reimb" /\ focus' = ExitModal(focus) /\ UNCHANGED tab
     \/ Verb = "graph" /\ GoTo(14)
     \/ Verb = "ask" /\ GoTo(15)

RunCommand ==
  /\ Verb = None /\ palette.results # <<>>
  /\ palette' = ClosedPalette
  /\ Dispatch(Commands[palette.results[palette.selected + 1]].id)
  /\ UNCHANGED armed

\* The keys an open palette does not take; they go on to the handlers below.
PaletteIgnores == {"Tab", "BackTab", "Left", "Right"}

PaletteKey(k) ==
  /\ palette.open
  /\ \/ PaletteEdits(k)
     \/ k = "Esc" /\ PaletteCancels
     \/ k = "Enter" /\ RunVerb
     \/ k = "Enter" /\ RunCommand
     \/ k = "Enter" /\ Verb = None /\ palette.results = <<>> /\ PaletteCancels

-----------------------------------------------------------------------------
(* Keys outside the dialogs                                                 *)

\* Esc closes the help; it swallows every other key.
HelpKey(k) ==
  /\ help /\ k = "Esc"
  /\ help' = FALSE
  /\ focus' = ExitModal(focus)
  /\ UNCHANGED <<palette, tab, armed, phase, data>>

OpenDialog(k) ==
  /\ \/ k = ":" /\ palette' = OpenPalette /\ UNCHANGED help
     \/ k = "?" /\ help' = TRUE /\ UNCHANGED palette
  /\ focus' = EnterModal(focus)
  /\ UNCHANGED <<tab, armed, phase, data>>

\* On tab 0 the focus controller comes first; Enter drills into one widget only,
\* and is swallowed on the others.
OnHome(k) == tab = 0 /\ (Claims(focus, k) \/ (k = "Enter" /\ focus.level = "Widget"))

HomeKey(k) ==
  /\ OnHome(k)
  /\ focus' = IF k # "Enter" THEN HandleKey(focus, k)
              ELSE IF focus.on = "NetWorth" THEN EnterDrill(focus) ELSE focus
  /\ UNCHANGED <<palette, help, tab, armed, phase, data>>

EscExits ==
  /\ phase' = "left"
  /\ UNCHANGED <<focus, palette, help, tab, armed, data>>

EntityKey(k) ==
  /\ \/ k = "1" /\ Len(entities) >= 1 /\ SwitchEntity(1)
     \/ k = "2" /\ Len(entities) >= 2 /\ SwitchEntity(2)
  /\ UNCHANGED <<focus, palette, help, tab, armed>>

\* g and a letter.
GoKey(k) ==
  /\ armed /\ k \in DOMAIN GTab
  /\ armed' = FALSE
  /\ GoTo(GTab[k])
  /\ UNCHANGED <<palette, help, phase, data>>

\* Any other key disarms g and does what it does without it: q saves and quits,
\* S saves, and the rest only move a selection or write to the status line.
OtherKey(k) ==
  /\ k \notin {"Esc"} /\ ~(armed /\ k \in DOMAIN GTab)
  /\ ~(k = "1" /\ Len(entities) >= 1) /\ ~(k = "2" /\ Len(entities) >= 2)
  /\ armed' = (k = "g")
  /\ phase' = IF k = "q" THEN "saved" ELSE phase
  /\ UNCHANGED <<focus, palette, help, tab, data>>

\* The dialogs, then ':' and '?', then the focus controller, then the rest.
Key(k) ==
  \/ PaletteKey(k)
  \/ HelpKey(k)
  \/ /\ ~palette.open /\ ~help /\ OpenDialog(k)
  \/ /\ IF palette.open THEN k \in PaletteIgnores ELSE ~help /\ k \notin {":", "?"}
     /\ \/ HomeKey(k)
        \/ ~OnHome(k) /\ k = "Esc" /\ EscExits
        \/ ~OnHome(k) /\ EntityKey(k)
        \/ ~OnHome(k) /\ GoKey(k)
        \/ ~OnHome(k) /\ OtherKey(k)

-----------------------------------------------------------------------------
(* render: what is on the screen                                            *)

\* The strip of tabs, and the views that are only named in it while open.
ViewNames ==
  <<"Home", "Accounts", "Transactions", "Budget", "Categories", "Notes", "Decisions", "Tasks",
    "Events", "Proposals", "Targets", "Relationships", "Real Estate", "Snapshot", "Graph", "Ask">>

\* One widget has a drill view; a drill into another, or behind a dialog, shows the
\* home view.
Drawn ==
  IF tab = 0 /\ focus.level = "Drill" /\ focus.drilled = "NetWorth"
  THEN "Drill_NetWorth" ELSE ViewNames[tab + 1]

Marked == {i \in DOMAIN entities : i = current + 1}

OnTop == IF palette.open THEN "palette" ELSE IF help THEN "help" ELSE None

-----------------------------------------------------------------------------
\* The App is made: what the first load brought, and the views updated once.
Init ==
  /\ focus = NoFocus /\ palette = ClosedPalette /\ help = FALSE
  /\ tab = 0 /\ armed = FALSE /\ current = 0 /\ phase = "running"
  /\ entities \in Lists \union {<<>>}
  /\ banked \in SUBSET Range(entities)
  /\ shown = IF entities # <<>> /\ entities[1] \in banked THEN entities[1] ELSE None

Next == phase = "running" /\ \E k \in Keys : Key(k)

Spec == Init /\ [][Next]_vars

-----------------------------------------------------------------------------
\* What the controller's level implies about the rest: focus and drills only on
\* the home tab ("the controller is kept in a reset state" elsewhere), a drill
\* remembers its widget, also behind a dialog, and a modal level belongs to an
\* open dialog, so no key is ever lost in it.
FocusCoherent ==
  LET level == IF focus.level = "Modal" THEN focus.preLevel ELSE focus.level
      on    == IF focus.level = "Modal" THEN focus.preOn ELSE focus.on
  IN  /\ focus.level = "Modal" => palette.open \/ help
      /\ palette.open => focus.level = "Modal" /\ ~help
      /\ level \in {"Dashboard", "Widget", "Drill"}
      /\ level = "Dashboard" <=> on = None
      /\ level # "Dashboard" => tab = 0 /\ on \in Widgets
      /\ focus.drilled = IF level = "Drill" THEN on ELSE None

\* Each variable holds what the code can put in it, and level, tab and dialogs fit
\* together.
TypeOK ==
  /\ focus \in [level : {"Dashboard", "Widget", "Drill", "Modal"}, on : Widgets \union {None},
                drilled : Widgets \union {None}, preLevel : {"Dashboard", "Widget", "Drill"},
                preOn : Widgets \union {None}]
  /\ FocusCoherent
  /\ palette.open \in BOOLEAN /\ palette.selected \in 0 .. kMaxVisibleResults - 1
  /\ help \in BOOLEAN /\ tab \in 0 .. 15 /\ armed \in BOOLEAN
  /\ entities \in Seq(Entities) /\ banked \subseteq Range(entities) /\ current \in {0, 1}
  /\ shown \in Entities \union {None}
  /\ phase \in {"running", "saved", "left", "undefined"}

-----------------------------------------------------------------------------
(* The palette against an exhaustive search                                 *)

\* For each query, the commands it matches with the best score of their name or
\* alias, and those whose search was cut.
Worth == [q \in Queries \ {<<>>} |-> [i \in DOMAIN Commands |->
            Max({BestScore(q, Commands[i].name), BestScore(q, Commands[i].alias)})]]
Cut == [q \in Queries \ {<<>>} |->
          {i \in DOMAIN Commands : CutShort(q, Commands[i].name) \/ CutShort(q, Commands[i].alias)}]
Hits == [q \in Queries |->
           IF q = <<>> THEN DOMAIN Commands ELSE {i \in DOMAIN Commands : Worth[q][i] # NoScore}]

\* Every command of `some` shown comes before those of it that are worse, or as good
\* and later in the table, shown or not.
Ranked(results, q, some) ==
  \A n \in {m \in DOMAIN results : results[m] \in some} :
    \A j \in some \ {results[m] : m \in 1 .. n} :
      \/ Worth[q][results[n]] > Worth[q][j]
      \/ Worth[q][results[n]] = Worth[q][j] /\ results[n] < j

\* CommandRegistry.h: a limit on the search hides no command.  The palette lists the
\* commands whose name or alias has the letters of the query in order, up to its
\* size, each once; those whose search was not cut stand in the order an exhaustive
\* search gives; an alias typed in full puts its command first, where Enter takes
\* it; and the selection, whatever was typed and erased, is one of the list.
PaletteLists ==
  palette.open =>
    LET q == palette.query
        r == palette.results
    IN  /\ Range(r) \subseteq Hits[q] /\ IsInjective(r)
        /\ Len(r) = Min({kMaxVisibleResults, Cardinality(Hits[q])})
        /\ palette.selected < Max({1, Len(r)})
        /\ q # <<>> => Ranked(r, q, Hits[q] \ Cut[q])
        /\ \A i \in DOMAIN Commands : Commands[i].alias = q => r[1] = i

\* fuzzy_match.h:53, kRecursionLimit is the "max depth of the best-path recursion".
\* A limit of ten on the depth leaves each of the program's commands its best
\* placement, so all would stand in the order an exhaustive search gives.
PaletteRanks ==
  palette.open /\ palette.query # <<>> => Ranked(palette.results, palette.query, Hits[palette.query])

-----------------------------------------------------------------------------
\* How many times Esc must be pressed before it leaves the program.
Depth ==
  LET level == IF focus.level = "Modal" THEN focus.preLevel ELSE focus.level
  IN  (IF palette.open \/ help THEN 1 ELSE 0)
      + (CASE level = "Dashboard" -> 0 [] level = "Widget" -> 1 [] level = "Drill" -> 2)

\* UI_REDESIGN_V0.3.md 3a, "Esc ascends one level": from wherever the keys led,
\* each Esc closes exactly one thing while anything is open, and never leaves the
\* program then; on another view than the home one, with nothing open, it leaves.
EscPopsOne ==
  [][Key("Esc") => IF Depth > 0 THEN Depth' = Depth - 1 /\ phase' = phase
                   ELSE tab # 0 => phase' = "left"]_vars

\* main.cpp:1566, "explicit no-op at Dashboard top-level", and
\* UI_REDESIGN_V0.3.md:212: on the home view with nothing open Esc does nothing.
EscAtHomeIsNoOp ==
  [][Key("Esc") /\ Depth = 0 /\ tab = 0 => phase' = phase]_vars

\* What is on the screen is what the state says: while the program is defined, one
\* of the loaded entities is marked as current, the transactions are its own if it
\* has accounts, and a drill that takes the keys is drawn, under no palette.  Under
\* the help it may be: help opened from the palette takes the level off Modal.
ShownIsCurrent ==
  phase # "undefined" =>
    /\ focus.level = "Drill" => Drawn = "Drill_NetWorth" /\ OnTop # "palette"
    /\ entities # <<>> =>
         /\ Cardinality(Marked) = 1
         /\ entities[current + 1] \in banked => shown = entities[current + 1]
=============================================================================

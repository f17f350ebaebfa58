-------------------------------- MODULE MCUi --------------------------------
(* Instances of Ui for TLC, with the program's own commands                  *)
(* (utils/CommandRegistry.cpp, kCommands).                                   *)
EXTENDS Ui

CONSTANTS e1, e2

\* A string as the sequence of its letters.
Letters(s) == [i \in 1 .. Len(s) |-> SubSeq(s, i, i)]

MCLowerOf ==
  [A |-> "a", B |-> "b", C |-> "c", D |-> "d", E |-> "e", F |-> "f", G |-> "g",
   H |-> "h", I |-> "i", J |-> "j", K |-> "k", L |-> "l", M |-> "m", N |-> "n",
   O |-> "o", P |-> "p", Q |-> "q", R |-> "r", S |-> "s", T |-> "t", U |-> "u",
   V |-> "v", W |-> "w", X |-> "x", Y |-> "y", Z |-> "z"]

C(id, name, alias) == [id |-> id, name |-> Letters(name), alias |-> Letters(alias)]

MCCommands == <<
  C("Dashboard", "Switch view: Dashboard", "dashboard"),
  C("Accounts", "Switch view: Accounts", "accounts"),
  C("Transactions", "Switch view: Transactions", "tx"),
  C("Budget", "Switch view: Budget", "budget"),
  C("Personal", "Switch entity: Personal", "personal"),
  C("Business", "Switch entity: Business", "business"),
  C("LinkPlaid", "Link Plaid account", "plaid-link"),
  C("LinkPlaidTest", "Link Plaid sandbox (test)", "plaid-test"),
  C("OpenConfig", "Open config", "config"),
  C("Quit", "Quit (save and exit)", "quit"),
  C("DrillNetWorth", "Drill into: Net Worth", "net-worth"),
  C("DrillSyncStatus", "Drill into: Sync Status", "sync-status"),
  C("DrillCategoryTrends", "Drill into: Category Trends", "trends"),
  C("Help", "Show keybindings (help)", "help"),
  C("Logout", "Logout (clear session)", "logout"),
  C("Whoami", "Show current user (whoami)", "whoami"),
  C("Refresh", "Refresh data from backend", "refresh"),
  C("Search", "Search transactions", "search"),
  C("Categories", "Switch view: Categories", "categories"),
  C("Notes", "Switch view: Notes", "notes"),
  C("Decisions", "Switch view: Decisions", "decisions"),
  C("Tasks", "Switch view: Tasks", "tasks"),
  C("Events", "Switch view: Events", "events"),
  C("Proposals", "Switch view: Proposals inbox", "proposals"),
  C("Targets", "Switch view: Targets", "targets"),
  C("Relationships", "Switch view: Relationships", "relationships"),
  C("RealEstate", "Switch view: Real Estate", "real-estate"),
  C("Snapshot", "Switch view: Snapshot (widgets)", "snapshot") >>

MCVerbs == [q \in {Letters(s) : s \in {"open x", "graph", "ask", " ask", ":ask x", "reimb"}} |->
              IF q = Letters("open x") THEN "open"
              ELSE IF q = Letters("graph") THEN "graph"
              ELSE IF q = Letters("reimb") THEN "reimb" ELSE "ask"]

\* What is typed on the way to each of some texts.
Typing(texts) == UNION {Prefixes(t) : t \in texts}

\* The verbs; a letter that many commands have; three aliases, one of them with a
\* separator; and a beginning of names that the limit on the search reorders.
MCQueries ==
  Typing(DOMAIN MCVerbs \union {Letters(s) : s \in {"c", "quit", "tx", "net-worth", "Swit"}})

\* Every alias as well.
MCAliasQueries ==
  Typing({c.alias : c \in Range(MCCommands)} \union {Letters("Switch"), Letters("Drill into")})

MCLists == {<<>>, <<e1>>, <<e1, e2>>, <<e2>>}
MCNoLists == {<<>>}

\* The tables of the queries are total.
ASSUME TablesAssumption ==
  /\ Find \in [Queries -> Seq(DOMAIN Commands)]
  /\ Worth \in [Queries \ {<<>>} -> [DOMAIN Commands -> Int]]
  /\ Cut \in [Queries \ {<<>>} -> SUBSET DOMAIN Commands]
  /\ Hits \in [Queries -> SUBSET DOMAIN Commands]
=============================================================================

------------------------ MODULE ControlCenter_proofs ------------------------
(***************************************************************************)
(* Proofs about ControlCenter, for any number of shells, missions and      *)
(* workspaces.  The invariant has two halves: what the screen remembers    *)
(* (ScreenInv), and who answers for a workspace (OwnershipInv).            *)
(***************************************************************************)
EXTENDS ControlCenter, FiniteSetTheorems, TLAPS

USE ControlAssumption

Views == {"list", "search", "new", "send", "help", "quit"}
Places == 0 .. MaxMissions

AppTypeOK == app \in Apps /\ (app.selected = 0 \/ app.selected < Cardinality(List))

\* The keys of a form are not those of the list, and no key but `q` is taken
\* while a job is under way: a deletion waits for its confirmation, and a form
\* for its task, with no job beside it.
ModesAreExclusive ==
    /\ app.confirm => app.view = "list" /\ ~app.busy
    /\ app.busy => app.view \in {"list", "quit"}

\* Until the list is read again, what the user was shown is what is selected.
ShownIsSelected ==
    (app.view = "send" \/ app.confirm) /\ ~intent.changed =>
        \/ List = {} /\ intent.mission = 0
        \/ intent.mission \in List /\ Selected(intent.mission)

\* Nothing runs for the control center that it does not wait for.
ConsoleRests == ~app.busy => worker[Console] = NoWork

IntentTypeOK == intent \in [mission : MissionIds \cup {0}, changed : BOOLEAN]

ScreenInv ==
    /\ missions \subseteq MissionIds
    /\ AppTypeOK /\ IntentTypeOK
    /\ ModesAreExclusive /\ ShownIsSelected /\ ConsoleRests

-----------------------------------------------------------------------------
\* Lists are finite and fit on the screen, and a position names one mission.
LEMMA ListsAreFinite ==
    ASSUME NEW S \in SUBSET MissionIds, NEW filtered \in BOOLEAN
    PROVE  /\ IsFiniteSet(Shown(S, filtered))
           /\ Shown(S, filtered) \subseteq MissionIds
           /\ Cardinality(Shown(S, filtered)) \in Places
           /\ Cardinality(Shown(S, filtered)) = 0 <=> Shown(S, filtered) = {}
<1>1. IsFiniteSet(MissionIds) /\ Cardinality(MissionIds) = MaxMissions
  BY FS_Interval DEF MissionIds
<1>2. Shown(S, filtered) \in SUBSET MissionIds
  BY DEF Shown
<1> DEFINE T == Shown(S, filtered)
<1> HIDE DEF T
<1>3. IsFiniteSet(T) /\ Cardinality(T) <= MaxMissions
  BY <1>1, <1>2, FS_Subset DEF T
<1>4. Cardinality(T) \in Nat /\ (Cardinality(T) = 0 <=> T = {})
  BY <1>3, FS_CardinalityType, FS_EmptySet
<1>5. QED
  BY <1>2, <1>3, <1>4 DEF T, Places

LEMMA OneAtAPosition ==
    ASSUME AppTypeOK, NEW m \in List, NEW k \in List, Selected(m), Selected(k)
    PROVE  m = k
<1>1. List \subseteq Int /\ IsFiniteSet(List)
  BY ListsAreFinite DEF AppTypeOK, Apps, List, MissionIds
<1>2. ASSUME NEW a \in List, NEW b \in List, a < b,
             Cardinality({j \in List : j > a}) = Cardinality({j \in List : j > b})
      PROVE  FALSE
  <2> DEFINE A == {j \in List : j > a}
             B == {j \in List : j > b}
  <2>0. A \in SUBSET List /\ B \in SUBSET A
    <3>1. \A j \in List : j > b => j > a
      BY <1>1, <1>2
    <3>2. QED
      BY <3>1
  <2>1. IsFiniteSet(A) /\ B \in SUBSET A
    <3> HIDE DEF A, B
    <3>1. QED
      BY <1>1, <2>0, FS_Subset
  <2>2. A = B
    BY <1>2, <2>1, FS_Subset
  <2>3. b \in A /\ b \notin B
    BY <1>1, <1>2
  <2>4. QED
    BY <2>2, <2>3
<1>3. Cardinality({j \in List : j > m}) = Cardinality({j \in List : j > k})
  BY DEF Selected, AtPosition
<1>4. m \in Int /\ k \in Int
  BY <1>1
<1>5. QED
  BY <1>2, <1>3, <1>4

\* The fields of what the control center remembers.
LEMMA AppFields ==
    ASSUME app \in Apps
    PROVE  /\ app.view \in Views /\ app.catalog \subseteq MissionIds
           /\ app.filtered \in BOOLEAN /\ app.selected \in Places
           /\ app.confirm \in BOOLEAN /\ app.busy \in BOOLEAN
BY DEF Apps, Views, Places

\* What a list becomes that is read again.
LEMMA RefreshedApp ==
    ASSUME missions \subseteq MissionIds, NEW a \in Apps
    PROVE  /\ Refreshed(a) \in Apps
           /\ Refreshed(a).view = a.view /\ Refreshed(a).busy = a.busy
           /\ Refreshed(a).confirm = a.confirm /\ Refreshed(a).filtered = a.filtered
           /\ Refreshed(a).catalog = missions
           /\ Refreshed(a).selected = Clamped(a.selected, Cardinality(Shown(missions, a.filtered)))
           /\ \/ Refreshed(a).selected = 0
              \/ Refreshed(a).selected < Cardinality(Shown(missions, a.filtered))
<1> DEFINE size == Cardinality(Shown(missions, a.filtered))
           place == Clamped(a.selected, size)
<1>1. a.filtered \in BOOLEAN /\ a.selected \in Places
  BY DEF Apps, Places
<1>2. size \in Places
  BY <1>1, ListsAreFinite
<1> HIDE DEF size
<1>3. place \in Places /\ (place = 0 \/ place < size)
  BY <1>1, <1>2 DEF Clamped, Places
<1> HIDE DEF place
<1>4. Refreshed(a) = [a EXCEPT !.catalog = missions, !.selected = place]
  BY DEF Refreshed, place, size
<1>5. [a EXCEPT !.catalog = missions, !.selected = place] \in Apps
  BY <1>3 DEF Apps, Places
<1>6. QED
  BY <1>3, <1>4, <1>5 DEF Apps, place, size

-----------------------------------------------------------------------------
\* The screen after a step that leaves the list as it is.
LEMMA KeyStep ==
    ASSUME ScreenInv, missions' \subseteq MissionIds, app' \in Apps,
           app'.catalog = app.catalog, app'.filtered = app.filtered,
           app'.selected = 0 \/ app'.selected < Cardinality(List),
           IntentTypeOK', ModesAreExclusive', ConsoleRests',
           (app'.view = "send" \/ app'.confirm) /\ ~intent'.changed =>
               /\ app'.selected = app.selected
               /\ \/ List = {} /\ intent'.mission = 0
                  \/ intent'.mission \in List /\ Selected(intent'.mission)
    PROVE  ScreenInv'
<1>1. List' = List
  BY DEF List, Shown
<1>2. AppTypeOK'
  BY <1>1 DEF AppTypeOK
<1>3. ShownIsSelected'
  <2> SUFFICES ASSUME app'.view = "send" \/ app'.confirm, ~intent'.changed
               PROVE  \/ List' = {} /\ intent'.mission = 0
                      \/ intent'.mission \in List' /\ Selected(intent.mission)'
    BY DEF ShownIsSelected
  <2>1. CASE List = {} /\ intent'.mission = 0
    BY <1>1, <2>1
  <2>2. CASE intent'.mission \in List /\ Selected(intent'.mission)
    BY <1>1, <2>2 DEF Selected, AtPosition
  <2>3. QED
    BY <2>1, <2>2
<1>4. QED
  BY <1>2, <1>3 DEF ScreenInv

\* A key of the list that starts no job, or one for the mission that is selected.
LEMMA ListKeyStep ==
    ASSUME ScreenInv, missions' \subseteq MissionIds, NEW a \in Apps, ListKey(a),
           a.catalog = app.catalog, a.filtered = app.filtered,
           a.selected = 0 \/ a.selected < Cardinality(List),
           a.busy => a.view = "list",
           ~a.busy => worker' = worker,
           a.view # "send", IntentTypeOK'
    PROVE  ScreenInv'
<1> DEFINE b == [a EXCEPT !.confirm = FALSE]
<1>1. /\ b \in Apps /\ b.view = a.view /\ b.catalog = a.catalog /\ b.filtered = a.filtered
      /\ b.selected = a.selected /\ b.busy = a.busy /\ ~b.confirm
  BY DEF Apps
<1>2. app' = b /\ app.view = "list" /\ ~app.busy
  BY DEF ListKey, OnKey
<1> HIDE DEF b
<1>3. ModesAreExclusive'
  BY <1>1, <1>2 DEF ModesAreExclusive
<1>4. ConsoleRests'
  BY <1>1, <1>2 DEF ScreenInv, ConsoleRests
<1>5. QED
  BY <1>1, <1>2, <1>3, <1>4, KeyStep

LEMMA TickScreen ==
    ASSUME ScreenInv, Tick
    PROVE  ScreenInv'
<1>1. /\ app \in Apps /\ missions \subseteq MissionIds /\ missions' = missions
      /\ app.selected = 0 \/ app.selected < Cardinality(List)
      /\ app.selected \in Places /\ app.filtered \in BOOLEAN
  BY DEF ScreenInv, AppTypeOK, Tick, tableVars, Apps, Places
<1> DEFINE b == Refreshed(app)
<1>2. app' = b /\ ~app.busy /\ worker' = worker
  BY DEF Tick
<1>3. /\ b \in Apps /\ b.view = app.view /\ b.busy = app.busy /\ b.confirm = app.confirm
      /\ b.filtered = app.filtered /\ b.catalog = missions
      /\ b.selected = Clamped(app.selected, Cardinality(Shown(missions, app.filtered)))
      /\ b.selected = 0 \/ b.selected < Cardinality(Shown(missions, app.filtered))
  BY <1>1, RefreshedApp
<1> HIDE DEF b
<1>4. AppTypeOK'
  BY <1>1, <1>2, <1>3 DEF AppTypeOK, List
<1>5. IntentTypeOK' /\ intent'.mission = intent.mission
      /\ (~intent'.changed => ~intent.changed /\ missions = app.catalog)
  <2> DEFINE changed == intent.changed \/ missions # app.catalog
  <2>1. intent \in [mission : MissionIds \cup {0}, changed : BOOLEAN] /\ changed \in BOOLEAN
    BY DEF ScreenInv, IntentTypeOK
  <2>2. intent' = [intent EXCEPT !.changed = changed]
    BY DEF Tick
  <2>3. changed = (intent.changed \/ missions # app.catalog)
    OBVIOUS
  <2> HIDE DEF changed
  <2>4. IntentTypeOK' /\ intent'.mission = intent.mission /\ intent'.changed = changed
    BY <2>1, <2>2 DEF IntentTypeOK
  <2>5. QED
    BY <2>3, <2>4, Zenon
<1>6. ModesAreExclusive' /\ ConsoleRests'
  BY <1>2, <1>3 DEF ScreenInv, ModesAreExclusive, ConsoleRests
<1>7. ASSUME ~intent'.changed PROVE List' = List /\ app'.selected = app.selected
  <2>1. List' = List
    BY <1>2, <1>3, <1>5, <1>7 DEF List
  <2>2. Cardinality(List) \in Places /\ List = Shown(missions, app.filtered)
    BY <1>1, <1>5, <1>7, ListsAreFinite DEF List
  <2>3. b.selected = Clamped(app.selected, Cardinality(List))
    BY <1>3, <2>2
  <2>4. QED
    BY <1>1, <1>2, <2>1, <2>2, <2>3 DEF Clamped, Places
<1>8. ShownIsSelected'
  BY <1>2, <1>3, <1>5, <1>7 DEF ScreenInv, ShownIsSelected, Selected, AtPosition
<1>9. QED
  BY <1>1, <1>4, <1>5, <1>6, <1>8 DEF ScreenInv

\* `j` and `k` wrap around.
LEMMA MoveScreen ==
    ASSUME ScreenInv, MoveSelection
    PROVE  ScreenInv'
<1>1. /\ app \in Apps /\ missions \subseteq MissionIds /\ missions' = missions
      /\ app.selected = 0 \/ app.selected < Cardinality(List)
      /\ app.selected \in Places /\ app.filtered \in BOOLEAN /\ app.catalog \subseteq MissionIds
  BY DEF ScreenInv, AppTypeOK, MoveSelection, tableVars, Apps, Places
<1>2. Cardinality(List) \in Places /\ (Cardinality(List) = 0 <=> List = {})
  BY <1>1, ListsAreFinite DEF List
<1>3. /\ IntentTypeOK' /\ worker' = worker /\ app.view = "list" /\ ~app.busy
  BY DEF MoveSelection, ListKey, OnKey, ScreenInv, IntentTypeOK
<1>4. CASE List = {} /\ ListKey(app)
  BY <1>1, <1>3, <1>4, ListKeyStep
<1>5. ASSUME NEW delta \in {1, -1}, List # {},
             ListKey([app EXCEPT !.selected = (app.selected + delta) % Cardinality(List)])
      PROVE  ScreenInv'
  <2> DEFINE size == Cardinality(List)
             place == (app.selected + delta) % size
             a == [app EXCEPT !.selected = place]
  <2>1. size \in Places /\ size # 0
    BY <1>2, <1>5
  <2>2. place \in 0 .. size - 1
    <3> HIDE DEF size
    <3>1. app.selected + delta \in Int /\ size \in Nat \ {0}
      BY <1>1, <2>1 DEF Places
    <3> DEFINE n == app.selected + delta
    <3> HIDE DEF n
    <3>2. n % size \in 0 .. size - 1
      BY <3>1 DEF n
    <3>3. QED
      BY <3>2 DEF n
  <2>3. place \in Places /\ place < size
    <3> HIDE DEF place, size
    <3>1. QED
      BY <2>1, <2>2 DEF Places
  <2>4. ListKey(a)
    BY <1>5
  <2> HIDE DEF place
  <2>5. /\ a \in Apps /\ a.view = app.view /\ a.catalog = app.catalog /\ a.filtered = app.filtered
        /\ a.selected = place /\ a.busy = app.busy
    BY <1>1, <2>3 DEF Apps, Places
  <2> HIDE DEF a
  <2>6. QED
    BY <1>1, <1>3, <2>3, <2>4, <2>5, ListKeyStep
<1>6. QED
  BY <1>4, <1>5 DEF MoveSelection

\* The facts about the state before a key that the lemmas below share.
LEMMA BeforeAKey ==
    ASSUME ScreenInv
    PROVE  /\ app \in Apps /\ missions \subseteq MissionIds /\ IntentTypeOK
           /\ app.selected = 0 \/ app.selected < Cardinality(List)
           /\ app.selected \in Places /\ app.filtered \in BOOLEAN
           /\ app.catalog \subseteq MissionIds /\ app.view \in Views
           /\ List \subseteq MissionIds /\ Cardinality(List) \in Places
<1>1. app \in Apps
  BY DEF ScreenInv, AppTypeOK
<1>2. app.filtered \in BOOLEAN /\ app.catalog \subseteq MissionIds
  BY <1>1, AppFields
<1>3. List \subseteq MissionIds /\ Cardinality(List) \in Places
  BY <1>2, ListsAreFinite DEF List
<1>4. QED
  BY <1>1, <1>3, AppFields DEF ScreenInv, AppTypeOK

LEMMA ViewScreen ==
    ASSUME ScreenInv, ChangeView
    PROVE  ScreenInv'
<1>1. PICK view \in {"list", "search", "new", "help", "quit"} : ListKey([app EXCEPT !.view = view])
  BY DEF ChangeView
<1> DEFINE a == [app EXCEPT !.view = view]
<1>2. /\ a \in Apps /\ a.view = view /\ a.catalog = app.catalog /\ a.filtered = app.filtered
      /\ a.selected = app.selected /\ a.busy = app.busy
  BY BeforeAKey DEF Apps
<1>3. ListKey(a)
  BY <1>1
<1> HIDE DEF a
<1>4. missions' = missions /\ worker' = worker /\ IntentTypeOK' /\ ~app.busy
  BY BeforeAKey, <1>1 DEF ChangeView, tableVars, IntentTypeOK, ListKey, OnKey
<1>5. QED
  BY <1>2, <1>3, <1>4, BeforeAKey, ListKeyStep

LEMMA SearchScreen ==
    ASSUME ScreenInv, EditSearch
    PROVE  ScreenInv'
<1>1. PICK filtered \in BOOLEAN, view \in {"list", "search"} :
         app' = [app EXCEPT
              !.filtered = filtered, !.view = view,
              !.selected = IF view = "search" THEN 0
                           ELSE Clamped(app.selected, Cardinality(Shown(app.catalog, filtered)))]
  BY DEF EditSearch
<1> DEFINE size == Cardinality(Shown(app.catalog, filtered))
           place == IF view = "search" THEN 0 ELSE Clamped(app.selected, size)
           a == [app EXCEPT !.filtered = filtered, !.view = view, !.selected = place]
<1>2. size \in Places
  BY BeforeAKey, ListsAreFinite
<1>3. place \in Places /\ (place = 0 \/ place < size)
  <2> HIDE DEF size
  <2>1. QED
    BY <1>2, BeforeAKey DEF Clamped, Places
<1>4. app' = a
  BY <1>1
<1> HIDE DEF place
<1>5. /\ a \in Apps /\ a.view = view /\ a.catalog = app.catalog /\ a.filtered = filtered
      /\ a.selected = place /\ a.busy = app.busy /\ a.confirm = app.confirm
  BY <1>3, BeforeAKey DEF Apps, Places
<1> HIDE DEF a
<1>6. missions' = missions /\ worker' = worker /\ intent' = intent
      /\ app.view = "search" /\ ~app.busy /\ ~app.confirm
  BY DEF EditSearch, tableVars, OnKey, ScreenInv, ModesAreExclusive
<1>7. AppTypeOK'
  BY <1>3, <1>4, <1>5 DEF AppTypeOK, List
<1>8. ModesAreExclusive' /\ ConsoleRests' /\ ShownIsSelected'
  BY <1>4, <1>5, <1>6 DEF ScreenInv, ModesAreExclusive, ConsoleRests, ShownIsSelected
<1>9. QED
  BY <1>6, <1>7, <1>8 DEF ScreenInv, IntentTypeOK

LEMMA FormScreen ==
    ASSUME ScreenInv, LeaveForm
    PROVE  ScreenInv'
<1> DEFINE a == [app EXCEPT !.view = "list"]
<1>1. /\ a \in Apps /\ a.view = "list" /\ a.catalog = app.catalog /\ a.filtered = app.filtered
      /\ a.selected = app.selected /\ a.busy = app.busy /\ a.confirm = app.confirm
  BY BeforeAKey DEF Apps
<1>2. app' = a /\ ~app.busy /\ app.view # "list"
  BY DEF LeaveForm, OnKey
<1>3. ~app.confirm
  BY <1>2 DEF ScreenInv, ModesAreExclusive
<1> HIDE DEF a
<1>4. missions' = missions /\ worker' = worker /\ intent' = intent
  BY DEF LeaveForm, tableVars
<1>5. ModesAreExclusive' /\ ConsoleRests' /\ IntentTypeOK'
  BY <1>1, <1>2, <1>3, <1>4 DEF ScreenInv, ModesAreExclusive, ConsoleRests, IntentTypeOK
<1>6. QED
  BY <1>1, <1>2, <1>3, <1>4, <1>5, BeforeAKey, KeyStep

\* `s` and the first `x` remember the mission that is selected.
LEMMA SendFormScreen ==
    ASSUME ScreenInv, OpenSendForm
    PROVE  ScreenInv'
<1> DEFINE a == [app EXCEPT !.view = "send"]
           b == [a EXCEPT !.confirm = FALSE]
<1>1. a \in Apps
  BY BeforeAKey DEF Apps
<1>2. /\ b \in Apps /\ b.view = "send" /\ b.catalog = app.catalog /\ b.filtered = app.filtered
      /\ b.selected = app.selected /\ b.busy = app.busy /\ ~b.confirm
  BY BeforeAKey DEF Apps
<1>3. app' = b /\ ~app.busy
  BY DEF OpenSendForm, ListKey, OnKey
<1> HIDE DEF b
<1>4. missions' = missions /\ worker' = worker
  BY DEF OpenSendForm, tableVars
<1>5. /\ IntentTypeOK'
      /\ \/ List = {} /\ intent'.mission = 0
         \/ intent'.mission \in List /\ Selected(intent'.mission)
  <2>1. CASE List = {} /\ intent' = [mission |-> 0, changed |-> FALSE]
    BY <2>1 DEF IntentTypeOK
  <2>2. ASSUME NEW m \in List, Selected(m), intent' = [mission |-> m, changed |-> FALSE]
        PROVE  IntentTypeOK' /\ intent'.mission \in List /\ Selected(intent'.mission)
    <3>1. intent'.mission = m
      BY <2>2
    <3>2. IntentTypeOK'
      BY <2>2, BeforeAKey DEF IntentTypeOK
    <3>3. QED
      BY <2>2, <3>1, <3>2
  <2>3. QED
    BY <2>1, <2>2 DEF OpenSendForm
<1>6. ModesAreExclusive' /\ ConsoleRests'
  BY <1>2, <1>3, <1>4 DEF ScreenInv, ModesAreExclusive, ConsoleRests
<1>7. QED
  BY <1>2, <1>3, <1>4, <1>5, <1>6, BeforeAKey, KeyStep

LEMMA AskScreen ==
    ASSUME ScreenInv, AskDelete
    PROVE  ScreenInv'
<1> DEFINE b == [app EXCEPT !.confirm = TRUE]
<1>1. /\ b \in Apps /\ b.view = app.view /\ b.catalog = app.catalog /\ b.filtered = app.filtered
      /\ b.selected = app.selected /\ b.busy = app.busy
  BY BeforeAKey DEF Apps
<1>2. app' = b /\ ~app.busy /\ app.view = "list"
  BY DEF AskDelete, OnKey
<1> HIDE DEF b
<1>3. missions' = missions /\ worker' = worker
  BY DEF AskDelete, tableVars
<1>4. IntentTypeOK' /\ intent'.mission \in List /\ Selected(intent'.mission)
  BY BeforeAKey DEF AskDelete, IntentTypeOK
<1>5. ModesAreExclusive' /\ ConsoleRests'
  BY <1>1, <1>2, <1>3 DEF ScreenInv, ModesAreExclusive, ConsoleRests
<1>6. QED
  BY <1>1, <1>2, <1>3, <1>4, <1>5, BeforeAKey, KeyStep

\* A key that starts a job, or leaves the form without one: nothing that was
\* shown waits for its confirmation any more.
LEMMA JobScreen ==
    ASSUME ScreenInv, DoSend \/ DoNew \/ DoDeliver \/ DoResume \/ DoDelete
    PROVE  ScreenInv'
<1> DEFINE shut == [app EXCEPT !.view = "list"]
           going == [app EXCEPT !.view = "list", !.busy = TRUE]
           started == [[app EXCEPT !.busy = TRUE] EXCEPT !.confirm = FALSE]
           confirmed == [app EXCEPT !.confirm = FALSE, !.busy = TRUE]
<1> DEFINE Same(a) == /\ a \in Apps /\ a.catalog = app.catalog /\ a.filtered = app.filtered
                      /\ a.selected = app.selected
<1>1. Same(shut) /\ shut.view = "list" /\ shut.confirm = app.confirm /\ shut.busy = app.busy
  BY BeforeAKey DEF Apps
<1>2. Same(going) /\ going.view = "list" /\ going.confirm = app.confirm /\ going.busy = TRUE
  BY BeforeAKey DEF Apps
<1>3. Same(started) /\ started.view = app.view /\ ~started.confirm /\ started.busy = TRUE
  BY BeforeAKey DEF Apps
<1>4. Same(confirmed) /\ confirmed.view = app.view /\ ~confirmed.confirm /\ confirmed.busy = TRUE
  BY BeforeAKey DEF Apps
<1>5. /\ missions' = missions /\ intent' = intent /\ ~app.busy
      /\ \/ app.view # "list" /\ ((app' = shut /\ worker' = worker) \/ app' = going)
         \/ app.view = "list" /\ (app' = started \/ app' = confirmed)
  BY DEF DoSend, DoNew, DoDeliver, DoResume, DoDelete, ListKey, OnKey, tableVars
<1>6. app.view # "list" => ~app.confirm
  BY DEF ScreenInv, ModesAreExclusive
<1> HIDE DEF shut, going, started, confirmed
<1>7. /\ Same(app') /\ app'.view = "list" /\ ~app'.confirm
      /\ ~app'.busy => worker' = worker
  BY <1>1, <1>2, <1>3, <1>4, <1>5, <1>6
<1>8. ModesAreExclusive' /\ ConsoleRests' /\ IntentTypeOK'
  BY <1>5, <1>7 DEF ScreenInv, ModesAreExclusive, ConsoleRests, IntentTypeOK
<1>9. QED
  BY <1>5, <1>7, <1>8, BeforeAKey, KeyStep

\* The answer of a job, and `q` that does not wait for it.
LEMMA PollScreen ==
    ASSUME ScreenInv, PollJob, worker \in [Workers -> Workloads]
    PROVE  ScreenInv'
<1> DEFINE a == [app EXCEPT !.busy = FALSE]
           b == Refreshed(a)
<1>1. /\ a \in Apps /\ a.view = app.view /\ a.confirm = app.confirm
      /\ a.filtered = app.filtered /\ a.busy = FALSE
  BY BeforeAKey DEF Apps
<1>2. app' = b /\ app.busy /\ app.view # "quit" /\ missions' = missions /\ intent' = intent
      /\ worker' = [worker EXCEPT ![Console] = NoWork]
  BY DEF PollJob, tableVars
<1> HIDE DEF a
<1>3. /\ b \in Apps /\ b.view = a.view /\ b.busy = a.busy /\ b.confirm = a.confirm
      /\ b.filtered = a.filtered /\ b.catalog = missions
      /\ b.selected = 0 \/ b.selected < Cardinality(Shown(missions, a.filtered))
  BY <1>1, BeforeAKey, RefreshedApp
<1> HIDE DEF b
<1>4. app.view = "list" /\ ~app.confirm
  BY <1>2 DEF ScreenInv, ModesAreExclusive
<1>5. AppTypeOK' /\ IntentTypeOK'
  BY <1>1, <1>2, <1>3, BeforeAKey DEF AppTypeOK, List, IntentTypeOK
<1>6. ModesAreExclusive' /\ ShownIsSelected'
  BY <1>1, <1>2, <1>3, <1>4 DEF ModesAreExclusive, ShownIsSelected
<1>7. worker'[Console] = NoWork
  BY <1>2 DEF Workers
<1>8. QED
  BY <1>2, <1>5, <1>6, <1>7, BeforeAKey DEF ScreenInv, ConsoleRests

LEMMA QuitScreen ==
    ASSUME ScreenInv, QuitBusy
    PROVE  ScreenInv'
<1> DEFINE b == [app EXCEPT !.view = "quit"]
<1>1. /\ b \in Apps /\ b.view = "quit" /\ b.catalog = app.catalog /\ b.filtered = app.filtered
      /\ b.selected = app.selected /\ b.busy = app.busy /\ b.confirm = app.confirm
  BY BeforeAKey DEF Apps
<1>2. app' = b /\ app.busy /\ missions' = missions /\ intent' = intent
  BY DEF QuitBusy, tableVars
<1> HIDE DEF b
<1>3. ModesAreExclusive' /\ ConsoleRests' /\ IntentTypeOK' /\ ~app.confirm
  BY <1>1, <1>2 DEF ScreenInv, ModesAreExclusive, ConsoleRests, IntentTypeOK
<1>4. QED
  BY <1>1, <1>2, <1>3, BeforeAKey, KeyStep

\* What jobs and shells do is not seen on the screen.
LEMMA WorkScreen ==
    ASSUME ScreenInv, missions' \subseteq MissionIds, UNCHANGED <<app, intent>>,
           NEW w \in Workers, worker[w].pc # "idle" \/ w \in Shells,
           NEW row, worker' = [worker EXCEPT ![w] = row]
    PROVE  ScreenInv'
<1>1. w # Console \/ app.busy
  BY DEF ScreenInv, ConsoleRests, NoWork
<1>2. ConsoleRests' /\ ModesAreExclusive' /\ IntentTypeOK'
  BY <1>1 DEF ScreenInv, ConsoleRests, ModesAreExclusive, IntentTypeOK
<1>3. QED
  BY <1>2, BeforeAKey, KeyStep DEF ScreenInv, ShownIsSelected

-----------------------------------------------------------------------------
\* What a process works at has a mission, and a workspace once it has one to
\* record or to close.
WorkOK(job) ==
    /\ job \in Workloads
    /\ job.pc \in {"read", "space", "bind", "roles", "lookup", "rows"} => job.mission \in MissionIds
    /\ job.pc \in {"bind", "close"} => job.space \in SpaceIds

TablesOK ==
    /\ missions \subseteq 1 .. nextMission - 1 /\ nextMission \in 1 .. MaxMissions + 1
    /\ recorded \in [MissionIds -> SpaceIds \cup {0}]
    /\ openSpaces \subseteq 1 .. nextSpace - 1 /\ nextSpace \in 1 .. MaxWorkspaces + 1
    /\ abandoned \subseteq SpaceIds

\* Every open workspace that is not lost sight of has someone who answers for it.
OwnershipInv ==
    /\ TablesOK
    /\ worker \in [Workers -> Workloads] /\ \A w \in Workers : WorkOK(worker[w])
    /\ DeletedLeaveNothing /\ WorkspacesAreOwned

\* A process that goes from one thing to the next, and forgets no workspace.
LEMMA WorkGoesOn ==
    ASSUME OwnershipInv, UNCHANGED <<tableVars, spaceVars>>,
           abandoned \subseteq abandoned', abandoned' \subseteq SpaceIds,
           NEW w \in Workers, NEW job, WorkOK(job), worker' = [worker EXCEPT ![w] = job],
           worker[w].pc \in {"bind", "close"} =>
               \/ worker[w].space \in abandoned'
               \/ job.pc \in {"bind", "close"} /\ job.space = worker[w].space
    PROVE  OwnershipInv'
<1>1. TablesOK' /\ DeletedLeaveNothing'
  BY DEF OwnershipInv, TablesOK, DeletedLeaveNothing, tableVars, spaceVars
<1>2. /\ worker' \in [Workers -> Workloads] /\ \A v \in Workers : WorkOK(worker'[v])
      /\ worker'[w] = job /\ \A v \in Workers \ {w} : worker'[v] = worker[v]
  BY DEF OwnershipInv, WorkOK
<1>3. WorkspacesAreOwned'
  BY <1>2 DEF OwnershipInv, WorkspacesAreOwned, tableVars, spaceVars
<1>4. QED
  BY <1>1, <1>2, <1>3 DEF OwnershipInv

\* The work a process can begin, and the ways it ends.
LEMMA NewWork ==
    /\ WorkOK(NoWork) /\ NoWork.pc = "idle"
    /\ \A pc \in {"create", "over", "dead"} : WorkOK(Work(pc, 0)) /\ Work(pc, 0).pc = pc
    /\ \A m \in MissionIds \cup {0} : WorkOK(Work("other", m)) /\ Work("other", m).pc = "other"
    /\ \A m \in MissionIds, pc \in {"read", "lookup"} : WorkOK(Work(pc, m)) /\ Work(pc, m).pc = pc
BY DEF WorkOK, NoWork, Work, Workloads

\* The step from one place of a process's program to another.
LEMMA WorkAtNext ==
    ASSUME OwnershipInv, NEW w \in Workers,
           NEW pc \in {"space", "roles", "rows", "close", "over"}, WorkGoesTo(w, pc),
           pc \in {"space", "roles", "rows"} => worker[w].mission \in MissionIds,
           pc = "close" => worker[w].space \in SpaceIds
    PROVE  \E job : /\ WorkOK(job) /\ worker' = [worker EXCEPT ![w] = job] /\ job.pc = pc
                    /\ pc # "over" => job.space = worker[w].space
<1>1. CASE pc = "over"
  BY <1>1, NewWork DEF WorkGoesTo
<1>2. CASE pc # "over"
  <2> DEFINE job == [worker[w] EXCEPT !.pc = pc]
  <2>1. worker' = [worker EXCEPT ![w] = job]
    BY <1>2 DEF WorkGoesTo
  <2>2. /\ job \in Workloads /\ job.pc = pc
        /\ job.mission = worker[w].mission /\ job.space = worker[w].space
    BY DEF OwnershipInv, Workloads
  <2> HIDE DEF job
  <2>3. WorkOK(job)
    BY <2>2 DEF WorkOK
  <2>4. QED
    BY <2>1, <2>2, <2>3
<1>3. QED
  BY <1>1, <1>2

\* Who ends here loses sight of what it was about to record or to close.
LEMMA LostWork ==
    ASSUME OwnershipInv, NEW w \in Workers, NEW job, WorkOK(job), UNCHANGED <<tableVars, spaceVars>>,
           worker' = [worker EXCEPT ![w] = job], abandoned' = abandoned \cup LostBy(w)
    PROVE  OwnershipInv'
<1>1. abandoned \subseteq SpaceIds
  BY DEF OwnershipInv, TablesOK
<1>2. LostBy(w) \subseteq SpaceIds
  BY DEF OwnershipInv, WorkOK, LostBy
<1>3. worker[w].pc \in {"bind", "close"} => worker[w].space \in LostBy(w)
  BY DEF LostBy
<1>4. QED
  BY <1>1, <1>2, <1>3, WorkGoesOn

\* Creating a mission, and creating a workspace for one.
LEMMA CreateMissionOwned ==
    ASSUME OwnershipInv, NEW w \in Workers, CreateMission(w)
    PROVE  OwnershipInv'
<1>1. nextMission \in MissionIds /\ nextMission \in Int
  BY DEF OwnershipInv, TablesOK, CreateMission, MissionIds
<1>2. PICK pc \in {"read", "over"} : worker' = [worker EXCEPT ![w] = Work(pc, nextMission)]
  BY DEF CreateMission
<1> DEFINE job == Work(pc, nextMission)
<1>3. WorkOK(job)
  BY <1>1 DEF WorkOK, Work, Workloads
<1>4. worker' = [worker EXCEPT ![w] = job] /\ worker[w].pc = "create"
  BY <1>2 DEF CreateMission, WorkAt
<1> HIDE DEF job
<1>5. /\ worker' \in [Workers -> Workloads] /\ \A v \in Workers : WorkOK(worker'[v])
      /\ \A v \in Workers \ {w} : worker'[v] = worker[v]
  BY <1>3, <1>4 DEF OwnershipInv, WorkOK
<1>6. TablesOK'
  BY <1>1 DEF OwnershipInv, TablesOK, CreateMission, spaceVars, MissionIds
<1>7. DeletedLeaveNothing'
  BY DEF OwnershipInv, DeletedLeaveNothing, CreateMission
<1>8. WorkspacesAreOwned'
  BY <1>4, <1>5 DEF OwnershipInv, WorkspacesAreOwned, CreateMission, spaceVars
<1>9. QED
  BY <1>5, <1>6, <1>7, <1>8 DEF OwnershipInv

LEMMA CreateSpaceOwned ==
    ASSUME OwnershipInv, NEW w \in Workers, CreateSpace(w)
    PROVE  OwnershipInv'
<1>1. nextSpace \in SpaceIds /\ nextSpace \in Int /\ worker[w].pc = "space"
  BY DEF OwnershipInv, TablesOK, CreateSpace, SpaceIds, WorkAt
<1> DEFINE job == [worker[w] EXCEPT !.pc = "bind", !.space = nextSpace]
<1>2. worker' = [worker EXCEPT ![w] = job]
  BY DEF CreateSpace
<1>3. /\ job \in Workloads /\ job.pc = "bind" /\ job.space = nextSpace
      /\ job.mission = worker[w].mission
  BY <1>1 DEF OwnershipInv, Workloads
<1> HIDE DEF job
<1>4. WorkOK(job)
  BY <1>1, <1>3 DEF OwnershipInv, WorkOK
<1>5. /\ worker' \in [Workers -> Workloads] /\ \A v \in Workers : WorkOK(worker'[v])
      /\ worker'[w] = job /\ \A v \in Workers \ {w} : worker'[v] = worker[v]
  BY <1>2, <1>4 DEF OwnershipInv, WorkOK
<1>6. TablesOK'
  BY <1>1 DEF OwnershipInv, TablesOK, CreateSpace, tableVars, SpaceIds
<1>7. DeletedLeaveNothing'
  BY DEF OwnershipInv, DeletedLeaveNothing, CreateSpace, tableVars
<1>8. WorkspacesAreOwned'
  BY <1>1, <1>3, <1>5 DEF OwnershipInv, WorkspacesAreOwned, CreateSpace, tableVars
<1>9. QED
  BY <1>5, <1>6, <1>7, <1>8 DEF OwnershipInv

\* Recording a workspace: it belongs to the mission, or to nobody.
LEMMA BindOwned ==
    ASSUME OwnershipInv, NEW w \in Workers, BindSpace(w)
    PROVE  OwnershipInv'
<1> DEFINE m == worker[w].mission
           s == worker[w].space
<1>1. m \in MissionIds /\ s \in SpaceIds /\ worker[w].pc = "bind" /\ recorded[m] \in SpaceIds \cup {0}
  BY DEF OwnershipInv, TablesOK, WorkOK, BindSpace, WorkAt
<1>2. CASE m \in missions
  <2>1. /\ recorded' = [recorded EXCEPT ![m] = s]
        /\ abandoned' = abandoned \cup ({recorded[m]} \ {0}) /\ WorkGoesTo(w, "roles")
        /\ UNCHANGED <<missions, nextMission, spaceVars>>
    BY <1>2 DEF BindSpace, MayBind
  <2>2. PICK job : WorkOK(job) /\ worker' = [worker EXCEPT ![w] = job]
    BY <1>1, <2>1, WorkAtNext
  <2>3. /\ worker' \in [Workers -> Workloads] /\ \A v \in Workers : WorkOK(worker'[v])
        /\ \A v \in Workers \ {w} : worker'[v] = worker[v]
    BY <2>2 DEF OwnershipInv, WorkOK
  <2>4. TablesOK'
    BY <1>1, <2>1 DEF OwnershipInv, TablesOK, spaceVars
  <2>5. /\ recorded'[m] = s /\ \A k \in MissionIds \ {m} : recorded'[k] = recorded[k]
    BY <1>1, <2>1 DEF OwnershipInv, TablesOK
  <2>6. DeletedLeaveNothing'
    BY <1>2, <2>1, <2>5 DEF OwnershipInv, DeletedLeaveNothing
  <2>7. ASSUME NEW t \in openSpaces', t \notin abandoned'
        PROVE  \/ \E k \in missions' : recorded'[k] = t
               \/ \E v \in Workers : worker'[v].space = t /\ worker'[v].pc \in {"bind", "close"}
    <3>1. t \in openSpaces \ abandoned /\ (t # recorded[m] \/ t = 0) /\ t # 0
      BY <2>1, <2>7 DEF spaceVars, OwnershipInv, TablesOK
    <3>2. CASE t = s
      BY <1>2, <2>1, <2>5, <3>2
    <3>3. ASSUME NEW k \in missions, recorded[k] = t
          PROVE  \E i \in missions' : recorded'[i] = t
      <4>1. k # m /\ k \in MissionIds
        BY <3>1, <3>3 DEF OwnershipInv, TablesOK, MissionIds
      <4>2. QED
        BY <2>1, <2>5, <3>3, <4>1
    <3>4. ASSUME NEW v \in Workers, worker[v].space = t, worker[v].pc \in {"bind", "close"}, t # s
          PROVE  \E i \in Workers : worker'[i].space = t /\ worker'[i].pc \in {"bind", "close"}
      BY <2>3, <3>4
    <3>5. QED
      BY <3>1, <3>2, <3>3, <3>4 DEF OwnershipInv, WorkspacesAreOwned
  <2>8. QED
    BY <2>3, <2>4, <2>6, <2>7 DEF OwnershipInv, WorkspacesAreOwned
<1>3. CASE m \notin missions
  <2>1. /\ UNCHANGED <<tableVars, spaceVars>>
        /\ abandoned' = abandoned \cup {s} /\ WorkGoesTo(w, "over")
    BY <1>3 DEF BindSpace, MayBind, tableVars
  <2>2. PICK job : WorkOK(job) /\ worker' = [worker EXCEPT ![w] = job]
    BY <2>1, WorkAtNext
  <2>3. abandoned' \subseteq SpaceIds
    BY <1>1, <2>1 DEF OwnershipInv, TablesOK
  <2>4. QED
    BY <2>1, <2>2, <2>3, WorkGoesOn
<1>4. QED
  BY <1>2, <1>3

\* Deleting the rows: the process answers for the workspace it has looked up,
\* and one that was recorded since is lost sight of.
LEMMA DeleteRowsOwned ==
    ASSUME OwnershipInv, NEW w \in Workers, DeleteRows(w)
    PROVE  OwnershipInv'
<1> DEFINE m == worker[w].mission
           s == worker[w].space
<1>1. /\ m \in MissionIds /\ s \in SpaceIds \cup {0} /\ worker[w].pc = "rows"
      /\ recorded[m] \in SpaceIds \cup {0}
  BY DEF OwnershipInv, TablesOK, WorkOK, Workloads, DeleteRows, WorkAt
<1>2. /\ missions' = missions \ {m} /\ recorded' = [recorded EXCEPT ![m] = 0]
      /\ abandoned' = abandoned \cup ({recorded[m]} \ {0, s})
      /\ WorkGoesTo(w, AfterRows(s)) /\ UNCHANGED <<nextMission, spaceVars>>
  BY DEF DeleteRows
<1>3. /\ AfterRows(s) \in {"over", "close"} /\ (AfterRows(s) = "close" <=> s # 0)
      /\ AfterRows(s) = "close" => s \in SpaceIds
  BY <1>1 DEF AfterRows
<1>4. PICK job : /\ WorkOK(job) /\ worker' = [worker EXCEPT ![w] = job]
                 /\ s # 0 => job.pc = "close" /\ job.space = s
  <2>1. \E job : /\ WorkOK(job) /\ worker' = [worker EXCEPT ![w] = job] /\ job.pc = AfterRows(s)
                 /\ AfterRows(s) # "over" => job.space = worker[w].space
    <3>1. AfterRows(s) \in {"space", "roles", "rows", "close", "over"}
      BY <1>3
    <3>2. AfterRows(s) \in {"space", "roles", "rows"} => worker[w].mission \in MissionIds
      BY <1>1
    <3>3. AfterRows(s) = "close" => worker[w].space \in SpaceIds
      BY <1>3
    <3>4. QED
      BY <1>2, <3>1, <3>2, <3>3, WorkAtNext
  <2>2. QED
    BY <1>3, <2>1
<1>5. /\ worker' \in [Workers -> Workloads] /\ \A v \in Workers : WorkOK(worker'[v])
      /\ worker'[w] = job /\ \A v \in Workers \ {w} : worker'[v] = worker[v]
  BY <1>4 DEF OwnershipInv, WorkOK
<1>6. TablesOK'
  BY <1>1, <1>2 DEF OwnershipInv, TablesOK, spaceVars
<1>7. recorded'[m] = 0 /\ \A k \in MissionIds \ {m} : recorded'[k] = recorded[k]
  BY <1>1, <1>2 DEF OwnershipInv, TablesOK
<1>8. DeletedLeaveNothing'
  BY <1>2, <1>7 DEF OwnershipInv, DeletedLeaveNothing
<1>9. ASSUME NEW t \in openSpaces', t \notin abandoned'
      PROVE  \/ \E k \in missions' : recorded'[k] = t
             \/ \E v \in Workers : worker'[v].space = t /\ worker'[v].pc \in {"bind", "close"}
  <2>1. t \in openSpaces \ abandoned /\ t # 0 /\ (t = recorded[m] => t = s)
    BY <1>2, <1>9 DEF spaceVars, OwnershipInv, TablesOK
  <2>2. CASE t = s
    BY <1>4, <1>5, <2>1, <2>2
  <2>3. ASSUME NEW k \in missions, recorded[k] = t, t # s
        PROVE  \E i \in missions' : recorded'[i] = t
    <3>1. k # m /\ k \in MissionIds
      BY <2>1, <2>3 DEF OwnershipInv, TablesOK, MissionIds
    <3>2. QED
      BY <1>2, <1>7, <2>3, <3>1
  <2>4. ASSUME NEW v \in Workers, worker[v].space = t, worker[v].pc \in {"bind", "close"}
        PROVE  \E i \in Workers : worker'[i].space = t /\ worker'[i].pc \in {"bind", "close"}
    BY <1>1, <1>5, <2>4
  <2>5. QED
    BY <2>1, <2>2, <2>3, <2>4 DEF OwnershipInv, WorkspacesAreOwned
<1>10. QED
  BY <1>5, <1>6, <1>8, <1>9 DEF OwnershipInv, WorkspacesAreOwned

LEMMA CloseOwned ==
    ASSUME OwnershipInv, NEW w \in Workers, CloseSpace(w)
    PROVE  OwnershipInv'
<1>1. openSpaces' = openSpaces \ {worker[w].space} /\ UNCHANGED <<tableVars, nextSpace, abandoned>>
  BY DEF CloseSpace
<1>2. PICK job : WorkOK(job) /\ worker' = [worker EXCEPT ![w] = job]
  BY WorkAtNext DEF CloseSpace
<1>3. /\ worker' \in [Workers -> Workloads] /\ \A v \in Workers : WorkOK(worker'[v])
      /\ \A v \in Workers \ {w} : worker'[v] = worker[v]
  BY <1>2 DEF OwnershipInv, WorkOK
<1>4. TablesOK' /\ DeletedLeaveNothing'
  BY <1>1 DEF OwnershipInv, TablesOK, DeletedLeaveNothing, tableVars
<1>5. WorkspacesAreOwned'
  BY <1>1, <1>3 DEF OwnershipInv, WorkspacesAreOwned, tableVars
<1>6. QED
  BY <1>3, <1>4, <1>5 DEF OwnershipInv

\* A step of a job or of a shell.
LEMMA WorkerOwned ==
    ASSUME OwnershipInv, NEW w \in Workers, StartShell(w) \/ WorkerStep(w)
    PROVE  OwnershipInv'
<1>0. abandoned \subseteq SpaceIds /\ WorkOK(worker[w])
  BY DEF OwnershipInv, TablesOK
<1>1. CASE StartShell(w)
  <2>1. UNCHANGED <<tableVars, spaceVars, abandoned>> /\ worker[w].pc = "idle"
    BY <1>1 DEF StartShell, WorkAt
  <2>2. PICK job : WorkOK(job) /\ worker' = [worker EXCEPT ![w] = job]
    <3>1. 1 .. nextMission - 1 \subseteq MissionIds
      BY DEF OwnershipInv, TablesOK, MissionIds
    <3>2. QED
      BY <1>1, <3>1, NewWork DEF StartShell
  <2>3. QED
    BY <1>0, <2>1, <2>2, WorkGoesOn
<1>2. CASE ReadMission(w)
  <2>1. UNCHANGED <<tableVars, spaceVars, abandoned>> /\ worker[w].pc = "read"
    BY <1>2 DEF ReadMission, WorkAt
  <2>2. PICK job : WorkOK(job) /\ worker' = [worker EXCEPT ![w] = job]
    <3>1. worker[w].mission \in MissionIds
      BY <1>0, <2>1 DEF WorkOK
    <3>2. WorkGoesTo(w, "over") \/ WorkGoesTo(w, "space") \/ WorkGoesTo(w, "roles")
      BY <1>2 DEF ReadMission
    <3>3. QED
      BY <3>1, <3>2, WorkAtNext
  <2>3. QED
    BY <1>0, <2>1, <2>2, WorkGoesOn
<1>3. CASE LaunchRoles(w)
  <2>1. UNCHANGED <<tableVars, spaceVars, abandoned>> /\ worker[w].pc \in {"roles", "other"}
    BY <1>3 DEF LaunchRoles, WorkAt
  <2>2. PICK job : WorkOK(job) /\ worker' = [worker EXCEPT ![w] = job]
    BY <1>3, WorkAtNext DEF LaunchRoles
  <2>3. QED
    BY <1>0, <2>1, <2>2, WorkGoesOn
<1>4. CASE LookUpSpace(w)
  <2> DEFINE job == [worker[w] EXCEPT !.pc = "rows", !.space = recorded[worker[w].mission]]
  <2>1. /\ UNCHANGED <<tableVars, spaceVars, abandoned>> /\ worker[w].pc = "lookup"
        /\ worker' = [worker EXCEPT ![w] = job]
    BY <1>4 DEF LookUpSpace, WorkAt
  <2>2. worker[w].mission \in MissionIds /\ recorded[worker[w].mission] \in SpaceIds \cup {0}
    BY <1>0, <2>1 DEF WorkOK, OwnershipInv, TablesOK
  <2>3. job \in Workloads /\ job.pc = "rows" /\ job.mission = worker[w].mission
    BY <1>0, <2>2 DEF WorkOK, Workloads
  <2> HIDE DEF job
  <2>4. WorkOK(job)
    BY <2>2, <2>3 DEF WorkOK
  <2>5. QED
    BY <1>0, <2>1, <2>4, WorkGoesOn
<1>5. CASE GiveUp(w)
  <2>1. UNCHANGED <<tableVars, spaceVars>> /\ abandoned' = abandoned \cup LostBy(w)
    BY <1>5 DEF GiveUp
  <2>2. PICK job : WorkOK(job) /\ worker' = [worker EXCEPT ![w] = job]
    BY <1>5, NewWork DEF GiveUp
  <2>3. QED
    BY <2>1, <2>2, LostWork
<1>6. QED
  BY <1>1, <1>2, <1>3, <1>4, <1>5, CreateMissionOwned, CreateSpaceOwned, BindOwned,
     DeleteRowsOwned, CloseOwned DEF WorkerStep

\* A step of the control center.
LEMMA KeysOwned ==
    ASSUME OwnershipInv, ConsoleRests,
           \/ Tick \/ MoveSelection \/ ChangeView \/ EditSearch \/ LeaveForm
           \/ OpenSendForm \/ DoSend \/ DoNew \/ DoDeliver \/ DoResume
           \/ AskDelete \/ DoDelete \/ PollJob \/ QuitBusy, app \in Apps
    PROVE  OwnershipInv'
<1>0. /\ abandoned \subseteq SpaceIds /\ Console \in Workers
      /\ ~app.busy => worker[Console].pc = "idle"
  BY DEF OwnershipInv, TablesOK, Workers, ConsoleRests, NoWork
<1>1. ASSUME UNCHANGED <<tableVars, spaceVars, worker, abandoned>> PROVE OwnershipInv'
  BY <1>1 DEF OwnershipInv, TablesOK, DeletedLeaveNothing, WorkspacesAreOwned, tableVars, spaceVars
<1>2. ASSUME UNCHANGED <<tableVars, spaceVars, abandoned>>, NEW job, WorkOK(job), StartJob(job),
             ~app.busy
      PROVE  OwnershipInv'
  BY <1>0, <1>2, WorkGoesOn DEF StartJob
<1>3. \A m \in List : m \in MissionIds
  <2>1. app.filtered \in BOOLEAN /\ app.catalog \subseteq MissionIds
    BY AppFields
  <2>2. QED
    BY <2>1, ListsAreFinite DEF List
<1>4. CASE DoSend
  <2>1. UNCHANGED <<tableVars, spaceVars, abandoned>> /\ ~app.busy
    BY <1>4 DEF DoSend, OnKey
  <2>2. worker' = worker \/ \E m \in List : StartJob(Work("other", m))
    BY <1>4 DEF DoSend
  <2>3. QED
    BY <1>1, <1>2, <1>3, <2>1, <2>2, NewWork
<1>5. CASE DoNew
  <2>1. UNCHANGED <<tableVars, spaceVars, abandoned>> /\ ~app.busy
    BY <1>5 DEF DoNew, OnKey
  <2>2. worker' = worker \/ StartJob(Work("create", 0))
    BY <1>5 DEF DoNew
  <2>3. QED
    BY <1>1, <1>2, <2>1, <2>2, NewWork
<1>6. CASE DoDeliver
  BY <1>2, <1>6, NewWork DEF DoDeliver, ListKey, OnKey
<1>7. CASE DoResume
  <2>1. UNCHANGED <<tableVars, spaceVars, abandoned>> /\ ~app.busy
    BY <1>7 DEF DoResume, ListKey, OnKey
  <2>2. \E m \in List : StartJob(Work("read", m))
    BY <1>7 DEF DoResume
  <2>3. QED
    BY <1>2, <1>3, <2>1, <2>2, NewWork
<1>8. CASE DoDelete
  <2>1. UNCHANGED <<tableVars, spaceVars, abandoned>> /\ ~app.busy
    BY <1>8 DEF DoDelete, OnKey
  <2>2. \E m \in List : StartJob(Work("lookup", m))
    BY <1>8 DEF DoDelete
  <2>3. QED
    BY <1>2, <1>3, <2>1, <2>2, NewWork
<1>9. CASE PollJob
  <2>1. UNCHANGED <<tableVars, spaceVars, abandoned>> /\ worker[Console].pc \in {"over", "dead"}
        /\ worker' = [worker EXCEPT ![Console] = NoWork]
    BY <1>9 DEF PollJob, Ended, WorkAt
  <2>2. QED
    BY <1>0, <2>1, NewWork, WorkGoesOn
<1>10. CASE QuitBusy
  BY <1>0, <1>10, NewWork, LostWork DEF QuitBusy
<1>11. CASE Tick \/ MoveSelection \/ ChangeView \/ EditSearch \/ LeaveForm \/ OpenSendForm \/ AskDelete
  BY <1>1, <1>11 DEF Tick, MoveSelection, ChangeView, EditSearch, LeaveForm, OpenSendForm, AskDelete
<1>12. QED
  BY <1>4, <1>5, <1>6, <1>7, <1>8, <1>9, <1>10, <1>11

-----------------------------------------------------------------------------
ControlInv == ScreenInv /\ OwnershipInv

LEMMA ControlStart == ControlInit => ControlInv
<1> SUFFICES ASSUME ControlInit PROVE ControlInv
  OBVIOUS
<1>1. /\ app.view = "list" /\ app.catalog = {} /\ app.filtered = FALSE /\ app.selected = 0
      /\ app.confirm = FALSE /\ app.busy = FALSE /\ app \in Apps
  BY DEF ControlInit, Apps
<1>2. IntentTypeOK
  BY DEF ControlInit, IntentTypeOK
<1>3. AppTypeOK /\ ModesAreExclusive /\ ShownIsSelected
  BY <1>1 DEF AppTypeOK, ModesAreExclusive, ShownIsSelected
<1>4. ScreenInv
  BY <1>2, <1>3 DEF ScreenInv, ControlInit, ConsoleRests, Workers
<1>5. worker \in [Workers -> Workloads] /\ \A w \in Workers : WorkOK(worker[w])
  BY NewWork DEF ControlInit, WorkOK
<1>6. OwnershipInv
  BY <1>5 DEF ControlInit, OwnershipInv, TablesOK, DeletedLeaveNothing, WorkspacesAreOwned
<1>7. QED
  BY <1>4, <1>6 DEF ControlInv

LEMMA ControlStep == ControlInv /\ [ControlNext]_controlVars => ControlInv'
<1> SUFFICES ASSUME ControlInv, [ControlNext]_controlVars PROVE ControlInv'
  OBVIOUS
<1>0. /\ ScreenInv /\ OwnershipInv /\ ConsoleRests /\ app \in Apps
      /\ worker \in [Workers -> Workloads]
  BY DEF ControlInv, ScreenInv, AppTypeOK, OwnershipInv
<1>1. ASSUME OwnershipInv' PROVE missions' \subseteq MissionIds
  <2>1. missions' \subseteq 1 .. nextMission' - 1 /\ nextMission' \in 1 .. MaxMissions + 1
    BY <1>1 DEF OwnershipInv, TablesOK
  <2>2. \A n \in 1 .. MaxMissions + 1 : 1 .. n - 1 \subseteq MissionIds
    BY DEF MissionIds
  <2>3. QED
    BY <2>1, <2>2
<1>2. CASE \/ Tick \/ MoveSelection \/ ChangeView \/ EditSearch \/ LeaveForm
           \/ OpenSendForm \/ DoSend \/ DoNew \/ DoDeliver \/ DoResume
           \/ AskDelete \/ DoDelete \/ PollJob \/ QuitBusy
  <2>1. OwnershipInv'
    BY <1>0, <1>2, KeysOwned
  <2>2. ScreenInv'
    BY <1>0, <1>2, TickScreen, MoveScreen, ViewScreen, SearchScreen, FormScreen, SendFormScreen,
       JobScreen, AskScreen, PollScreen, QuitScreen
  <2>3. QED
    BY <2>1, <2>2 DEF ControlInv
<1>3. ASSUME NEW w \in Workers, StartShell(w) \/ WorkerStep(w) PROVE ControlInv'
  <2>1. OwnershipInv'
    BY <1>0, <1>3, WorkerOwned
  <2>2. UNCHANGED <<app, intent>> /\ (worker[w].pc # "idle" \/ w \in Shells)
    BY <1>3 DEF StartShell, WorkerStep, WorkAt, CreateMission, ReadMission, CreateSpace, BindSpace,
                LaunchRoles, LookUpSpace, DeleteRows, CloseSpace, GiveUp
  <2>3. \E row : worker' = [worker EXCEPT ![w] = row]
    BY <1>3 DEF StartShell, WorkerStep, WorkGoesTo, CreateMission, ReadMission, CreateSpace,
                BindSpace, LaunchRoles, LookUpSpace, DeleteRows, CloseSpace, GiveUp
  <2>4. ScreenInv'
    BY <1>0, <1>1, <2>1, <2>2, <2>3, WorkScreen
  <2>5. QED
    BY <2>1, <2>4 DEF ControlInv
<1>4. CASE UNCHANGED controlVars
  <2>1. ScreenInv'
    BY <1>0, <1>4 DEF controlVars, tableVars, ScreenInv, AppTypeOK, IntentTypeOK, ModesAreExclusive,
                      ShownIsSelected, ConsoleRests, List, Shown, Selected, AtPosition
  <2>2. OwnershipInv'
    BY <1>0, <1>4 DEF controlVars, tableVars, spaceVars, OwnershipInv, TablesOK, WorkOK,
                      DeletedLeaveNothing, WorkspacesAreOwned
  <2>3. QED
    BY <2>1, <2>2 DEF ControlInv
<1>5. QED
  BY <1>2, <1>3, <1>4 DEF ControlNext

LEMMA ControlAlways == ControlSpec => []ControlInv
BY ControlStart, ControlStep, PTL DEF ControlSpec

\* The tables, the workspaces and what the control center and its jobs remember
\* are well typed, and the position is one of the list that is shown.
THEOREM ControlIsTyped == ControlSpec => []ControlTypeOK
<1>1. ControlInv => ControlTypeOK
  BY DEF ControlInv, ScreenInv, OwnershipInv, TablesOK, AppTypeOK, IntentTypeOK, ControlTypeOK
<1>2. QED
  BY <1>1, ControlAlways, PTL

\* Whatever deletions and launches cross, no row comes back for a mission that
\* is gone (the foreign key of upsert_workspace).
THEOREM DeletedStayGone == ControlSpec => []DeletedLeaveNothing
<1>1. ControlInv => DeletedLeaveNothing
  BY DEF ControlInv, OwnershipInv
<1>2. QED
  BY <1>1, ControlAlways, PTL

\* No workspace stays open that neither a mission nor a process answers for,
\* whatever deletions and launches cross (delete_mission, launch_mission).
THEOREM WorkspacesStayOwned == ControlSpec => []WorkspacesAreOwned
<1>1. ControlInv => WorkspacesAreOwned
  BY DEF ControlInv, OwnershipInv
<1>2. QED
  BY <1>1, ControlAlways, PTL

LEMMA ShownStep ==
    ASSUME ControlInv, DoSend \/ DoDelete
    PROVE  worker'[Console].mission \in {0, intent.mission} \/ intent.changed
<1>1. /\ AppTypeOK /\ ~app.busy /\ (app.view = "send" \/ app.confirm) /\ Console \in Workers
      /\ worker \in [Workers -> Workloads]
  BY DEF DoSend, DoDelete, OnKey, ControlInv, ScreenInv, OwnershipInv, Workers
<1>2. \/ worker' = worker
      \/ \E m \in List, pc \in {"other", "lookup"} : Selected(m) /\ StartJob(Work(pc, m))
  BY DEF DoSend, DoDelete
<1>3. CASE worker' = worker
  BY <1>1, <1>3 DEF ControlInv, ScreenInv, ConsoleRests, NoWork
<1>4. ASSUME NEW m \in List, NEW pc \in {"other", "lookup"}, Selected(m), StartJob(Work(pc, m)),
             ~intent.changed
      PROVE  worker'[Console].mission = intent.mission
  <2>1. intent.mission \in List /\ Selected(intent.mission)
    BY <1>1, <1>4 DEF ControlInv, ScreenInv, ShownIsSelected
  <2>2. m = intent.mission
    BY <1>1, <1>4, <2>1, OneAtAPosition
  <2>3. worker'[Console].mission = m
    BY <1>1, <1>4 DEF StartJob, Work
  <2>4. QED
    BY <2>2, <2>3
<1>5. QED
  BY <1>2, <1>3, <1>4

\* A confirmed deletion deletes, and a form sends to, the mission the user was
\* shown, unless the list was read again with another content since (do_delete
\* and do_send look the mission up again, by its position).
THEOREM ActsOnWhatWasShown == ControlSpec => ActsOnTheShown
<1>1. ControlInv /\ [ControlNext]_controlVars =>
         [DoSend \/ DoDelete =>
             worker'[Console].mission \in {0, intent.mission} \/ intent.changed]_controlVars
  BY ShownStep
<1>2. QED
  BY <1>1, ControlAlways, PTL DEF ControlSpec, ActsOnTheShown
=============================================================================

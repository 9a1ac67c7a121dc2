--------------------------- MODULE Regions_proofs ---------------------------
(***************************************************************************)
(* Proofs about Regions, for any number of builders, workspaces and tabs.  *)
(*                                                                         *)
(* Builders write whole rows over each other's, so the invariant speaks of *)
(* every row that is recorded or in a builder's hands, and of any two of   *)
(* them: a tab serves one region in all of them, and its label says which. *)
(***************************************************************************)
EXTENDS Regions, FiniteSetTheorems, TLAPS

USE RegionAssumption

Builds == [pc : Steps, copy : SpaceRows, then : Steps]
Tabs == [id : TabIds, space : 1 .. MaxSpaces, label : Labels]

\* The rows that are recorded or may yet be.
Held == {NoSpaceRow, spaceRow} \cup {builder[b].copy : b \in Builders}

\* The tabs a row names are tabs of its workspace and carry the region's name,
\* unless the user renamed them; its first tab is no other region's.
Belongs(x) ==
    /\ x.first < nextTab /\ \A name \in RegionNames : x.region[name] < nextTab
    /\ \A t \in tabs :
          /\ t.id = x.first => t.label \in {"initial", "work", "renamed"}
          /\ \A name \in RegionNames :
                t.id = x.region[name] => t.space = x.space /\ t.label \in {name, "renamed"}

\* No tab is one region in one row and another in the other.
Apart(x, y) ==
    /\ \A m, n \in RegionNames : x.region[m] = y.region[n] /\ m # n => x.region[m] = NoTab
    /\ \A n \in RegionNames \ {"work"} : y.region[n] = x.first => x.first = NoTab

TabsDiffer ==
    /\ \A t, u \in tabs : t.id = u.id => t = u
    /\ \A t \in tabs : t.id < nextTab

RowsAgree == \A x \in Held : Belongs(x) /\ \A y \in Held : Apart(x, y)

RegionInv == RegionTypeOK /\ TabsDiffer /\ RowsAgree

-----------------------------------------------------------------------------
\* Types.
LEMMA RowFields ==
    ASSUME NEW x \in SpaceRows
    PROVE  /\ x.space \in 0 .. MaxSpaces /\ x.first \in 0 .. MaxTabs
           /\ \A name \in RegionNames : x.region[name] \in 0 .. MaxTabs
BY DEF SpaceRows

LEMMA RowExtended ==
    ASSUME NEW x \in SpaceRows, NEW name \in RegionNames, NEW id \in 0 .. MaxTabs
    PROVE  LET new == [x EXCEPT !.region[name] = id] IN
           /\ new \in SpaceRows /\ new.space = x.space /\ new.first = x.first
           /\ new.region[name] = id
           /\ \A m \in RegionNames \ {name} : new.region[m] = x.region[m]
BY DEF SpaceRows

LEMMA EmptyRow ==
    /\ NoSpaceRow \in SpaceRows /\ NoSpaceRow.first = NoTab
    /\ \A name \in RegionNames : NoSpaceRow.region[name] = NoTab
BY DEF NoSpaceRow, SpaceRows, NoTab

LEMMA StepTypes ==
    /\ RegionNames \subseteq Steps /\ {"idle", "workspace", "save", "done"} \subseteq Steps
    /\ \A name \in RegionNames : Following(name) \in Steps
BY DEF RegionNames, Steps, Following

LEMMA HeldTypes ==
    ASSUME RegionTypeOK
    PROVE  Held \subseteq SpaceRows /\ NoSpaceRow \in Held /\ spaceRow \in Held
           /\ \A b \in Builders : Copy(b) \in Held /\ builder[b] \in Builds
<1>1. \A b \in Builders : builder[b] \in Builds
  BY DEF RegionTypeOK, Builds
<1>2. \A b \in Builders : builder[b].copy \in SpaceRows
  BY <1>1 DEF Builds
<1>3. QED
  BY <1>1, <1>2, EmptyRow DEF RegionTypeOK, Held, Copy

\* A step of a builder: what is held afterwards was held, or is its new copy.
LEMMA BuilderTurns ==
    ASSUME RegionTypeOK, NEW b \in Builders, NEW new \in Builds,
           builder' = [builder EXCEPT ![b] = new], spaceRow' \in Held
    PROVE  /\ Held' \subseteq Held \cup {new.copy}
           /\ builder' \in [Builders -> Builds] /\ spaceRow' \in SpaceRows
<1>1. builder \in [Builders -> Builds]
  BY DEF RegionTypeOK, Builds
<1>2. builder' \in [Builders -> Builds] /\ builder'[b] = new
      /\ \A c \in Builders \ {b} : builder'[c] = builder[c]
  BY <1>1
<1>3. \A c \in Builders : builder'[c].copy \in Held \cup {new.copy}
  BY <1>2 DEF Held
<1>4. QED
  BY <1>2, <1>3, HeldTypes DEF Held

\* The rows agree after a step that adds one row at most.
LEMMA RowAdded ==
    ASSUME RowsAgree, NEW new, Held' \subseteq Held \cup {new}, Belongs(new)',
           \A x \in Held : Belongs(x)' /\ Apart(x, new) /\ Apart(new, x),
           Apart(new, new)
    PROVE  RowsAgree'
<1>1. \A x \in Held' : Belongs(x)'
  OBVIOUS
<1>2. \A x, y \in Held \cup {new} : Apart(x, y)
  BY DEF RowsAgree
<1>3. \A x, y \in Held' : Apart(x, y)
  BY <1>2
<1>4. \A x, y \in Held' : Apart(x, y)'
  BY <1>3 DEF Apart
<1>5. QED
  BY <1>1, <1>4 DEF RowsAgree

LEMMA NoRowAdded ==
    ASSUME RowsAgree, Held' \subseteq Held, \A x \in Held : Belongs(x)'
    PROVE  RowsAgree'
<1>1. \A x, y \in Held' : Apart(x, y)
  BY DEF RowsAgree
<1>2. QED
  BY <1>1 DEF RowsAgree, Apart

-----------------------------------------------------------------------------
\* The tabs.  One that is created has an identifier nobody has seen.
LEMMA TabOpened ==
    ASSUME RegionInv, NEW space \in 1 .. MaxSpaces, NEW label \in Labels, nextTab <= MaxTabs,
           tabs' = tabs \cup {NewTab(space, label)}, nextTab' = nextTab + 1
    PROVE  /\ TabsDiffer' /\ tabs' \subseteq Tabs /\ nextTab' \in 1 .. MaxTabs + 1
           /\ nextTab \in 1 .. MaxTabs
           /\ \A x \in Held : /\ Belongs(x)' /\ x.first # nextTab
                              /\ \A name \in RegionNames : x.region[name] # nextTab
<1> DEFINE new == NewTab(space, label)
<1>1. nextTab \in 1 .. MaxTabs /\ nextTab' \in 1 .. MaxTabs + 1 /\ nextTab < nextTab'
      /\ nextTab' = nextTab + 1 /\ \A n \in Int : n < nextTab => n < nextTab' /\ n # nextTab
  BY DEF RegionInv, RegionTypeOK
<1>2. new \in Tabs /\ new.id = nextTab /\ new.space = space /\ new.label = label
  BY <1>1 DEF NewTab, Tabs, TabIds
<1>3. tabs \subseteq Tabs /\ \A t \in tabs : t.id \in Int /\ t.id < nextTab
  BY DEF RegionInv, RegionTypeOK, TabsDiffer, Tabs, TabIds
<1> HIDE DEF new
<1>4. tabs' = tabs \cup {new}
  BY DEF new
<1>5. TabsDiffer'
  <2>1. \A t \in tabs' : t.id < nextTab'
    BY <1>1, <1>2, <1>3, <1>4
  <2>2. ASSUME NEW t \in tabs', NEW u \in tabs', t.id = u.id PROVE t = u
    <3>1. \A v \in tabs : v.id # nextTab
      BY <1>1, <1>3
    <3>2. QED
      BY <1>2, <1>4, <2>2, <3>1 DEF RegionInv, TabsDiffer
  <2>3. QED
    BY <2>1, <2>2 DEF TabsDiffer
<1>6. ASSUME NEW x \in Held
      PROVE  /\ Belongs(x)' /\ x.first # nextTab
             /\ \A name \in RegionNames : x.region[name] # nextTab
  <2>1. x \in SpaceRows /\ Belongs(x)
    BY HeldTypes DEF RegionInv, RowsAgree
  <2>2. x.first \in Int /\ \A name \in RegionNames : x.region[name] \in Int
    BY <2>1, RowFields
  <2>3. /\ x.first < nextTab' /\ x.first # nextTab
        /\ \A name \in RegionNames : x.region[name] < nextTab' /\ x.region[name] # nextTab
    BY <1>1, <2>1, <2>2 DEF Belongs
  <2>4. ASSUME NEW t \in tabs'
        PROVE  /\ t.id = x.first => t.label \in {"initial", "work", "renamed"}
               /\ \A name \in RegionNames :
                    t.id = x.region[name] => t.space = x.space /\ t.label \in {name, "renamed"}
    BY <1>2, <1>4, <2>1, <2>3 DEF Belongs
  <2>5. QED
    BY <2>3, <2>4 DEF Belongs
<1>7. QED
  BY <1>1, <1>2, <1>3, <1>4, <1>5, <1>6

\* One that gets another label may get only one that its region allows.
LEMMA TabRelabelled ==
    ASSUME RegionInv, NEW id, NEW label \in Labels, nextTab' = nextTab,
           tabs' = {IF t.id = id THEN [t EXCEPT !.label = label] ELSE t : t \in tabs},
           \A x \in Held :
              /\ x.first = id => label \in {"initial", "work", "renamed"}
              /\ \A name \in RegionNames : x.region[name] = id => label \in {name, "renamed"}
    PROVE  /\ TabsDiffer' /\ tabs' \subseteq Tabs /\ \A x \in Held : Belongs(x)'
           /\ \A u \in tabs' : \E t \in tabs : /\ u.id = t.id /\ u.space = t.space
                                               /\ u.label = IF t.id = id THEN label ELSE t.label
<1> DEFINE Now(t) == IF t.id = id THEN [t EXCEPT !.label = label] ELSE t
<1>1. tabs' = {Now(t) : t \in tabs}
  OBVIOUS
<1>2. ASSUME NEW t \in tabs
      PROVE  /\ Now(t) \in Tabs /\ Now(t).id = t.id /\ Now(t).space = t.space
             /\ Now(t).label = IF t.id = id THEN label ELSE t.label
  <2>1. t \in Tabs
    BY DEF RegionInv, RegionTypeOK, Tabs
  <2>2. QED
    BY <2>1 DEF Tabs
<1> HIDE DEF Now
<1>3. tabs' \subseteq Tabs
      /\ \A u \in tabs' : \E t \in tabs : /\ u.id = t.id /\ u.space = t.space
                                          /\ u.label = IF t.id = id THEN label ELSE t.label
  BY <1>1, <1>2
<1>4. TabsDiffer'
  <2>1. ASSUME NEW u \in tabs', NEW v \in tabs', u.id = v.id PROVE u = v
    <3>1. PICK t \in tabs, w \in tabs : u = Now(t) /\ v = Now(w)
      BY <1>1
    <3>2. t.id = w.id
      BY <1>2, <2>1, <3>1
    <3>3. QED
      BY <3>1, <3>2 DEF RegionInv, TabsDiffer
  <2>2. \A u \in tabs' : u.id < nextTab'
    BY <1>3 DEF RegionInv, TabsDiffer
  <2>3. QED
    BY <2>1, <2>2 DEF TabsDiffer
<1>5. ASSUME NEW x \in Held PROVE Belongs(x)'
  <2>1. Belongs(x)
    BY DEF RegionInv, RowsAgree
  <2>2. ASSUME NEW u \in tabs'
        PROVE  /\ u.id = x.first => u.label \in {"initial", "work", "renamed"}
               /\ \A name \in RegionNames :
                    u.id = x.region[name] => u.space = x.space /\ u.label \in {name, "renamed"}
    <3>1. PICK t \in tabs : /\ u.id = t.id /\ u.space = t.space
                            /\ u.label = IF t.id = id THEN label ELSE t.label
      BY <1>3
    <3>2. QED
      BY <2>1, <3>1 DEF Belongs
  <2>3. QED
    BY <2>1, <2>2 DEF Belongs
<1>6. QED
  BY <1>3, <1>4, <1>5

-----------------------------------------------------------------------------
\* A row that names one more tab: the tab serves no other region.
LEMMA RegionAdded ==
    ASSUME RegionInv, NEW x \in Held, NEW name \in RegionNames, NEW id \in 1 .. MaxTabs,
           NEW new, new = [x EXCEPT !.region[name] = id],
           \A y \in Held, n \in RegionNames \ {name} : y.region[n] # id,
           name # "work" => \A y \in Held : y.first # id,
           nextTab' >= nextTab, id < nextTab', Belongs(x)',
           \A t \in tabs' : t.id = id => /\ t.space = x.space /\ t.label \in {name, "renamed"}
    PROVE  /\ new \in SpaceRows /\ Belongs(new)' /\ Apart(new, new)
           /\ \A y \in Held : Apart(y, new) /\ Apart(new, y)
<1>1. x \in SpaceRows /\ id \in 0 .. MaxTabs /\ id # NoTab
  BY HeldTypes DEF RegionInv, NoTab
<1>2. /\ new \in SpaceRows /\ new.space = x.space /\ new.first = x.first /\ new.region[name] = id
      /\ \A m \in RegionNames \ {name} : new.region[m] = x.region[m]
  BY <1>1, RowExtended
<1>3. Belongs(new)'
  <2>1. new.first < nextTab' /\ \A n \in RegionNames : new.region[n] < nextTab'
    BY <1>2 DEF Belongs
  <2>2. ASSUME NEW t \in tabs'
        PROVE  /\ t.id = new.first => t.label \in {"initial", "work", "renamed"}
               /\ \A n \in RegionNames :
                    t.id = new.region[n] => t.space = new.space /\ t.label \in {n, "renamed"}
    BY <1>2 DEF Belongs
  <2>3. QED
    BY <2>1, <2>2 DEF Belongs
<1>4. ASSUME NEW y \in Held PROVE Apart(y, new) /\ Apart(new, y)
  <2>1. Apart(x, y) /\ Apart(y, x)
    BY DEF RegionInv, RowsAgree
  <2>2. Apart(y, new)
    BY <1>2, <2>1 DEF Apart
  <2>3. Apart(new, y)
    BY <1>2, <2>1 DEF Apart
  <2>4. QED
    BY <2>2, <2>3
<1>5. Apart(new, new)
  <2>1. Apart(x, x)
    BY DEF RegionInv, RowsAgree
  <2>2. QED
    BY <1>2, <2>1 DEF Apart
<1>6. QED
  BY <1>2, <1>3, <1>4, <1>5

\* The builders' steps.
LEMMA SaveTurns ==
    ASSUME RegionTypeOK, NEW b \in Builders, NEW copy \in SpaceRows, NEW then \in Steps,
           Save(b, copy, then), spaceRow' = spaceRow
    PROVE  /\ Held' \subseteq Held \cup {copy}
           /\ builder' \in [Builders -> Builds] /\ spaceRow' \in SpaceRows
<1> DEFINE new == [pc |-> "save", copy |-> copy, then |-> then]
<1>1. new \in Builds /\ new.copy = copy /\ builder' = [builder EXCEPT ![b] = new]
  BY StepTypes DEF Builds, Save
<1> HIDE DEF new
<1>2. QED
  BY <1>1, BuilderTurns, HeldTypes

\* What is left to show once the tabs and the rows are dealt with.
LEMMA StepEnds ==
    ASSUME RegionInv, TabsDiffer', RowsAgree', builder' \in [Builders -> Builds],
           spaceRow' \in SpaceRows, spaces' \subseteq 1 .. MaxSpaces, tabs' \subseteq Tabs,
           nextTab' \in 1 .. MaxTabs + 1, overlapped' \in BOOLEAN
    PROVE  RegionInv'
BY DEF RegionInv, RegionTypeOK, Builds, Tabs

LEMMA WorkspaceStep ==
    ASSUME RegionInv, NEW b \in Builders, CreateWorkspace(b)
    PROVE  RegionInv'
<1> DEFINE space == Cardinality(spaces) + 1
           row == [NoSpaceRow EXCEPT !.space = space, !.first = nextTab]
<1>1. space \in 1 .. MaxSpaces
  <2>1. IsFiniteSet(1 .. MaxSpaces)
    BY FS_Interval
  <2>2. Cardinality(spaces) \in Nat
    BY <2>1, FS_Subset, FS_CardinalityType DEF RegionInv, RegionTypeOK
  <2>3. QED
    BY <2>2 DEF CreateWorkspace
<1>2. /\ nextTab <= MaxTabs /\ nextTab' = nextTab + 1 /\ spaces' = spaces \cup {space}
      /\ tabs' = tabs \cup {NewTab(space, "initial")} /\ Save(b, row, "work")
      /\ spaceRow' = spaceRow /\ overlapped' = overlapped
  BY DEF CreateWorkspace
<1> HIDE DEF space
<1>3. "initial" \in Labels /\ "work" \in Steps
  BY StepTypes DEF Labels, RegionNames
<1>4. /\ TabsDiffer' /\ tabs' \subseteq Tabs /\ nextTab' \in 1 .. MaxTabs + 1
      /\ nextTab \in 1 .. MaxTabs
      /\ \A x \in Held : /\ Belongs(x)' /\ x.first # nextTab
                         /\ \A name \in RegionNames : x.region[name] # nextTab
  BY <1>1, <1>2, <1>3, TabOpened
<1>known. /\ row \in SpaceRows /\ row.first = nextTab
      /\ \A name \in RegionNames : row.region[name] = NoTab
  <2>1. NoTab \in 0 .. MaxTabs /\ space \in 0 .. MaxSpaces /\ nextTab \in 0 .. MaxTabs
    BY <1>1, <1>4 DEF NoTab
  <2>2. row \in SpaceRows
    BY <2>1, EmptyRow DEF SpaceRows
  <2>3. row.first = nextTab /\ row.region = NoSpaceRow.region
    BY EmptyRow DEF SpaceRows
  <2>4. QED
    BY <2>2, <2>3, EmptyRow
<1> HIDE DEF row
<1>pick. PICK copy : copy = row
  OBVIOUS
<1>5. /\ copy \in SpaceRows /\ copy.first = nextTab
      /\ \A name \in RegionNames : copy.region[name] = NoTab
      /\ Save(b, copy, "work")
  BY <1>known, <1>pick, <1>2
<1>6. Belongs(copy)'
  <2>1. copy.first < nextTab' /\ \A name \in RegionNames : copy.region[name] < nextTab'
    BY <1>2, <1>4, <1>5 DEF NoTab
  <2>2. ASSUME NEW t \in tabs'
        PROVE  /\ t.id = copy.first => t.label \in {"initial", "work", "renamed"}
               /\ \A name \in RegionNames :
                    t.id = copy.region[name] => t.space = copy.space /\ t.label \in {name, "renamed"}
    <3>1. t.id # NoTab
      BY <1>4 DEF Tabs, TabIds, NoTab
    <3>2. t.id = nextTab => t.label = "initial"
      <4>1. \A u \in tabs : u.id # nextTab
        BY <1>4 DEF RegionInv, TabsDiffer, RegionTypeOK, TabIds
      <4>2. NewTab(space, "initial").label = "initial"
        BY DEF NewTab
      <4>3. QED
        BY <1>2, <4>1, <4>2
    <3>3. QED
      BY <1>5, <3>1, <3>2
  <2>3. QED
    BY <2>1, <2>2 DEF Belongs
<1>7. \A x \in Held : Apart(x, copy) /\ Apart(copy, x)
  BY <1>4, <1>5 DEF Apart
<1>8. Apart(copy, copy)
  BY <1>4, <1>5 DEF Apart, NoTab
<1>9. /\ Held' \subseteq Held \cup {copy}
      /\ builder' \in [Builders -> Builds] /\ spaceRow' \in SpaceRows
  BY <1>2, <1>3, <1>5, SaveTurns DEF RegionInv
<1>10. RowsAgree'
  BY <1>4, <1>6, <1>7, <1>8, <1>9, RowAdded DEF RegionInv
<1>11. spaces' \subseteq 1 .. MaxSpaces /\ overlapped' \in BOOLEAN
  BY <1>1, <1>2 DEF RegionInv, RegionTypeOK
<1>12. QED
  BY <1>4, <1>9, <1>10, <1>11, StepEnds

LEMMA RenameFirstStep ==
    ASSUME RegionInv, NEW b \in Builders, RenameFirst(b)
    PROVE  RegionInv'
<1>0. PICK x, id, new : x = Copy(b) /\ id = x.first /\ new = [x EXCEPT !.region["work"] = id]
  OBVIOUS
<1>1. /\ HasTab(id, x.space) /\ Save(b, new, "review")
      /\ tabs' = {IF t.id = id THEN [t EXCEPT !.label = "work"] ELSE t : t \in tabs}
      /\ UNCHANGED <<spaceRow, spaces, nextTab, overlapped>>
  BY <1>0 DEF RenameFirst
<1>2. x \in Held /\ x \in SpaceRows /\ "work" \in RegionNames /\ "work" \in Labels
      /\ "review" \in Steps
  BY <1>0, HeldTypes, StepTypes DEF RegionInv, RegionNames, Labels
<1>3. PICK tab \in tabs : tab.id = id /\ tab.space = x.space
  BY <1>1 DEF HasTab
<1>4. id \in 1 .. MaxTabs /\ id # NoTab /\ id < nextTab
  BY <1>3 DEF RegionInv, RegionTypeOK, TabsDiffer, TabIds, NoTab
<1>5. ASSUME NEW y \in Held, NEW n \in RegionNames \ {"work"} PROVE y.region[n] # id
  <2>1. Apart(x, y)
    BY <1>2 DEF RegionInv, RowsAgree
  <2>2. QED
    BY <1>0, <1>4, <2>1 DEF Apart
<1>6. /\ TabsDiffer' /\ tabs' \subseteq Tabs /\ \A y \in Held : Belongs(y)'
      /\ \A u \in tabs' : \E t \in tabs : /\ u.id = t.id /\ u.space = t.space
                                          /\ u.label = IF t.id = id THEN "work" ELSE t.label
  <2>1. \A y \in Held :
              /\ y.first = id => "work" \in {"initial", "work", "renamed"}
              /\ \A name \in RegionNames : y.region[name] = id => "work" \in {name, "renamed"}
    BY <1>0, <1>5
  <2>2. QED
    BY <1>1, <1>2, <2>1, TabRelabelled
<1>7. \A u \in tabs' : u.id = id => u.space = x.space /\ u.label \in {"work", "renamed"}
  BY <1>3, <1>6 DEF RegionInv, TabsDiffer
<1>8. /\ new \in SpaceRows /\ Belongs(new)' /\ Apart(new, new)
      /\ \A y \in Held : Apart(y, new) /\ Apart(new, y)
  <2>1. nextTab' >= nextTab /\ id < nextTab'
    BY <1>1, <1>4 DEF RegionInv, RegionTypeOK
  <2>2. QED
    BY <1>0, <1>2, <1>4, <1>5, <1>6, <1>7, <2>1, RegionAdded
<1>9. /\ Held' \subseteq Held \cup {new}
      /\ builder' \in [Builders -> Builds] /\ spaceRow' \in SpaceRows
  BY <1>1, <1>2, <1>8, SaveTurns DEF RegionInv
<1>10. RowsAgree'
  BY <1>6, <1>8, <1>9, RowAdded DEF RegionInv
<1>11. /\ spaces' \subseteq 1 .. MaxSpaces /\ overlapped' \in BOOLEAN
       /\ nextTab' \in 1 .. MaxTabs + 1
  BY <1>1 DEF RegionInv, RegionTypeOK
<1>12. QED
  BY <1>6, <1>9, <1>10, <1>11, StepEnds

LEMMA ReuseTabStep ==
    ASSUME RegionInv, NEW b \in Builders, NEW name \in RegionNames, ReuseTab(b, name)
    PROVE  RegionInv'
<1>0. PICK x : x = Copy(b)
  OBVIOUS
<1>1. PICK t \in tabs : /\ Labelled(x.space, name) = {t}
                        /\ Save(b, [x EXCEPT !.region[name] = t.id], Following(name))
  BY <1>0 DEF ReuseTab
<1>2. UNCHANGED <<spaceRow, spaces, tabs, nextTab, overlapped>> /\ name # "work"
  BY DEF ReuseTab
<1>3. x \in Held /\ x \in SpaceRows /\ Following(name) \in Steps
  BY <1>0, HeldTypes, StepTypes DEF RegionInv
<1>known. PICK id, new : id = t.id /\ new = [x EXCEPT !.region[name] = id]
  OBVIOUS
<1>4. t.space = x.space /\ t.label = name
  BY <1>1 DEF Labelled
<1>5. id \in 1 .. MaxTabs /\ id < nextTab
  BY <1>known DEF RegionInv, RegionTypeOK, TabsDiffer, TabIds
<1>6. \A y \in Held : Belongs(y)
  BY DEF RegionInv, RowsAgree
<1>7. \A y \in Held : Belongs(y)'
  BY <1>2, <1>6 DEF Belongs
<1>8. \A y \in Held, n \in RegionNames \ {name} : y.region[n] # id
  BY <1>known, <1>4, <1>6 DEF Belongs, RegionNames
<1>9. \A y \in Held : y.first # id
  BY <1>known, <1>2, <1>4, <1>6 DEF Belongs, RegionNames
<1>10. \A u \in tabs' : u.id = id => u.space = x.space /\ u.label \in {name, "renamed"}
  BY <1>known, <1>2, <1>4 DEF RegionInv, TabsDiffer
<1>11. /\ new \in SpaceRows /\ Belongs(new)' /\ Apart(new, new)
       /\ \A y \in Held : Apart(y, new) /\ Apart(new, y)
  <2>1. nextTab' >= nextTab /\ id < nextTab'
    BY <1>2, <1>5 DEF RegionInv, RegionTypeOK
  <2>2. QED
    BY <1>known, <1>3, <1>5, <1>7, <1>8, <1>9, <1>10, <2>1, RegionAdded
<1>12. Save(b, new, Following(name))
  BY <1>1, <1>known
<1>13. /\ Held' \subseteq Held \cup {new}
       /\ builder' \in [Builders -> Builds] /\ spaceRow' \in SpaceRows
  BY <1>2, <1>3, <1>11, <1>12, SaveTurns DEF RegionInv
<1>14. RowsAgree'
  BY <1>7, <1>11, <1>13, RowAdded DEF RegionInv
<1>15. /\ TabsDiffer' /\ tabs' \subseteq Tabs /\ spaces' \subseteq 1 .. MaxSpaces
       /\ overlapped' \in BOOLEAN /\ nextTab' \in 1 .. MaxTabs + 1
  BY <1>2 DEF RegionInv, RegionTypeOK, TabsDiffer, Tabs
<1>16. QED
  BY <1>13, <1>14, <1>15, StepEnds

LEMMA CreateTabStep ==
    ASSUME RegionInv, NEW b \in Builders, NEW name \in RegionNames, CreateTab(b, name)
    PROVE  RegionInv'
<1>0. PICK x, id, new : /\ x = Copy(b) /\ id = nextTab
                        /\ new = [x EXCEPT !.region[name] = id]
  OBVIOUS
<1>1. /\ name # "work" /\ x.space \in spaces /\ nextTab <= MaxTabs /\ nextTab' = nextTab + 1
      /\ tabs' = tabs \cup {NewTab(x.space, name)} /\ Save(b, new, Following(name))
      /\ UNCHANGED <<spaceRow, spaces, overlapped>>
  BY <1>0 DEF CreateTab
<1>2. x \in Held /\ x \in SpaceRows /\ Following(name) \in Steps /\ name \in Labels
  BY <1>0, HeldTypes, StepTypes DEF RegionInv, Labels
<1>3. x.space \in 1 .. MaxSpaces
  BY <1>1 DEF RegionInv, RegionTypeOK
<1>4. /\ TabsDiffer' /\ tabs' \subseteq Tabs /\ nextTab' \in 1 .. MaxTabs + 1
      /\ nextTab \in 1 .. MaxTabs
      /\ \A y \in Held : /\ Belongs(y)' /\ y.first # nextTab
                         /\ \A n \in RegionNames : y.region[n] # nextTab
  BY <1>1, <1>2, <1>3, TabOpened
<1>5. \A u \in tabs' : u.id = id => u.space = x.space /\ u.label \in {name, "renamed"}
  <2>1. \A u \in tabs : u.id # nextTab
    BY <1>4 DEF RegionInv, TabsDiffer, RegionTypeOK, TabIds
  <2>2. QED
    BY <1>0, <1>1, <2>1 DEF NewTab
<1>6. /\ new \in SpaceRows /\ Belongs(new)' /\ Apart(new, new)
      /\ \A y \in Held : Apart(y, new) /\ Apart(new, y)
  <2>1. nextTab' >= nextTab /\ id < nextTab' /\ id \in 1 .. MaxTabs
    BY <1>0, <1>1, <1>4
  <2>2. /\ \A y \in Held, n \in RegionNames \ {name} : y.region[n] # id
        /\ \A y \in Held : y.first # id
    BY <1>0, <1>4
  <2>3. QED
    BY <1>0, <1>2, <1>4, <1>5, <2>1, <2>2, RegionAdded
<1>7. /\ Held' \subseteq Held \cup {new}
      /\ builder' \in [Builders -> Builds] /\ spaceRow' \in SpaceRows
  BY <1>1, <1>2, <1>6, SaveTurns DEF RegionInv
<1>8. RowsAgree'
  BY <1>4, <1>6, <1>7, RowAdded DEF RegionInv
<1>9. spaces' \subseteq 1 .. MaxSpaces /\ overlapped' \in BOOLEAN
  BY <1>1 DEF RegionInv, RegionTypeOK
<1>10. QED
  BY <1>4, <1>7, <1>8, <1>9, StepEnds

\* A step that changes no builder's copy but its place.
LEMMA PlaceTurns ==
    ASSUME RegionTypeOK, NEW b \in Builders, NEW pc \in Steps,
           builder' = [builder EXCEPT ![b].pc = pc], spaceRow' = spaceRow
    PROVE  /\ Held' \subseteq Held
           /\ builder' \in [Builders -> Builds] /\ spaceRow' \in SpaceRows
<1> DEFINE new == [builder[b] EXCEPT !.pc = pc]
<1>1. builder[b] \in Builds /\ builder[b].copy \in Held /\ spaceRow \in Held
  BY HeldTypes DEF Copy
<1>2. new \in Builds /\ new.copy = builder[b].copy
  BY <1>1 DEF Builds
<1>3. builder' = [builder EXCEPT ![b] = new]
  BY DEF RegionTypeOK
<1> HIDE DEF new
<1>4. QED
  BY <1>1, <1>2, <1>3, BuilderTurns

LEMMA CheckTabStep ==
    ASSUME RegionInv, NEW b \in Builders, NEW name \in RegionNames, CheckTab(b, name)
    PROVE  RegionInv'
<1> DEFINE x == Copy(b)
           id == x.region[name]
<1>1. /\ id # NoTab /\ builder' = [builder EXCEPT ![b].pc = Following(name)]
      /\ tabs' = {IF t.id = id THEN [t EXCEPT !.label = name] ELSE t : t \in tabs}
      /\ UNCHANGED <<spaceRow, spaces, nextTab, overlapped>>
  BY DEF CheckTab, Go
<1>2. x \in Held /\ Following(name) \in Steps /\ name \in Labels
  BY HeldTypes, StepTypes DEF RegionInv, Labels
<1> HIDE DEF x
<1>3. ASSUME NEW y \in Held
      PROVE  /\ y.first = id => name \in {"initial", "work", "renamed"}
             /\ \A n \in RegionNames : y.region[n] = id => name \in {n, "renamed"}
  <2>1. Apart(x, y) /\ Apart(y, x)
    BY <1>2 DEF RegionInv, RowsAgree
  <2>2. y.first = id => name = "work"
    BY <1>1, <2>1 DEF Apart
  <2>3. \A n \in RegionNames : y.region[n] = id => n = name
    BY <1>1, <2>1 DEF Apart
  <2>4. QED
    BY <2>2, <2>3
<1> HIDE DEF id
<1>4. TabsDiffer' /\ tabs' \subseteq Tabs /\ \A y \in Held : Belongs(y)'
  BY <1>1, <1>2, <1>3, TabRelabelled
<1>5. Held' \subseteq Held /\ builder' \in [Builders -> Builds] /\ spaceRow' \in SpaceRows
  BY <1>1, <1>2, PlaceTurns DEF RegionInv
<1>6. RowsAgree'
  BY <1>4, <1>5, NoRowAdded DEF RegionInv
<1>7. /\ spaces' \subseteq 1 .. MaxSpaces /\ overlapped' \in BOOLEAN
      /\ nextTab' \in 1 .. MaxTabs + 1
  BY <1>1 DEF RegionInv, RegionTypeOK
<1>8. QED
  BY <1>4, <1>5, <1>6, <1>7, StepEnds

\* A step that leaves the tabs alone and holds no row that was not held.
LEMMA RowsTurn ==
    ASSUME RegionInv, NEW b \in Builders, NEW new \in Builds, new.copy \in Held,
           builder' = [builder EXCEPT ![b] = new], spaceRow' \in Held,
           UNCHANGED <<spaces, tabs, nextTab>>, overlapped' \in BOOLEAN
    PROVE  RegionInv'
<1>1. Held' \subseteq Held /\ builder' \in [Builders -> Builds] /\ spaceRow' \in SpaceRows
  BY BuilderTurns DEF RegionInv
<1>2. \A x \in Held : Belongs(x)'
  BY DEF RegionInv, RowsAgree, Belongs
<1>3. RowsAgree'
  BY <1>1, <1>2, NoRowAdded DEF RegionInv
<1>4. /\ TabsDiffer' /\ tabs' \subseteq Tabs /\ spaces' \subseteq 1 .. MaxSpaces
      /\ nextTab' \in 1 .. MaxTabs + 1
  BY DEF RegionInv, RegionTypeOK, TabsDiffer, Tabs
<1>5. QED
  BY <1>1, <1>3, <1>4, StepEnds

LEMMA IdleBuild == Waiting \in Builds /\ Waiting.copy = NoSpaceRow
BY EmptyRow, StepTypes DEF Waiting, Builds

LEMMA BeginBuildStep ==
    ASSUME RegionInv, NEW b \in Builders, BeginBuild(b)
    PROVE  RegionInv'
<1> DEFINE new == [pc |-> IF spaceRow.space = 0 THEN "workspace" ELSE "work",
                   copy |-> spaceRow, then |-> "idle"]
<1>1. new \in Builds /\ new.copy = spaceRow
  BY StepTypes DEF RegionInv, RegionTypeOK, Builds, RegionNames
<1>2. builder' = [builder EXCEPT ![b] = new] /\ UNCHANGED <<spaceRow, spaces, tabs, nextTab>>
      /\ overlapped' \in BOOLEAN
  BY DEF BeginBuild, RegionInv, RegionTypeOK
<1> HIDE DEF new
<1>3. QED
  BY <1>1, <1>2, HeldTypes, RowsTurn DEF RegionInv

LEMMA SaveRowStep ==
    ASSUME RegionInv, NEW b \in Builders, SaveRow(b)
    PROVE  RegionInv'
<1> DEFINE new == [builder[b] EXCEPT !.pc = builder[b].then, !.then = "idle"]
<1>1. builder[b] \in Builds /\ builder[b].copy \in Held
  BY HeldTypes DEF RegionInv, Copy
<1>2. new \in Builds /\ new.copy = builder[b].copy
  BY <1>1, StepTypes DEF Builds
<1>3. /\ builder' = [builder EXCEPT ![b] = new] /\ spaceRow' = builder[b].copy
      /\ UNCHANGED <<spaces, tabs, nextTab, overlapped>>
  BY DEF SaveRow, Written, Copy, RegionInv, RegionTypeOK
<1>4. overlapped' \in BOOLEAN
  BY <1>3 DEF RegionInv, RegionTypeOK
<1> HIDE DEF new
<1>5. QED
  BY <1>1, <1>2, <1>3, <1>4, RowsTurn

LEMMA BuildEndsStep ==
    ASSUME RegionInv, NEW b \in Builders, FinishBuild(b) \/ StopBuild(b)
    PROVE  RegionInv'
<1>1. builder' = [builder EXCEPT ![b] = Waiting] /\ UNCHANGED <<spaces, tabs, nextTab>>
      /\ spaceRow' \in {spaceRow, Copy(b)} /\ overlapped' \in BOOLEAN
  BY DEF FinishBuild, StopBuild, Written, RegionInv, RegionTypeOK
<1>2. NoSpaceRow \in Held /\ spaceRow \in Held /\ Copy(b) \in Held
  BY HeldTypes DEF RegionInv
<1>3. QED
  BY <1>1, <1>2, IdleBuild, RowsTurn

\* The user's steps.
LEMMA UserStep ==
    ASSUME RegionInv, NEW tab \in tabs, RenameTab(tab.id) \/ CloseTab(tab.id)
    PROVE  RegionInv'
<1>1. UNCHANGED <<spaceRow, spaces, nextTab, builder, overlapped>>
  BY DEF RenameTab, CloseTab
<1>2. TabsDiffer' /\ tabs' \subseteq Tabs /\ \A x \in Held : Belongs(x)'
  <2>1. CASE RenameTab(tab.id)
    <3> DEFINE id == tab.id
    <3>1. tabs' = {IF t.id = id THEN [t EXCEPT !.label = "renamed"] ELSE t : t \in tabs}
      BY <2>1 DEF RenameTab
    <3>2. "renamed" \in Labels
      BY DEF Labels
    <3> HIDE DEF id
    <3>3. QED
      BY <1>1, <3>1, <3>2, TabRelabelled
  <2>2. CASE CloseTab(tab.id)
    <3>1. tabs' \subseteq tabs
      BY <2>2 DEF CloseTab
    <3>2. QED
      BY <1>1, <3>1 DEF RegionInv, RegionTypeOK, RowsAgree, TabsDiffer, Belongs, Tabs
  <2>3. QED
    BY <2>1, <2>2
<1>3. Held' \subseteq Held
  BY <1>1 DEF Held
<1>4. RowsAgree'
  BY <1>2, <1>3, NoRowAdded DEF RegionInv
<1>5. /\ builder' \in [Builders -> Builds] /\ spaceRow' \in SpaceRows
      /\ spaces' \subseteq 1 .. MaxSpaces /\ nextTab' \in 1 .. MaxTabs + 1
      /\ overlapped' \in BOOLEAN
  BY <1>1 DEF RegionInv, RegionTypeOK, Builds
<1>6. QED
  BY <1>2, <1>4, <1>5, StepEnds

-----------------------------------------------------------------------------
LEMMA RegionStart == RegionInit => RegionInv
<1> SUFFICES ASSUME RegionInit PROVE RegionInv
  OBVIOUS
<1>1. RegionTypeOK
  <2>1. 1 \in 1 .. MaxTabs + 1
    BY DEF RegionAssumption
  <2>2. builder \in [Builders -> Builds]
    BY IdleBuild DEF RegionInit
  <2>3. QED
    BY <2>1, <2>2, EmptyRow DEF RegionInit, RegionTypeOK, Builds
<1>2. TabsDiffer
  BY DEF RegionInit, TabsDiffer
<1>3. \A x \in Held : x = NoSpaceRow
  BY IdleBuild DEF RegionInit, Held
<1>4. Belongs(NoSpaceRow) /\ Apart(NoSpaceRow, NoSpaceRow)
  BY EmptyRow DEF RegionInit, Belongs, Apart, NoTab
<1>5. RowsAgree
  BY <1>3, <1>4 DEF RowsAgree
<1>6. QED
  BY <1>1, <1>2, <1>5 DEF RegionInv

LEMMA RegionStep == RegionInv /\ [RegionNext]_regionVars => RegionInv'
<1> SUFFICES ASSUME RegionInv, [RegionNext]_regionVars PROVE RegionInv'
  OBVIOUS
<1>1. ASSUME NEW b \in Builders, BeginBuild(b) PROVE RegionInv'
  BY <1>1, BeginBuildStep
<1>2. ASSUME NEW b \in Builders, CreateWorkspace(b) PROVE RegionInv'
  BY <1>2, WorkspaceStep
<1>3. ASSUME NEW b \in Builders, SaveRow(b) PROVE RegionInv'
  BY <1>3, SaveRowStep
<1>4. ASSUME NEW b \in Builders, RenameFirst(b) PROVE RegionInv'
  BY <1>4, RenameFirstStep
<1>5. ASSUME NEW b \in Builders, FinishBuild(b) \/ StopBuild(b) PROVE RegionInv'
  BY <1>5, BuildEndsStep
<1>6. ASSUME NEW b \in Builders, NEW name \in RegionNames, ReuseTab(b, name)
      PROVE  RegionInv'
  BY <1>6, ReuseTabStep
<1>7. ASSUME NEW b \in Builders, NEW name \in RegionNames, CreateTab(b, name)
      PROVE  RegionInv'
  BY <1>7, CreateTabStep
<1>8. ASSUME NEW b \in Builders, NEW name \in RegionNames, CheckTab(b, name)
      PROVE  RegionInv'
  BY <1>8, CheckTabStep
<1>9. ASSUME NEW t \in tabs, RenameTab(t.id) \/ CloseTab(t.id) PROVE RegionInv'
  BY <1>9, UserStep
<1>10. CASE UNCHANGED regionVars
  <2>1. UNCHANGED <<spaceRow, spaces, tabs, nextTab, builder, overlapped>>
    BY <1>10 DEF regionVars
  <2>2. QED
    BY <2>1 DEF RegionInv, RegionTypeOK, TabsDiffer, RowsAgree, Held, Belongs, Apart
<1>11. QED
  BY <1>1, <1>2, <1>3, <1>4, <1>5, <1>6, <1>7, <1>8, <1>9, <1>10 DEF RegionNext

\* Every variable keeps to its type: what a builder saves is a row.
THEOREM RegionsAreTyped == RegionSpec => []RegionTypeOK
<1>1. RegionInv => RegionTypeOK
  BY DEF RegionInv
<1>2. QED
  BY RegionStart, RegionStep, <1>1, PTL DEF RegionSpec

\* The recorded tabs are tabs of the recorded workspace and different ones,
\* whichever builder's copy was written last and whatever the user did to the
\* tabs: ensure_stage_tabs gives no tab to two regions.
THEOREM RegionsStayTogether == RegionSpec => []RegionsBelongTogether
<1>1. RegionInv => RegionsBelongTogether
  <2> SUFFICES ASSUME RegionInv PROVE RegionsBelongTogether
    OBVIOUS
  <2>1. Belongs(spaceRow) /\ Apart(spaceRow, spaceRow)
    BY HeldTypes DEF RegionInv, RowsAgree
  <2>2. QED
    BY <2>1 DEF RegionsBelongTogether, Belongs, Apart
<1>2. QED
  BY RegionStart, RegionStep, <1>1, PTL DEF RegionSpec

-----------------------------------------------------------------------------
\* One tab per region, while runs do not overlap.

\* Workspaces are numbered, and tabs and rows are of workspaces that exist.
SpacesKnown ==
    /\ \E n \in Nat : spaces = 1 .. n
    /\ \A t \in tabs : t.space \in spaces
    /\ \A x \in Held : x.space \in spaces \cup {0}

\* The tabs that carry a region's name are the ones a row names for it.
Current(x) ==
    /\ x.region["work"] \in {NoTab, x.first}
    /\ \A t \in tabs : t.space = x.space =>
          /\ t.label = "work" => t.id = x.first
          /\ \A name \in RegionNames \ {"work"} :
                t.label = name /\ x.region[name] # NoTab => t.id = x.region[name]

\* A run that is under way alone knows whatever is recorded: else it would create
\* a second tab for a region that has one.
Knows(x, row) ==
    row.space # 0 =>
        /\ x.space = row.space /\ x.first = row.first
        /\ \A name \in RegionNames : row.region[name] \in {NoTab, x.region[name]}

Fits(build) ==
    /\ build.pc = "workspace" => build.copy.space = 0
    /\ build.pc = "save" => build.then \in RegionNames \cup {"done"}

LabelsDiffer ==
    \A t, u \in tabs :
        t.space = u.space /\ t.label = u.label /\ t.label \in RegionNames => t = u

Alone == \A b, c \in Builders : Busy(b) /\ Busy(c) => b = c

BuildersKnow ==
    \A b \in Builders : IF Busy(b) THEN Fits(builder[b]) /\ Knows(Copy(b), spaceRow)
                                   ELSE Copy(b) = NoSpaceRow

RowsCurrent == Current(spaceRow) /\ \A b \in Builders : Current(Copy(b))

Undisturbed == Alone /\ BuildersKnow /\ RowsCurrent /\ LabelsDiffer

UniqueInv == RegionInv /\ SpacesKnown /\ (overlapped \/ Undisturbed)

LEMMA EmptyIsCurrent == ASSUME tabs \subseteq Tabs PROVE Current(NoSpaceRow)
<1>1. NoSpaceRow.space = 0 /\ NoSpaceRow.region["work"] = NoTab /\ \A t \in tabs : t.space # 0
  BY EmptyRow DEF Tabs, RegionNames, NoSpaceRow
<1>2. QED
  BY <1>1 DEF Current

\* A step of the run that is under way alone.
LEMMA AloneStays ==
    ASSUME RegionInv, RegionInv', Undisturbed, NEW b \in Builders,
           \A c \in Builders : Busy(c) => c = b,
           NEW new, builder' = [builder EXCEPT ![b] = new],
           new.pc = "idle" => new.copy = NoSpaceRow,
           new.pc # "idle" => Fits(new) /\ Knows(new.copy, spaceRow'),
           Current(spaceRow)', Current(new.copy)', LabelsDiffer'
    PROVE  Undisturbed'
<1>1. builder'[b] = new /\ \A c \in Builders \ {b} : builder'[c] = builder[c]
  BY DEF RegionInv, RegionTypeOK
<1>2. \A c \in Builders \ {b} : builder[c].pc = "idle" /\ builder[c].copy = NoSpaceRow
  BY DEF Undisturbed, BuildersKnow, Busy, Copy
<1>3. Alone'
  BY <1>1, <1>2 DEF Alone, Busy
<1>4. BuildersKnow'
  <2>1. ASSUME NEW c \in Builders, builder'[c].pc # "idle"
        PROVE  Fits(builder'[c]) /\ Knows(builder'[c].copy, spaceRow')
    BY <1>1, <1>2, <2>1
  <2>2. ASSUME NEW c \in Builders, builder'[c].pc = "idle" PROVE builder'[c].copy = NoSpaceRow
    BY <1>1, <1>2, <2>2
  <2>3. QED
    BY <2>1, <2>2 DEF BuildersKnow, Busy, Copy, Fits, Knows, NoSpaceRow
<1>5. RowsCurrent'
  <2>1. Current(NoSpaceRow)'
    <3>1. (tabs \subseteq Tabs)'
      BY DEF RegionInv, RegionTypeOK, Tabs
    <3>2. NoSpaceRow.space = 0 /\ NoSpaceRow.region["work"] = NoTab /\ \A t \in tabs' : t.space # 0
      BY <3>1, EmptyRow DEF Tabs, RegionNames, NoSpaceRow
    <3>3. QED
      BY <3>2 DEF Current, NoSpaceRow
  <2>2. PICK row : row = NoSpaceRow
    OBVIOUS
  <2>3. Current(row)'
    BY <2>1, <2>2 DEF NoSpaceRow
  <2>4. ASSUME NEW c \in Builders PROVE Current(Copy(c))'
    <3>1. CASE c = b
      BY <1>1, <3>1 DEF Current, Copy
    <3>2. CASE c # b
      BY <1>1, <1>2, <2>2, <2>3, <3>2 DEF Current, Copy
    <3>3. QED
      BY <3>1, <3>2
  <2>5. QED
    BY <2>4 DEF RowsCurrent
<1>6. QED
  BY <1>3, <1>4, <1>5 DEF Undisturbed

\* The rows that are held of a workspace that exists, while runs do not overlap.
LEMMA WhoseRow ==
    ASSUME RegionInv, Undisturbed, NEW b \in Builders, Busy(b)
    PROVE  /\ \A c \in Builders : Busy(c) => c = b
           /\ Fits(builder[b]) /\ Knows(Copy(b), spaceRow)
           /\ Current(spaceRow) /\ Current(Copy(b))
           /\ Copy(b) \in Held /\ Copy(b) \in SpaceRows /\ spaceRow \in SpaceRows
BY HeldTypes DEF RegionInv, Undisturbed, Alone, BuildersKnow, RowsCurrent

\* Workspaces that exist, tabs and rows of them.
LEMMA SpacesStay ==
    ASSUME SpacesKnown, spaces' = spaces, NEW new, Held' \subseteq Held \cup {new},
           new.space \in spaces \cup {0}, \A t \in tabs' : t.space \in spaces
    PROVE  SpacesKnown'
BY DEF SpacesKnown

LEMMA SaveKnown ==
    ASSUME SpacesKnown, RegionInv, NEW b \in Builders, NEW copy \in SpaceRows, NEW then \in Steps,
           Save(b, copy, then), spaceRow' = spaceRow, spaces' = spaces,
           copy.space = Copy(b).space, \A t \in tabs' : t.space \in spaces
    PROVE  SpacesKnown'
<1>1. Held' \subseteq Held \cup {copy}
  BY SaveTurns DEF RegionInv
<1>2. copy.space \in spaces \cup {0}
  BY HeldTypes DEF SpacesKnown, RegionInv
<1>3. QED
  BY <1>1, <1>2, SpacesStay

\* The run goes on to the next region with a copy that names one more tab.
LEMMA SaveAlone ==
    ASSUME RegionInv, RegionInv', Undisturbed, NEW b \in Builders, Busy(b),
           NEW name \in RegionNames, NEW id \in 0 .. MaxTabs, NEW then \in RegionNames \cup {"done"},
           NEW new, new = [Copy(b) EXCEPT !.region[name] = id], Copy(b).region[name] = NoTab,
           Save(b, new, then), spaceRow' = spaceRow,
           Current(spaceRow)', Current(new)', LabelsDiffer'
    PROVE  Undisturbed'
<1>1. PICK x \in SpaceRows : x = Copy(b)
  BY WhoseRow
<1>2. /\ new.space = x.space /\ new.first = x.first
      /\ \A m \in RegionNames \ {name} : new.region[m] = x.region[m]
  BY <1>1, RowExtended
<1>3. Knows(x, spaceRow) /\ \A c \in Builders : Busy(c) => c = b
  BY <1>1, WhoseRow
<1>4. Knows(new, spaceRow')
  BY <1>1, <1>2, <1>3 DEF Knows
<1>5. PICK build : build = [pc |-> "save", copy |-> new, then |-> then]
  OBVIOUS
<1>6. /\ builder' = [builder EXCEPT ![b] = build] /\ build.copy = new /\ build.pc = "save"
      /\ Fits(build)
  BY <1>5 DEF Save, Fits
<1>7. Current(build.copy)'
  BY <1>6
<1>8. QED
  BY <1>3, <1>4, <1>6, <1>7, AloneStays

LEMMA BeginUnique ==
    ASSUME UniqueInv, RegionInv', NEW b \in Builders, BeginBuild(b)
    PROVE  UniqueInv'
<1> DEFINE new == [pc |-> IF spaceRow.space = 0 THEN "workspace" ELSE "work",
                   copy |-> spaceRow, then |-> "idle"]
<1>1. /\ builder' = [builder EXCEPT ![b] = new] /\ UNCHANGED <<spaceRow, spaces, tabs, nextTab>>
      /\ overlapped' = (overlapped \/ \E c \in Builders : Busy(c)) /\ RegionInv
  BY DEF BeginBuild, UniqueInv
<1>2. /\ new.copy = spaceRow /\ new.pc # "idle" /\ new.pc # "save"
      /\ new.pc = "workspace" => spaceRow.space = 0
  OBVIOUS
<1> HIDE DEF new
<1>3. PICK build : build = new
  OBVIOUS
<1>4. SpacesKnown'
  <2>1. \A c \in Builders : builder'[c].copy \in Held
    <3>1. \A c \in Builders : builder'[c] = IF c = b THEN new ELSE builder[c]
      BY <1>1 DEF RegionInv, RegionTypeOK
    <3>2. QED
      BY <1>2, <3>1 DEF Held
  <2>2. Held' \subseteq Held
    BY <1>1, <2>1 DEF Held
  <2>3. QED
    BY <1>1, <2>2 DEF UniqueInv, SpacesKnown
<1>5. ASSUME ~overlapped' PROVE Undisturbed'
  <2>1. Undisturbed /\ \A c \in Builders : ~Busy(c)
    BY <1>1, <1>5 DEF UniqueInv
  <2>2. Current(spaceRow)' /\ LabelsDiffer'
    BY <1>1, <2>1 DEF Undisturbed, RowsCurrent, Current, LabelsDiffer
  <2>3. Current(build.copy)'
    BY <1>1, <1>2, <1>3, <2>2 DEF Current
  <2>4. Fits(build) /\ Knows(build.copy, spaceRow')
    BY <1>1, <1>2, <1>3 DEF Fits, Knows
  <2>5. QED
    BY <1>1, <1>2, <1>3, <2>1, <2>2, <2>3, <2>4, AloneStays
<1>6. QED
  BY <1>4, <1>5 DEF UniqueInv

LEMMA SaveRowUnique ==
    ASSUME UniqueInv, RegionInv', NEW b \in Builders, SaveRow(b)
    PROVE  UniqueInv'
<1>1. PICK build, row : /\ build = [builder[b] EXCEPT !.pc = builder[b].then, !.then = "idle"]
                        /\ row = Copy(b)
  OBVIOUS
<1>2. /\ builder' = [builder EXCEPT ![b] = build] /\ builder[b].pc = "save"
      /\ spaceRow' = row /\ UNCHANGED <<spaces, tabs, nextTab, overlapped>> /\ RegionInv
  BY <1>1 DEF SaveRow, Written, UniqueInv, RegionInv, RegionTypeOK
<1>3. build.copy = row /\ build.pc = builder[b].then /\ row \in Held /\ row \in SpaceRows
  BY <1>1, <1>2, HeldTypes DEF Builds, Copy, RegionInv
<1>4. SpacesKnown'
  <2>1. Held' \subseteq Held
    BY <1>2, <1>3 DEF Held, RegionInv, RegionTypeOK
  <2>2. QED
    BY <1>2, <2>1 DEF UniqueInv, SpacesKnown
<1>5. ASSUME ~overlapped' PROVE Undisturbed'
  <2>1. Undisturbed /\ Busy(b)
    BY <1>2, <1>5 DEF UniqueInv, Busy
  <2>2. Fits(builder[b]) /\ \A c \in Builders : Busy(c) => c = b
    BY <1>2, <2>1, WhoseRow
  <2>3. build.pc \in RegionNames \cup {"done"}
    BY <1>2, <1>3, <2>2 DEF Fits
  <2>4. Current(row)' /\ LabelsDiffer'
    BY <1>1, <1>2, <2>1 DEF Undisturbed, RowsCurrent, Current, LabelsDiffer
  <2>5. Current(spaceRow)' /\ Current(build.copy)'
    BY <1>2, <1>3, <2>4 DEF Current
  <2>6. Fits(build) /\ Knows(build.copy, spaceRow') /\ build.pc # "idle"
    BY <1>2, <1>3, <2>3 DEF Fits, Knows, RegionNames
  <2>7. QED
    BY <1>2, <2>1, <2>2, <2>4, <2>5, <2>6, AloneStays
<1>6. QED
  BY <1>2, <1>4, <1>5 DEF UniqueInv

LEMMA EndUnique ==
    ASSUME UniqueInv, RegionInv', NEW b \in Builders, FinishBuild(b) \/ StopBuild(b)
    PROVE  UniqueInv'
<1>1. PICK build, row : build = Waiting /\ row = spaceRow'
  OBVIOUS
<1>2. /\ builder' = [builder EXCEPT ![b] = build] /\ Busy(b) /\ spaceRow' \in {spaceRow, Copy(b)}
      /\ UNCHANGED <<spaces, tabs, nextTab, overlapped>> /\ RegionInv
  BY <1>1 DEF FinishBuild, StopBuild, Written, UniqueInv, Busy
<1>3. build.copy = NoSpaceRow /\ build.pc = "idle"
  BY <1>1 DEF Waiting
<1>4. SpacesKnown'
  <2>1. Held' \subseteq Held
    BY <1>2, <1>3, HeldTypes DEF Held, RegionInv, RegionTypeOK
  <2>2. QED
    BY <1>2, <2>1 DEF UniqueInv, SpacesKnown
<1>5. ASSUME ~overlapped' PROVE Undisturbed'
  <2>1. Undisturbed
    BY <1>2, <1>5 DEF UniqueInv
  <2>2. \A c \in Builders : Busy(c) => c = b
    BY <1>2, <2>1, WhoseRow
  <2>3. Current(row)' /\ LabelsDiffer'
    BY <1>1, <1>2, <2>1 DEF Undisturbed, RowsCurrent, Current, LabelsDiffer
  <2>4. Current(spaceRow)'
    BY <1>1, <2>3 DEF Current
  <2>5. Current(build.copy)'
    <3>1. NoSpaceRow.space = 0 /\ NoSpaceRow.region["work"] = NoTab /\ \A t \in tabs' : t.space # 0
      BY EmptyRow DEF RegionInv, RegionTypeOK, RegionNames, NoSpaceRow
    <3>2. QED
      BY <1>3, <3>1 DEF Current
  <2>6. QED
    BY <1>2, <1>3, <2>1, <2>2, <2>3, <2>4, <2>5, AloneStays
<1>6. QED
  BY <1>2, <1>4, <1>5 DEF UniqueInv

LEMMA ReuseUnique ==
    ASSUME UniqueInv, RegionInv', NEW b \in Builders, NEW name \in RegionNames, ReuseTab(b, name)
    PROVE  UniqueInv'
<1>1. PICK x : x = Copy(b)
  OBVIOUS
<1>2. PICK t \in tabs : /\ Labelled(x.space, name) = {t}
                        /\ Save(b, [x EXCEPT !.region[name] = t.id], Following(name))
  BY <1>1 DEF ReuseTab
<1>3. PICK id, new : id = t.id /\ new = [x EXCEPT !.region[name] = id]
  OBVIOUS
<1>4. /\ UNCHANGED <<spaceRow, spaces, tabs, nextTab, overlapped>> /\ name # "work" /\ Busy(b)
      /\ x.region[name] = NoTab /\ Save(b, new, Following(name)) /\ RegionInv
  BY <1>1, <1>2, <1>3 DEF ReuseTab, Busy, UniqueInv, RegionNames
<1>5. x \in SpaceRows /\ Following(name) \in Steps
      /\ Following(name) \in RegionNames \cup {"done"}
  BY <1>1, <1>4, HeldTypes, StepTypes DEF Following, RegionNames, RegionInv
<1>6. id \in 0 .. MaxTabs
  BY <1>3, <1>4 DEF RegionInv, RegionTypeOK, TabIds
<1>7. /\ new \in SpaceRows /\ new.space = x.space /\ new.first = x.first /\ new.region[name] = id
      /\ \A m \in RegionNames \ {name} : new.region[m] = x.region[m]
  BY <1>3, <1>5, <1>6, RowExtended
<1>8. SpacesKnown'
  <2>1. \A u \in tabs' : u.space \in spaces
    BY <1>4 DEF UniqueInv, SpacesKnown
  <2>2. QED
    BY <1>1, <1>4, <1>5, <1>7, <2>1, SaveKnown DEF UniqueInv
<1>9. ASSUME ~overlapped' PROVE Undisturbed'
  <2>1. Undisturbed
    BY <1>4, <1>9 DEF UniqueInv
  <2>2. Current(spaceRow)' /\ LabelsDiffer'
    BY <1>4, <2>1 DEF Undisturbed, RowsCurrent, Current, LabelsDiffer
  <2>3. Current(x)
    BY <1>1, <1>4, <2>1, WhoseRow
  <2>4. \A u \in tabs : u.space = x.space /\ u.label = name => u.id = id
    BY <1>2, <1>3 DEF Labelled
  <2>5. Current(new)'
    BY <1>4, <1>7, <2>3, <2>4 DEF Current, RegionNames
  <2>6. QED
    BY <1>1, <1>3, <1>4, <1>5, <1>6, <2>1, <2>2, <2>5, SaveAlone
<1>10. QED
  BY <1>4, <1>8, <1>9 DEF UniqueInv

\* A region's tab is created only if no tab has its label and no row names one.
LEMMA CreateUnique ==
    ASSUME UniqueInv, RegionInv', NEW b \in Builders, NEW name \in RegionNames, CreateTab(b, name)
    PROVE  UniqueInv'
<1>1. PICK x, id, new, tab : /\ x = Copy(b) /\ id = nextTab /\ tab = NewTab(x.space, name)
                             /\ new = [x EXCEPT !.region[name] = id]
  OBVIOUS
<1>2. /\ UNCHANGED <<spaceRow, spaces, overlapped>> /\ name # "work" /\ Busy(b)
      /\ x.region[name] = NoTab /\ Labelled(x.space, name) = {} /\ x.space \in spaces
      /\ Save(b, new, Following(name)) /\ RegionInv /\ tabs' = tabs \cup {tab}
      /\ tab.id = id /\ tab.space = x.space /\ tab.label = name
      /\ nextTab <= MaxTabs
  BY <1>1 DEF CreateTab, LacksTab, Busy, UniqueInv, RegionNames, NewTab
<1>3. x \in SpaceRows /\ Following(name) \in Steps
      /\ Following(name) \in RegionNames \cup {"done"}
  BY <1>1, <1>2, HeldTypes, StepTypes DEF Following, RegionNames, RegionInv
<1>4. id \in 0 .. MaxTabs /\ x.space # 0
  BY <1>1, <1>2 DEF RegionInv, RegionTypeOK
<1>5. /\ new \in SpaceRows /\ new.space = x.space /\ new.first = x.first /\ new.region[name] = id
      /\ \A m \in RegionNames \ {name} : new.region[m] = x.region[m]
  BY <1>1, <1>3, <1>4, RowExtended
<1>6. SpacesKnown'
  <2>1. \A u \in tabs' : u.space \in spaces
    BY <1>2 DEF UniqueInv, SpacesKnown
  <2>2. QED
    BY <1>1, <1>2, <1>3, <1>5, <2>1, SaveKnown DEF UniqueInv
<1>7. ASSUME ~overlapped' PROVE Undisturbed'
  <2>1. Undisturbed
    BY <1>2, <1>7 DEF UniqueInv
  <2>2. Current(x) /\ Current(spaceRow) /\ Knows(x, spaceRow)
    BY <1>1, <1>2, <2>1, WhoseRow
  <2>3. \A u \in tabs : u.space = x.space => u.label # name
    BY <1>2 DEF Labelled
  <2>4. LabelsDiffer'
    BY <1>2, <2>1, <2>3 DEF Undisturbed, LabelsDiffer
  <2>5. Current(spaceRow)'
    <3>1. spaceRow.space = x.space => spaceRow.region[name] = NoTab
      BY <1>2, <1>4, <2>2 DEF Knows
    <3>2. QED
      BY <1>2, <2>2, <3>1 DEF Current
  <2>6. Current(new)'
    BY <1>2, <1>5, <2>2, <2>3 DEF Current, RegionNames
  <2>7. QED
    BY <1>1, <1>2, <1>3, <1>4, <2>1, <2>4, <2>5, <2>6, SaveAlone
<1>8. QED
  BY <1>2, <1>6, <1>7 DEF UniqueInv

\* Giving the tab of a region its label: in its workspace no other tab has it.
LEMMA LabelGiven ==
    ASSUME RegionInv, Undisturbed, NEW b \in Builders, Busy(b), NEW x, x = Copy(b),
           NEW name \in RegionNames, NEW tab \in tabs, tab.space = x.space,
           name = "work" => tab.id = x.first,
           name # "work" => tab.id = x.region[name] /\ x.region[name] # NoTab,
           tabs' = {IF t.id = tab.id THEN [t EXCEPT !.label = name] ELSE t : t \in tabs},
           nextTab' = nextTab, spaceRow' = spaceRow
    PROVE  LabelsDiffer' /\ Current(spaceRow)' /\ Current(x)'
<1> DEFINE Now(t) == IF t.id = tab.id THEN [t EXCEPT !.label = name] ELSE t
<1>1. tabs' = {Now(t) : t \in tabs} /\ \A t \in tabs : t.id = tab.id => t = tab
  BY DEF RegionInv, TabsDiffer
<1>2. ASSUME NEW t \in tabs
      PROVE  /\ Now(t).id = t.id /\ Now(t).space = t.space
             /\ Now(t).label = IF t.id = tab.id THEN name ELSE t.label
  <2>1. t \in Tabs
    BY DEF RegionInv, RegionTypeOK, Tabs
  <2>2. QED
    BY <2>1 DEF Tabs
<1> HIDE DEF Now
<1>3. /\ Knows(x, spaceRow) /\ Current(spaceRow) /\ Current(x) /\ tab.space # 0
  BY WhoseRow DEF RegionInv, RegionTypeOK
\* A tab of the workspace that has the label already is the region's.
<1>4. \A t \in tabs : t.space = x.space /\ t.label = name => t.id = tab.id
  BY <1>3 DEF Current
<1>5. LabelsDiffer'
  <2>1. ASSUME NEW t \in tabs, NEW u \in tabs, Now(t).space = Now(u).space,
               Now(t).label = Now(u).label, Now(t).label \in RegionNames
        PROVE  Now(t) = Now(u)
    <3>1. CASE t.id = tab.id \/ u.id = tab.id
      <4>1. t.id = tab.id /\ u.id = tab.id
        BY <1>1, <1>2, <1>4, <2>1, <3>1
      <4>2. QED
        BY <1>1, <4>1
    <3>2. CASE t.id # tab.id /\ u.id # tab.id
      BY <1>2, <2>1, <3>2 DEF Undisturbed, LabelsDiffer
    <3>3. QED
      BY <3>1, <3>2
  <2>2. QED
    BY <1>1, <2>1 DEF LabelsDiffer
<1>6. ASSUME NEW y, Current(y), y.space = x.space => y.first = x.first
             /\ (name # "work" => y.region[name] \in {NoTab, x.region[name]})
      PROVE  Current(y)'
  <2>1. ASSUME NEW t \in tabs, t.space = y.space
        PROVE  /\ Now(t).label = "work" => t.id = y.first
               /\ \A n \in RegionNames \ {"work"} :
                     Now(t).label = n /\ y.region[n] # NoTab => t.id = y.region[n]
    <3>1. CASE t.id = tab.id
      <4>1. t = tab /\ Now(t).label = name
        BY <1>1, <1>2, <3>1
      <4>2. QED
        BY <1>6, <2>1, <4>1
    <3>2. CASE t.id # tab.id
      BY <1>2, <1>6, <2>1, <3>2 DEF Current
    <3>3. QED
      BY <3>1, <3>2
  <2>2. QED
    BY <1>1, <1>2, <1>6, <2>1 DEF Current
<1>7. Current(x)'
  BY <1>3, <1>6
<1>8. Current(spaceRow)'
  <2>1. PICK row : row = spaceRow
    OBVIOUS
  <2>2. Current(row)'
    BY <1>3, <1>6, <2>1 DEF Knows
  <2>3. QED
    BY <2>1, <2>2 DEF Current
<1>9. QED
  BY <1>5, <1>7, <1>8

LEMMA RenameFirstUnique ==
    ASSUME UniqueInv, RegionInv', NEW b \in Builders, RenameFirst(b)
    PROVE  UniqueInv'
<1>1. PICK x, id, new : /\ x = Copy(b) /\ id = x.first
                        /\ new = [x EXCEPT !.region["work"] = id]
  OBVIOUS
<1>2. /\ UNCHANGED <<spaceRow, spaces, nextTab, overlapped>> /\ Busy(b) /\ RegionInv
      /\ x.region["work"] = NoTab /\ HasTab(id, x.space) /\ Save(b, new, "review")
      /\ tabs' = {IF t.id = id THEN [t EXCEPT !.label = "work"] ELSE t : t \in tabs}
  BY <1>1 DEF RenameFirst, Busy, UniqueInv
<1>3. x \in SpaceRows /\ "review" \in Steps /\ "work" \in RegionNames
      /\ "review" \in RegionNames \cup {"done"}
  BY <1>1, <1>2, HeldTypes, StepTypes DEF RegionNames, RegionInv
<1>4. id \in 0 .. MaxTabs
  BY <1>1, <1>3, RowFields
<1>5. /\ new \in SpaceRows /\ new.space = x.space /\ new.first = x.first
      /\ new.region["work"] = id
      /\ \A m \in RegionNames \ {"work"} : new.region[m] = x.region[m]
  BY <1>1, <1>3, <1>4, RowExtended
<1>6. SpacesKnown'
  <2>1. \A u \in tabs' : u.space \in spaces
    <3>1. \A u \in tabs : u \in Tabs /\ u.space \in spaces
      BY <1>2 DEF UniqueInv, SpacesKnown, RegionInv, RegionTypeOK, Tabs
    <3>2. QED
      BY <1>2, <3>1 DEF Tabs
  <2>2. QED
    BY <1>1, <1>2, <1>3, <1>5, <2>1, SaveKnown DEF UniqueInv
<1>7. ASSUME ~overlapped' PROVE Undisturbed'
  <2>1. Undisturbed
    BY <1>2, <1>7 DEF UniqueInv
  <2>2. PICK tab \in tabs : tab.id = id /\ tab.space = x.space
    BY <1>2 DEF HasTab
  <2>3. LabelsDiffer' /\ Current(spaceRow)' /\ Current(x)'
    <3>1. tabs' = {IF t.id = tab.id THEN [t EXCEPT !.label = "work"] ELSE t : t \in tabs}
      BY <1>2, <2>2
    <3>2. tab.id = x.first /\ nextTab' = nextTab /\ spaceRow' = spaceRow
      BY <1>1, <1>2, <2>2
    <3>3. PICK name \in RegionNames : name = "work"
      BY <1>3
    <3>4. QED
      BY <1>1, <1>2, <2>1, <2>2, <3>1, <3>2, <3>3, LabelGiven
  <2>4. Current(new)'
    BY <1>1, <1>5, <2>3 DEF Current
  <2>5. QED
    BY <1>1, <1>2, <1>3, <1>4, <2>1, <2>3, <2>4, SaveAlone
<1>8. QED
  BY <1>2, <1>6, <1>7 DEF UniqueInv

LEMMA CheckUnique ==
    ASSUME UniqueInv, RegionInv', NEW b \in Builders, NEW name \in RegionNames, CheckTab(b, name)
    PROVE  UniqueInv'
<1>1. PICK x, id, build : /\ x = Copy(b) /\ id = x.region[name]
                          /\ build = [builder[b] EXCEPT !.pc = Following(name)]
  OBVIOUS
<1>2. /\ UNCHANGED <<spaceRow, spaces, nextTab, overlapped>> /\ Busy(b) /\ RegionInv
      /\ id # NoTab /\ HasTab(id, x.space) /\ builder' = [builder EXCEPT ![b] = build]
      /\ tabs' = {IF t.id = id THEN [t EXCEPT !.label = name] ELSE t : t \in tabs}
      /\ builder[b].pc = name
  BY <1>1 DEF CheckTab, Busy, UniqueInv, Go, RegionNames, RegionInv, RegionTypeOK
<1>3. /\ Following(name) \in RegionNames \cup {"done"}
      /\ builder[b] \in Builds /\ x \in Held
  BY <1>1, <1>2, HeldTypes DEF Following, RegionNames, RegionInv
<1>4. build.pc = Following(name) /\ build.copy = x
  BY <1>1, <1>3 DEF Builds, Copy
<1>5. SpacesKnown'
  <2>1. \A u \in tabs' : u.space \in spaces
    <3>1. \A u \in tabs : u \in Tabs /\ u.space \in spaces
      BY <1>2 DEF UniqueInv, SpacesKnown, RegionInv, RegionTypeOK, Tabs
    <3>2. QED
      BY <1>2, <3>1 DEF Tabs
  <2>2. Held' \subseteq Held
    BY <1>2, <1>3, <1>4 DEF Held, RegionInv, RegionTypeOK
  <2>3. QED
    BY <1>2, <2>1, <2>2 DEF UniqueInv, SpacesKnown
<1>6. ASSUME ~overlapped' PROVE Undisturbed'
  <2>1. Undisturbed
    BY <1>2, <1>6 DEF UniqueInv
  <2>2. PICK tab \in tabs : tab.id = id /\ tab.space = x.space
    BY <1>2 DEF HasTab
  <2>3. /\ \A c \in Builders : Busy(c) => c = b
        /\ Knows(x, spaceRow) /\ Current(x)
    BY <1>1, <1>2, <2>1, WhoseRow
  <2>4. name = "work" => id = x.first
    BY <1>1, <1>2, <2>3 DEF Current
  <2>5. LabelsDiffer' /\ Current(spaceRow)' /\ Current(x)'
    <3>1. tabs' = {IF t.id = tab.id THEN [t EXCEPT !.label = name] ELSE t : t \in tabs}
      BY <1>2, <2>2
    <3>2. /\ name = "work" => tab.id = x.first
          /\ name # "work" => tab.id = x.region[name] /\ x.region[name] # NoTab
          /\ nextTab' = nextTab /\ spaceRow' = spaceRow
      BY <1>1, <1>2, <2>2, <2>4
    <3>3. QED
      BY <1>1, <1>2, <2>1, <2>2, <3>1, <3>2, LabelGiven
  <2>6. Current(build.copy)'
    BY <1>4, <2>5
  <2>7. Fits(build) /\ Knows(build.copy, spaceRow') /\ build.pc # "idle"
    BY <1>2, <1>3, <1>4, <2>3 DEF Fits, Knows, RegionNames
  <2>8. QED
    BY <1>2, <2>1, <2>3, <2>5, <2>6, <2>7, AloneStays
<1>7. QED
  BY <1>2, <1>5, <1>6 DEF UniqueInv

\* A workspace is created only if none is recorded, and with a tab of its own.
LEMMA WorkspaceUnique ==
    ASSUME UniqueInv, RegionInv', NEW b \in Builders, CreateWorkspace(b)
    PROVE  UniqueInv'
<1>0. PICK n \in Nat : spaces = 1 .. n
  BY DEF UniqueInv, SpacesKnown
<1>1. Cardinality(spaces) = n
  BY <1>0, FS_Interval
<1>2. PICK space, row, build, tab :
         /\ space = n + 1 /\ row = [NoSpaceRow EXCEPT !.space = space, !.first = nextTab]
         /\ build = [pc |-> "save", copy |-> row, then |-> "work"]
         /\ tab = NewTab(space, "initial")
  OBVIOUS
<1>3. /\ spaces' = spaces \cup {space} /\ tabs' = tabs \cup {tab} /\ Busy(b)
      /\ builder' = [builder EXCEPT ![b] = build] /\ builder[b].pc = "workspace"
      /\ spaceRow' = spaceRow /\ overlapped' = overlapped /\ RegionInv
      /\ space \notin spaces /\ spaces' = 1 .. n + 1 /\ space # 0
  <2>1. Cardinality(spaces) + 1 = space
    BY <1>1, <1>2
  <2>2. /\ spaces' = spaces \cup {space} /\ tabs' = tabs \cup {tab} /\ Busy(b)
        /\ builder' = [builder EXCEPT ![b] = build] /\ builder[b].pc = "workspace"
        /\ spaceRow' = spaceRow /\ overlapped' = overlapped /\ RegionInv
    BY <1>2, <2>1 DEF CreateWorkspace, Save, UniqueInv, Busy
  <2>3. space \notin spaces /\ space # 0
    BY <1>0, <1>2
  <2>4. (1 .. n) \cup {n + 1} = 1 .. n + 1
    BY <1>0
  <2>5. QED
    BY <1>0, <1>2, <2>2, <2>3, <2>4
<1>4. /\ tab.space = space /\ tab.label = "initial"
      /\ row.space = space /\ row.region["work"] = NoTab
      /\ \A name \in RegionNames : row.region[name] = NoTab
      /\ build.copy = row /\ build.pc = "save" /\ build.then = "work"
  <2>1. row.space = space /\ row.region = NoSpaceRow.region
    BY <1>2 DEF NoSpaceRow
  <2>2. QED
    BY <1>2, <2>1, EmptyRow DEF NewTab, RegionNames
<1>5. SpacesKnown'
  <2>1. \A x \in Held' : x \in Held \cup {row}
    BY <1>3, <1>4 DEF Held, RegionInv, RegionTypeOK
  <2>2. QED
    BY <1>3, <1>4, <2>1 DEF UniqueInv, SpacesKnown
<1>6. ASSUME ~overlapped' PROVE Undisturbed'
  <2>1. Undisturbed
    BY <1>3, <1>6 DEF UniqueInv
  <2>2. /\ \A c \in Builders : Busy(c) => c = b
        /\ Knows(Copy(b), spaceRow) /\ Fits(builder[b]) /\ Current(spaceRow)
    BY <1>3, <2>1, WhoseRow
  <2>3. spaceRow.space = 0
    BY <1>3, <2>2 DEF Fits, Knows, Copy
  <2>4. "initial" \notin RegionNames
    BY DEF RegionNames
  <2>5. LabelsDiffer'
    BY <1>3, <1>4, <2>1, <2>4 DEF Undisturbed, LabelsDiffer
  <2>6. Current(spaceRow)'
    BY <1>3, <1>4, <2>2, <2>4 DEF Current, RegionNames
  <2>7. \A t \in tabs' : t.space = space => t.label = "initial"
    BY <1>3, <1>4 DEF UniqueInv, SpacesKnown
  <2>8. Current(row)'
    BY <1>4, <2>4, <2>7 DEF Current, RegionNames
  <2>9. Current(build.copy)'
    BY <1>4, <2>8
  <2>10. Fits(build) /\ Knows(build.copy, spaceRow')
    BY <1>3, <1>4, <2>3 DEF Fits, Knows, RegionNames
  <2>11. QED
    BY <1>3, <1>4, <2>1, <2>2, <2>5, <2>6, <2>9, <2>10, AloneStays
<1>7. QED
  BY <1>5, <1>6 DEF UniqueInv

\* A tab that is renamed or closed leaves no second one behind.
LEMMA UserUnique ==
    ASSUME UniqueInv, RegionInv', NEW tab \in tabs, RenameTab(tab.id) \/ CloseTab(tab.id)
    PROVE  UniqueInv'
<1>1. UNCHANGED <<spaceRow, spaces, nextTab, builder, overlapped>> /\ RegionInv
  BY DEF RenameTab, CloseTab, UniqueInv
<1>2. \A u \in tabs' : u \in tabs \/ (u.label = "renamed" /\ \E t \in tabs : u.space = t.space)
  <2>1. CASE CloseTab(tab.id)
    BY <2>1 DEF CloseTab
  <2>2. CASE RenameTab(tab.id)
    <3>1. ASSUME NEW t \in tabs
          PROVE  LET u == [t EXCEPT !.label = "renamed"] IN u.label = "renamed" /\ u.space = t.space
      <4>1. t \in Tabs
        BY <1>1 DEF RegionInv, RegionTypeOK, Tabs
      <4>2. QED
        BY <4>1 DEF Tabs
    <3>2. QED
      BY <2>2, <3>1 DEF RenameTab
  <2>3. QED
    BY <2>1, <2>2
<1>3. "renamed" \notin RegionNames
  BY DEF RegionNames
<1>4. SpacesKnown'
  BY <1>1, <1>2 DEF UniqueInv, SpacesKnown, Held
<1>5. ASSUME Undisturbed PROVE Undisturbed'
  <2>1. Alone' /\ BuildersKnow'
    BY <1>1, <1>5 DEF Undisturbed, Alone, BuildersKnow, Busy, Copy, Fits, Knows
  <2>2. ASSUME NEW x, Current(x) PROVE Current(x)'
    BY <1>2, <1>3, <2>2 DEF Current, RegionNames
  <2>3. RowsCurrent'
    <3>1. PICK row : row = spaceRow
      OBVIOUS
    <3>2. Current(spaceRow)'
      <4>1. Current(row)'
        BY <1>5, <2>2, <3>1 DEF Undisturbed, RowsCurrent
      <4>2. QED
        BY <1>1, <3>1, <4>1 DEF Current
    <3>3. ASSUME NEW b \in Builders PROVE Current(Copy(b))'
      <4>1. PICK x : x = Copy(b)
        OBVIOUS
      <4>2. Current(x)'
        BY <1>5, <2>2, <4>1 DEF Undisturbed, RowsCurrent
      <4>3. QED
        BY <1>1, <4>1, <4>2 DEF Current, Copy
    <3>4. QED
      BY <3>2, <3>3 DEF RowsCurrent
  <2>4. LabelsDiffer'
    BY <1>2, <1>3, <1>5 DEF Undisturbed, LabelsDiffer
  <2>5. QED
    BY <2>1, <2>3, <2>4 DEF Undisturbed
<1>6. QED
  BY <1>1, <1>4, <1>5 DEF UniqueInv

LEMMA UniqueStart == RegionInit => UniqueInv
<1> SUFFICES ASSUME RegionInit PROVE UniqueInv
  OBVIOUS
<1>1. RegionInv
  BY RegionStart
<1>2. /\ tabs = {} /\ spaces = {} /\ spaceRow = NoSpaceRow
      /\ \A b \in Builders : builder[b].copy = NoSpaceRow /\ builder[b].pc = "idle"
  BY DEF RegionInit, Waiting
<1>3. SpacesKnown
  <2>1. spaces = 1 .. 0 /\ NoSpaceRow.space = 0
    BY <1>2 DEF NoSpaceRow
  <2>2. QED
    BY <1>2, <2>1 DEF SpacesKnown, Held
<1>4. Current(NoSpaceRow)
  BY <1>2, EmptyIsCurrent
<1>5. QED
  BY <1>1, <1>2, <1>3, <1>4 DEF UniqueInv, Undisturbed, Alone, BuildersKnow, RowsCurrent,
                                LabelsDiffer, Busy, Copy

LEMMA UniqueStep == UniqueInv /\ [RegionNext]_regionVars => UniqueInv'
<1> SUFFICES ASSUME UniqueInv, [RegionNext]_regionVars PROVE UniqueInv'
  OBVIOUS
<1>1. RegionInv'
  BY RegionStep DEF UniqueInv
<1>2. ASSUME NEW b \in Builders,
             \/ BeginBuild(b) \/ CreateWorkspace(b) \/ SaveRow(b) \/ RenameFirst(b)
             \/ FinishBuild(b) \/ StopBuild(b)
      PROVE  UniqueInv'
  BY <1>1, <1>2, BeginUnique, WorkspaceUnique, SaveRowUnique, RenameFirstUnique, EndUnique
<1>3. ASSUME NEW b \in Builders, NEW name \in RegionNames,
             ReuseTab(b, name) \/ CreateTab(b, name) \/ CheckTab(b, name)
      PROVE  UniqueInv'
  BY <1>1, <1>3, ReuseUnique, CreateUnique, CheckUnique
<1>4. ASSUME NEW t \in tabs, RenameTab(t.id) \/ CloseTab(t.id) PROVE UniqueInv'
  BY <1>1, <1>4, UserUnique
<1>5. CASE UNCHANGED regionVars
  <2>1. UNCHANGED <<spaceRow, spaces, tabs, nextTab, builder, overlapped>>
    BY <1>5 DEF regionVars
  <2>2. QED
    BY <1>1, <2>1 DEF UniqueInv, SpacesKnown, Held, Undisturbed, Alone, BuildersKnow, RowsCurrent,
                      LabelsDiffer, Busy, Copy, Current, Fits, Knows
<1>6. QED
  BY <1>2, <1>3, <1>4, <1>5 DEF RegionNext

\* However often runs of launch_mission stopped halfway, and whatever the user did
\* to the tabs, no region has two tabs unless two runs were under way at once.
THEOREM RegionsStayUnique == RegionSpec => []RegionsAreUnique
<1>1. UniqueInv => RegionsAreUnique
  <2> SUFFICES ASSUME UniqueInv, ~overlapped, NEW s \in spaces, NEW name \in RegionNames
               PROVE  Cardinality(Labelled(s, name)) <= 1
    BY DEF RegionsAreUnique
  <2>1. \A t, u \in Labelled(s, name) : t = u
    BY DEF Labelled, UniqueInv, Undisturbed, LabelsDiffer
  <2>2. CASE Labelled(s, name) = {}
    BY <2>2, FS_EmptySet
  <2>3. CASE Labelled(s, name) # {}
    <3>1. PICK t : Labelled(s, name) = {t}
      BY <2>1, <2>3
    <3>2. QED
      BY <3>1, FS_Singleton
  <2>4. QED
    BY <2>2, <2>3
<1>2. QED
  BY UniqueStart, UniqueStep, <1>1, PTL DEF RegionSpec
=============================================================================

------------------------------- MODULE AppUI -------------------------------
(***************************************************************************)
(* The table of src/src/ui.rs under the user's keys and the monitor's      *)
(* events: sorting, the search filter, selection and expansion, and what   *)
(* the screen shows of them.  A key is followed by a draw; a monitor event *)
(* changes the hosts under a screen that still shows the old ones.         *)
(*                                                                         *)
(* Of a host the table needs its look: its place in each sort order, the   *)
(* text that search looks at and the numbers of its jobs and attributes.   *)
(* Reports and jobs change all of them.  The arrow keys are left out where *)
(* a letter does the same.                                                 *)
(***************************************************************************)
EXTENDS Integers, FiniteSets, SequencesExt

CONSTANTS
    HostId,
    ALL,       \* SortColumn::ALL, or the columns of it that are explored
    Look,      \* bound: the looks that each host can have
    Letter,    \* bound: the characters that are typed into search
    MaxQuery,  \* bound: how many of them
    Stale      \* the screen when an event came in after the last draw

(* The number of its jobs (active_jobs_on_host), which is also what the    *)
(* column Current shows; host.attrs.len(); its values in the other columns *)
(* and what search looks at: name, ip and platform.                        *)
HostLook == [ cur : Nat, attrs : Nat,
              key : [ToSet(ALL) \ {"Current"} -> Nat], text : Seq(Letter) ]

ASSUME AppAssumption ==
    /\ IsFiniteSet(HostId) /\ HostId # {}
    /\ ALL \in Seq(STRING) /\ "Name" \in ToSet(ALL)
    /\ MaxQuery \in Nat
    /\ \A h \in HostId :
         /\ \A look \in Look[h] : look \in HostLook
         /\ \E look \in Look[h] : look.cur = 0

VARIABLES
    running,  \* whether the UI loop still runs
    state,    \* App.state, of which hosts is the ids in the order the hash map
              \* iterates them and look is what each host is like
    app,      \* the fields of App that keys change
    screen    \* what the last draw showed

vars == <<running, state, app, screen>>

ViewMode == {"Table", "Search", "Log"}
App == [ sort_col : 1..Len(ALL), sort_reverse : BOOLEAN,
         selected : 0..(Cardinality(HostId) - 1),
         expanded : SUBSET HostId, expand_all : BOOLEAN,
         view_mode : ViewMode, search_query : Seq(Letter) ]

(* The selection stays below the number of hosts there can be, whatever    *)
(* the keys and the filter (ui.rs:94-99, 325-327).                         *)
TypeOK ==
    /\ running \in BOOLEAN
    /\ state \in [ hosts : Seq(HostId), look : [HostId -> HostLook] ]
    /\ IsInjective(state.hosts)
    /\ \A h \in HostId : state.look[h] \in Look[h]
    /\ app \in App

NoHosts ==
    [ hosts |-> <<>>,
      look |-> [h \in HostId |-> CHOOSE look \in Look[h] : look.cur = 0] ]
NewApp ==
    [ sort_col |-> CHOOSE i \in DOMAIN ALL : ALL[i] = "Name", sort_reverse |-> FALSE,
      selected |-> 0, expanded |-> {}, expand_all |-> FALSE,
      view_mode |-> "Table", search_query |-> <<>> ]

-----------------------------------------------------------------------------
(* The list of hosts.                                                      *)

SortKey(s, col, h) ==
    IF ALL[col] = "Current" THEN s.look[h].cur ELSE s.look[h].key[ALL[col]]

(* sort_by is stable: hosts that compare equal stay in the order of the    *)
(* hash map, also when the comparison is reversed.                         *)
sorted_host_ids(s, col, reverse) ==
    LET place(h) == CHOOSE i \in DOMAIN s.hosts : s.hosts[i] = h
        key(h) == SortKey(s, col, h)
        before(g, h) ==
            \/ IF reverse THEN key(g) > key(h) ELSE key(g) < key(h)
            \/ key(g) = key(h) /\ place(g) < place(h)
        ids == ToSet(s.hosts)
    IN  [i \in DOMAIN s.hosts |->
            CHOOSE h \in ids : Cardinality({g \in ids : before(g, h)}) = i - 1]

Matches(s, h, query) ==
    LET text == s.look[h].text
    IN  \E i \in 1..(Len(text) + 1 - Len(query)) :
            SubSeq(text, i, i + Len(query) - 1) = query

(* The ids draw_table lists: those the filter lets through, in their order.*)
Filtered(s, ids, query) ==
    FoldLeft(LAMBDA kept, h : IF Matches(s, h, query) THEN Append(kept, h) ELSE kept,
             <<>>, ids)

Listed(s, a) ==
    LET ids == sorted_host_ids(s, a.sort_col, a.sort_reverse)
    IN  IF a.search_query = <<>> THEN ids ELSE Filtered(s, ids, a.search_query)

(* The rows counted under a host, for its jobs and its attributes.         *)
DetailRows(s, a, h) ==
    IF a.expand_all \/ h \in a.expanded THEN s.look[h].cur + s.look[h].attrs ELSE 0

(* Mutant: only the rows of jobs are counted.                              *)
host_to_table_row_NoAttrs(ids, host_index, s, a) ==
    FoldLeft(LAMBDA row, h : row + 1 +
                 IF a.expand_all \/ h \in a.expanded THEN s.look[h].cur ELSE 0,
             0, SubSeq(ids, 1, host_index))

host_to_table_row(ids, host_index, s, a) ==
    FoldLeft(LAMBDA row, h : row + 1 + DetailRows(s, a, h), 0, SubSeq(ids, 1, host_index))

(* The rows laid out for a host: its own, one for each of its jobs and one *)
(* for each of its attributes.                                             *)
HostRows(s, a, h) ==
    LET own == <<[host |-> h, detail |-> FALSE]>>
        details(n) == [r \in 1..n |-> [host |-> h, detail |-> TRUE]]
    IN  IF h \in a.expanded \/ a.expand_all
        THEN own \o details(s.look[h].cur) \o details(s.look[h].attrs)
        ELSE own
TableRows(ids, s, a) == FlattenSeq([i \in DOMAIN ids |-> HostRows(s, a, ids[i])])

(* Mutant: a selection beyond the list goes back to its top.               *)
Clamped_ToTop(s, a) ==
    LET last == Len(Listed(s, a)) - 1
    IN  IF a.view_mode = "Log" \/ last < 0 \/ a.selected <= last THEN a
        ELSE [a EXCEPT !.selected = 0]

(* draw: the selection is clamped to the list, the row of its host is      *)
(* highlighted.  An empty list and the log leave the selection alone.      *)
Clamped(s, a) ==
    LET last == Len(Listed(s, a)) - 1
    IN  IF a.view_mode = "Log" \/ last < 0 \/ a.selected <= last THEN a
        ELSE [a EXCEPT !.selected = last]

Shown(s, a) ==
    IF a.view_mode = "Log" THEN [view |-> "Log"]
    ELSE LET ids == Listed(s, a)
         IN  [ view |-> a.view_mode, ids |-> ids, rows |-> TableRows(ids, s, a),
               selected |-> a.selected,
               highlighted |-> IF ids = <<>> THEN 0
                               ELSE host_to_table_row(ids, a.selected, s, a) ]

Draw(a) ==
    /\ app' = Clamped(state, a)
    /\ screen' = Shown(state, Clamped(state, a))

Init ==
    /\ running = TRUE
    /\ state = NoHosts
    /\ app = NewApp
    /\ screen = Shown(state, app)

-----------------------------------------------------------------------------
(* The keys.                                                               *)

(* Mutant: j does not stop at the last host.                               *)
MoveDown_NoMin(s, a) == IF s.hosts = <<>> THEN a ELSE [a EXCEPT !.selected = @ + 1]

MoveDown(s, a) ==
    IF s.hosts = <<>> THEN a
    ELSE [a EXCEPT !.selected = IF @ + 1 < Len(s.hosts) THEN @ + 1 ELSE Len(s.hosts) - 1]
MoveUp(a) == IF a.selected > 0 THEN [a EXCEPT !.selected = @ - 1] ELSE a
MoveLast(s, a) == IF s.hosts = <<>> THEN a ELSE [a EXCEPT !.selected = Len(s.hosts) - 1]

NextColumn(a) == [a EXCEPT !.sort_col = (@ % Len(ALL)) + 1]
PrevColumn(a) == [a EXCEPT !.sort_col = ((@ + Len(ALL) - 2) % Len(ALL)) + 1]

(* Mutant: the key looks the host up in the unreversed list.               *)
ToggleSelected_Forward(s, a) ==
    LET ids == sorted_host_ids(s, a.sort_col, FALSE)
        id == ids[a.selected + 1]
    IN  IF a.selected >= Len(ids) THEN a
        ELSE [a EXCEPT !.expanded = IF id \in @ THEN @ \ {id} ELSE @ \cup {id}]

(* The id at the selected index of the whole sorted list.                  *)
ToggleSelected(s, a) ==
    LET ids == sorted_host_ids(s, a.sort_col, a.sort_reverse)
        id == ids[a.selected + 1]
    IN  IF a.selected >= Len(ids) THEN a
        ELSE [a EXCEPT !.expanded = IF id \in @ THEN @ \ {id} ELSE @ \cup {id}]

ToggleAll(a) ==
    [a EXCEPT !.expand_all = ~@, !.expanded = IF a.expand_all THEN {} ELSE @]

handle_table_key(s, a, key) ==
    CASE key = "j" -> MoveDown(s, a)
      [] key = "k" -> MoveUp(a)
      [] key = "l" -> NextColumn(a)
      [] key = "h" -> PrevColumn(a)
      [] key = "r" -> [a EXCEPT !.sort_reverse = ~@]
      [] key = "space" -> ToggleSelected(s, a)
      [] key = "a" -> ToggleAll(a)
      [] key = "/" -> [a EXCEPT !.view_mode = "Search", !.search_query = <<>>]
      [] key = "L" -> [a EXCEPT !.view_mode = "Log"]
      [] key = "g" -> [a EXCEPT !.selected = 0]
      [] key = "G" -> MoveLast(s, a)
      [] OTHER -> a

handle_search_key(a, key) ==
    CASE key = "Esc" -> [a EXCEPT !.view_mode = "Table", !.search_query = <<>>]
      [] key = "Enter" -> [a EXCEPT !.view_mode = "Table"]
      [] key = "Backspace" /\ a.search_query # <<>> ->
            [a EXCEPT !.search_query = Front(@)]
      [] key \in Letter -> [a EXCEPT !.search_query = Append(@, key)]
      [] OTHER -> a

handle_log_key(a, key) ==
    IF key \in {"Esc", "L"} THEN [a EXCEPT !.view_mode = "Table"] ELSE a

handle_key(s, a, key) ==
    CASE a.view_mode = "Search" -> handle_search_key(a, key)
      [] a.view_mode = "Log" -> handle_log_key(a, key)
      [] a.view_mode = "Table" -> handle_table_key(s, a, key)

Key == {"j", "k", "l", "h", "r", "space", "a", "/", "L", "g", "G",
        "Esc", "Enter", "Backspace"} \cup Letter

(* In Search every character is typed; the bound is on those.              *)
MayType(key) ==
    app.view_mode = "Search" =>
        \/ key \in {"Esc", "Enter", "Backspace"}
        \/ key \in Letter /\ Len(app.search_query) < MaxQuery

Press(key) ==
    /\ running /\ key \in Key /\ MayType(key)
    /\ Draw(handle_key(state, app, key))
    /\ UNCHANGED <<running, state>>

(* process_event looks for q before it asks App.                           *)
PressQ ==
    /\ running
    /\ running' = FALSE
    /\ UNCHANGED <<state, app, screen>>

-----------------------------------------------------------------------------
(* Monitor events, as far as the table depends on them.                    *)

Behind == screen' = Stale /\ UNCHANGED <<running, app>>

(* An insertion may rehash the map: any order may come out.  The report    *)
(* says what the host is like, but for its jobs.                           *)
HostAppears(h) ==
    /\ running /\ h \notin ToSet(state.hosts)
    /\ \E ids \in SetToSeqs(ToSet(state.hosts) \cup {h}), look \in Look[h] :
         /\ look.cur = state.look[h].cur
         /\ state' = [state EXCEPT !.hosts = ids, !.look[h] = look]
    /\ Behind

(* Its jobs stay: they are counted by host id.                             *)
HostGoes(h) ==
    /\ running
    /\ \E i \in DOMAIN state.hosts :
         /\ state.hosts[i] = h
         /\ state' = [state EXCEPT !.hosts = RemoveAt(@, i)]
    /\ Behind

(* A report of the host, or a job that begins or ends: they change its     *)
(* columns, its attributes and its jobs.  Of a host that is not in the map *)
(* there are only the jobs.                                                *)
HostChanges(h) ==
    /\ running
    /\ \E look \in Look[h] \ {state.look[h]} :
         /\ h \in ToSet(state.hosts) \/ look = [state.look[h] EXCEPT !.cur = look.cur]
         /\ state' = [state EXCEPT !.look[h] = look]
    /\ Behind

Disconnected ==
    /\ running
    /\ state' = NoHosts
    /\ Behind

(* A resize, or the redraw a monitor event is owed.                        *)
Redraw ==
    /\ running
    /\ Draw(app)
    /\ UNCHANGED <<running, state>>

Next ==
    \/ \E key \in Key : Press(key)
    \/ PressQ
    \/ \E h \in HostId : HostAppears(h) \/ HostGoes(h) \/ HostChanges(h)
    \/ Disconnected
    \/ Redraw

Spec == Init /\ [][Next]_vars

-----------------------------------------------------------------------------
(* The host the screen highlights, if the screen is up to date and its     *)
(* table is not empty.                                                     *)
UpToDate == screen # Stale
TableShown == UpToDate /\ screen.view # "Log" /\ screen.rows # <<>>
HighlightedHost == screen.rows[screen.highlighted + 1].host

(* "Select the correct row (host row, not detail)" (ui.rs:451): the row    *)
(* counted for the highlight and the rows laid out agree, whatever is      *)
(* expanded, sorted and filtered and however many jobs come and go, and    *)
(* the selection is within the list (host_to_table_row, ui.rs:293-304,     *)
(* against ui.rs:367-432).                                                 *)
HighlightIsSelectedHost ==
    TableShown =>
        /\ screen.selected < Len(screen.ids)
        /\ screen.highlighted < Len(screen.rows)
        /\ ~screen.rows[screen.highlighted + 1].detail
        /\ HighlightedHost = screen.ids[screen.selected + 1]

(* Space on an up-to-date, unfiltered table expands or collapses the       *)
(* highlighted host and no other: the list is sorted twice, in draw_table  *)
(* and for the key, and both times with the same outcome (ui.rs:110, 307). *)
SpaceTogglesHighlighted ==
    [][app.search_query = <<>> /\ app.view_mode = "Table" /\ TableShown /\ Press("space")
       => \A h \in HostId :
            (h \in app'.expanded) = ((h \in app.expanded) # (h = HighlightedHost))]_vars

(* From an up-to-date table j and k move the highlight to the neighbouring *)
(* host of the list or, at its ends, nowhere: also when a filter is set,   *)
(* whose length handle_table_key does not know (ui.rs:94-99, 325-327).     *)
MovesAreSteps ==
    [][TableShown /\ app.view_mode = "Table" =>
        LET at == screen.selected
            last == Len(screen.ids) - 1
        IN  /\ Press("j") => screen'.selected = IF at < last THEN at + 1 ELSE last
            /\ Press("k") => screen'.selected = IF at > 0 THEN at - 1 ELSE 0
            /\ Press("G") => screen'.selected = last]_vars

(* "space:expand" (ui.rs:504) of the row that draw_table highlights, with  *)
(* a filter or without.                                                    *)
SpaceExpandsWhatIsHighlighted ==
    [][app.view_mode = "Table" /\ TableShown /\ Press("space")
       => \A h \in HostId :
            (h \in app'.expanded) = ((h \in app.expanded) # (h = HighlightedHost))]_vars

(* The bar says "q:quit" for the table (ui.rs:504) and "Search: " for      *)
(* search (ui.rs:500): what is typed there is searched for.                *)
SearchTakesEveryCharacter ==
    [][running /\ ~running' => app.view_mode # "Search"]_vars
=============================================================================

------------------------------- MODULE Console -------------------------------
(***************************************************************************)
(* The terminal viewer of memoryd (tui.rs): lists read in pages by offset, *)
(* selections, a search box, the stack of memory details and the detail of *)
(* a session, driven by keys and by a database that the daemon goes on     *)
(* writing between two reads.                                              *)
(*                                                                         *)
(* Rows are ids: a memory is numbered in the order of its creation. Lists  *)
(* and tables are sequences of ids, first row first. Drawing is reduced to *)
(* which list has the keys. The status line is left out, and so are the    *)
(* panels that are always read whole: profile, imports, stats.             *)
(***************************************************************************)
EXTENDS Integers, Sequences, FiniteSets, SequencesExt

CONSTANTS
    Page,           \* PAGE
    PageMax,        \* the largest page the store returns
    SearchLimit,    \* SEARCH_LIMIT
    NeighborLimit,  \* NEIGHBOR_LIMIT
    Links,          \* pairs of memories that are linked
    MaxRows,        \* bound: rows of each table
    MaxDetail       \* bound: levels of the memory detail

Listed == {"memories", "sessions"}

ASSUME ConsolePagesAssumption ==
    /\ Page \in Nat \ {0} /\ PageMax \in Nat \ {0} /\ Page <= PageMax
    /\ SearchLimit \in Nat \ {0} /\ NeighborLimit \in Nat \ {0}

ASSUME ConsoleBoundsAssumption ==
    MaxRows \in [Listed -> Nat] /\ MaxDetail \in Nat

VARIABLES
    table,      \* the rows of each table, in the order its query returns
    archived,   \* memories that are not recallable any more
    changed,    \* tables that changed since their list was read from the top
    tab,        \* the active tab
    loaded,     \* the rows of each list the viewer has read
    selected,   \* the selected position of each list, from 0
    end,        \* lists believed to have no further page
    search,     \* box active, results and their selection
    detail,     \* the stack of memory details
    session     \* the session whose detail is open, NoRow if none

database == <<table, archived>>
lists == <<loaded, selected, end, changed>>
views == <<tab, search, detail, session>>
consoleVars == <<database, lists, views>>

-----------------------------------------------------------------------------
Tabs == <<"memories", "sessions", "profile", "imports", "stats">>
NoRow == 0
EventHit == 0   \* a search hit on a raw event has no memory id
NoResults == <<-1>>

Smaller(a, b) == IF a < b THEN a ELSE b
Larger(a, b) == IF a > b THEN a ELSE b

NoSearch == [active |-> FALSE, results |-> NoResults, selected |-> 0]
Searched == search.results # NoResults

Recallable == ToSet(table["memories"]) \ archived

(* The reads of the store.                                                 *)
ListPage(t, offset, limit) ==
    SubSeq(table[t], offset + 1, Smaller(offset + Smaller(limit, PageMax), Len(table[t])))

\* Mutant of LastPage: a page that is exactly full counts as the last.
LastPageFull(page, limit) == Len(page) <= limit

LastPage(page, limit) == Len(page) < limit

-----------------------------------------------------------------------------
(* The viewer starts on a database that may have rows, and reads the first *)
(* page of every list; a read may fail.                                    *)
ReadFailures == {{}} \cup {{t} : t \in Listed}
Newest(n) == [i \in 1..n |-> n + 1 - i]

ConsoleInit ==
    /\ \E filled \in SUBSET Listed :
          table = [t \in Listed |-> IF t \in filled THEN Newest(MaxRows[t]) ELSE <<>>]
    /\ archived = {}
    /\ changed = {}
    /\ tab = "memories"
    /\ \E failed \in ReadFailures :
          /\ loaded = [t \in Listed |->
                IF t \in failed THEN <<>> ELSE ListPage(t, 0, Page)]
          /\ end = {t \in Listed \ failed : LastPage(loaded[t], Page)}
    /\ selected = [t \in Listed |-> 0]
    /\ search = NoSearch
    /\ detail = <<>>
    /\ session = NoRow

-----------------------------------------------------------------------------
(* The daemon, hooks and imports: a memory is created now, so it comes     *)
(* first; sessions start when their transcript says.                       *)
Places(t) == IF t = "memories" THEN {1} ELSE 1..(Len(table[t]) + 1)

AddRow(t) ==
    /\ Len(table[t]) < MaxRows[t]
    /\ \E i \in Places(t) :
          table' = [table EXCEPT ![t] = InsertAt(@, i, Len(@) + 1)]
    /\ changed' = changed \cup {t}
    /\ UNCHANGED <<archived, loaded, selected, end, views>>

Archive(m) ==
    /\ m \in Recallable
    /\ archived' = archived \cup {m}
    /\ UNCHANGED <<table, lists, views>>

Daemon == (\E t \in Listed : AddRow(t)) \/ (\E m \in Recallable : Archive(m))

-----------------------------------------------------------------------------
(* What detail and search read.                                            *)
Linked(m) == {n \in Recallable : <<m, n>> \in Links \/ <<n, m>> \in Links}

(* The strongest links of a recallable memory; which ones are the stronger *)
(* is left open.                                                           *)
Neighbors(m) ==
    LET all == SetToSeq(Linked(m))
    IN  SubSeq(all, 1, Smaller(NeighborLimit, Len(all)))

(* What a query may return: memories, or raw events if no memory matches.  *)
MemoryHits == {SetToSeq(S) : S \in {T \in SUBSET Recallable : Cardinality(T) <= SearchLimit}}
EventHits == {[i \in 1..n |-> EventHit] : n \in 0..1}
SearchResults == (MemoryHits \ {<<>>}) \cup EventHits

-----------------------------------------------------------------------------
(* Refresh: both lists are read again from the top, as far as they were    *)
(* paged; a read that fails leaves its list as it was.                     *)
Limit(t) == Larger(Len(loaded[t]), Page)

Clamped(len, at) == IF len = 0 THEN 0 ELSE Smaller(at, len - 1)

RefreshLists(T) ==
    /\ loaded' = [t \in Listed |-> IF t \in T THEN ListPage(t, 0, Limit(t)) ELSE loaded[t]]
    /\ selected' = [t \in Listed |-> Clamped(Len(loaded'[t]), selected[t])]
    /\ end' = {t \in Listed : IF t \in T THEN LastPage(loaded'[t], Limit(t)) ELSE t \in end}
    /\ changed' = changed \ T

Refresh ==
    /\ \E failed \in ReadFailures : RefreshLists(Listed \ failed)
    /\ detail' = <<>>
    /\ session' = NoRow
    /\ UNCHANGED <<database, tab, search>>

-----------------------------------------------------------------------------
(* Keys that move the selection.                                           *)
StepTo(len, at, down) ==
    IF len = 0 THEN 0 ELSE IF down THEN Smaller(at + 1, len - 1) ELSE Larger(at - 1, 0)

(* The list that has the keys.                                             *)
Focus == IF detail # <<>> THEN "detail"
         ELSE IF tab = "memories" /\ Searched THEN "results"
         ELSE IF tab = "sessions" /\ session # NoRow THEN "none" ELSE tab

(* The list that is drawn.                                                 *)
Shown == CASE tab = "memories" /\ detail # <<>> -> "detail"
           [] tab = "memories" /\ detail = <<>> /\ Searched -> "results"
           [] tab = "sessions" /\ session # NoRow -> "none"
           [] OTHER -> tab

MoveInDetail(down) ==
    LET top == detail[Len(detail)]
    IN  /\ Focus = "detail"
        /\ detail # <<>>
        /\ detail' = [detail EXCEPT ![Len(detail)] = [id |-> top.id, neighbors |-> top.neighbors,
                          selected |-> StepTo(Len(top.neighbors), top.selected, down)]]
        /\ UNCHANGED <<lists, search, session>>

MoveInResults(down) ==
    /\ Focus = "results"
    /\ search' = [search EXCEPT !.selected = StepTo(Len(search.results), @, down)]
    /\ UNCHANGED <<lists, detail, session>>

AtLoadedEnd(t) == selected[t] + 1 >= Len(loaded[t])

\* Mutant of NextOffset: one row is skipped.
NextOffsetSkips(t) == Len(loaded[t]) + 1

NextOffset(t) == Len(loaded[t])

(* A page is appended at the offset of what is loaded, whatever the table  *)
(* has become since; the read may fail.                                    *)
Extensions(t, down) ==
    LET page == ListPage(t, NextOffset(t), Page)
        asIs == [rows |-> loaded[t], end |-> t \in end]
        longer == [rows |-> loaded[t] \o page, end |-> LastPage(page, Page)]
    IN  IF down /\ AtLoadedEnd(t) /\ t \notin end THEN {longer, asIs} ELSE {asIs}

MoveInList(down) ==
    /\ Focus \in Listed
    /\ \E ext \in Extensions(tab, down) :
          /\ loaded' = [loaded EXCEPT ![tab] = ext.rows]
          /\ selected' = [selected EXCEPT ![tab] = StepTo(Len(ext.rows), @, down)]
          /\ end' = IF ext.end THEN end \cup {tab} ELSE end
    /\ UNCHANGED <<changed, search, detail, session>>

Move ==
    /\ ~search.active
    /\ \E down \in BOOLEAN : MoveInDetail(down) \/ MoveInResults(down) \/ MoveInList(down)
    /\ UNCHANGED <<database, tab>>

-----------------------------------------------------------------------------
(* Keys that open and close views.                                         *)
Opened(m) == [id |-> m, neighbors |-> Neighbors(m), selected |-> 0]

(* A memory that is not recallable any more leaves only a message.         *)
PushDetail(m) ==
    /\ Len(detail) < MaxDetail
    /\ detail' \in {detail} \cup IF m \in Recallable THEN {Append(detail, Opened(m))} ELSE {}

MayOpen == tab = "memories" /\ detail = <<>>

OpenMemory ==
    /\ MayOpen
    /\ IF Searched
       THEN /\ search.results # <<>>
            /\ search.results[search.selected + 1] # EventHit
            /\ PushDetail(search.results[search.selected + 1])
       ELSE /\ loaded["memories"] # <<>>
            /\ PushDetail(loaded["memories"][selected["memories"] + 1])
    /\ UNCHANGED session

OpenSession ==
    /\ tab = "sessions"
    /\ loaded["sessions"] # <<>>
    /\ session' = loaded["sessions"][selected["sessions"] + 1]
    /\ UNCHANGED detail

Enter ==
    /\ ~search.active
    /\ OpenMemory \/ OpenSession
    /\ UNCHANGED <<database, lists, tab, search>>

(* The selected neighbour becomes the next level of the stack.             *)
Recenter ==
    LET top == detail[Len(detail)]
    IN  /\ ~search.active
        /\ detail # <<>>
        /\ top.neighbors # <<>>
        /\ PushDetail(top.neighbors[top.selected + 1])
        /\ UNCHANGED <<database, lists, tab, search, session>>

(* Esc closes one thing: a level of the stack, the session, the results.   *)
Back ==
    /\ ~search.active
    /\ \/ /\ detail # <<>>
          /\ detail' = Front(detail)
          /\ UNCHANGED <<session, search>>
       \/ /\ detail = <<>> /\ session # NoRow
          /\ session' = NoRow
          /\ UNCHANGED <<detail, search>>
       \/ /\ detail = <<>> /\ session = NoRow /\ Searched
          /\ search' = NoSearch
          /\ UNCHANGED <<detail, session>>
    /\ UNCHANGED <<database, lists, tab>>

SwitchTab ==
    /\ ~search.active
    /\ \E i \in 1..Len(Tabs) : tab' = Tabs[i]
    /\ UNCHANGED <<database, lists, search, detail, session>>

-----------------------------------------------------------------------------
(* The search box: what is typed shows only in the answer to it, which is  *)
(* that of a blank query, hits, or a read error.                           *)
StartSearch ==
    /\ ~search.active
    /\ tab = "memories" /\ detail = <<>>
    /\ search' = [search EXCEPT !.active = TRUE]
    /\ UNCHANGED <<database, lists, tab, detail, session>>

LeaveSearch ==
    /\ search.active
    /\ search' = [search EXCEPT !.active = FALSE]
    /\ UNCHANGED <<database, lists, tab, detail, session>>

\* Mutant of Answered: new results keep the old selection.
AnsweredKept(results) == [search EXCEPT !.active = FALSE, !.results = results]

Answered(results) == [active |-> FALSE, results |-> results, selected |-> 0]

SubmitSearch ==
    /\ search.active
    /\ \/ search' = [active |-> FALSE, results |-> NoResults, selected |-> search.selected]
       \/ \E results \in SearchResults \cup {search.results} : search' = Answered(results)
    /\ UNCHANGED <<database, lists, tab, detail, session>>

-----------------------------------------------------------------------------
(* handle_key: while the box is active every key is text.                  *)
Key ==
    \/ Move
    \/ Enter
    \/ Recenter
    \/ Back
    \/ SwitchTab
    \/ ~search.active /\ Refresh
    \/ StartSearch
    \/ LeaveSearch
    \/ SubmitSearch

ConsoleNext == Daemon \/ Key

ConsoleSpec == ConsoleInit /\ [][ConsoleNext]_consoleVars

-----------------------------------------------------------------------------
Level == [id : Nat, neighbors : Seq(Nat), selected : Nat]

ConsoleTypeOK ==
    /\ table \in [Listed -> Seq(Nat)]
    /\ archived \subseteq ToSet(table["memories"])
    /\ changed \subseteq Listed
    /\ tab \in ToSet(Tabs)
    /\ loaded \in [Listed -> Seq(Nat)]
    /\ selected \in [Listed -> Nat]
    /\ end \subseteq Listed
    /\ search \in [active : BOOLEAN, results : Seq(Int), selected : Nat]
    /\ detail \in Seq(Level) /\ Len(detail) <= MaxDetail
    /\ session \in Nat

-----------------------------------------------------------------------------
Valid(len, at) == at < len \/ at = 0

(* The keys go to the list that is drawn, although two functions decide it *)
(* (draw and move_selection; a memory detail left open when another tab is *)
(* chosen keeps them unseen), and every selection points at a row of its   *)
(* list, whatever is refreshed, searched, paged or closed in between:      *)
(* Enter and g never take a row that is not there (tui.rs, open_selected   *)
(* and recenter_detail).                                                   *)
KeysReachRows ==
    /\ (detail = <<>> \/ tab = "memories") => Focus = Shown
    /\ \A t \in Listed : Valid(Len(loaded[t]), selected[t])
    /\ Searched => Valid(Len(search.results), search.selected)
    /\ \A i \in 1..Len(detail) : Valid(Len(detail[i].neighbors), detail[i].selected)

(* Pages join up: as long as its table did not change since a list was     *)
(* read from the top, the list is the beginning of the table, no row shown *)
(* twice and none skipped, although it was read in pages by offset and     *)
(* some of the reads failed.                                               *)
PagesContiguous ==
    \A t \in Listed \ changed : IsPrefix(loaded[t], table[t])

(* A list that asks for no further page is complete, as long as its table  *)
(* did not change and fits the largest page. Beyond that page it is not:   *)
(* see the README.                                                         *)
EndIsTheEnd ==
    \A t \in end \ changed : Len(table[t]) <= PageMax => loaded[t] = table[t]

-----------------------------------------------------------------------------
(* Why they hold: what every action keeps. The lists need no view, the     *)
(* views need the lists they open rows of.                                 *)
ListInv ==
    /\ table \in [Listed -> Seq(Nat)]
    /\ loaded \in [Listed -> Seq(Nat)] /\ selected \in [Listed -> Nat]
    /\ end \subseteq Listed /\ changed \subseteq Listed
    /\ \A t \in Listed : Valid(Len(loaded[t]), selected[t])
    /\ PagesContiguous /\ EndIsTheEnd

ViewInv ==
    /\ search \in [active : BOOLEAN, results : Seq(Int), selected : Nat]
    /\ detail \in Seq(Level) /\ Len(detail) <= MaxDetail
    /\ tab \in ToSet(Tabs) /\ session \in Nat
    /\ Searched => Valid(Len(search.results), search.selected)
    /\ \A i \in 1..Len(detail) : Valid(Len(detail[i].neighbors), detail[i].selected)

ArchivedListed == archived \subseteq ToSet(table["memories"])

ConsoleInv == ListInv /\ ViewInv /\ ArchivedListed

=============================================================================
